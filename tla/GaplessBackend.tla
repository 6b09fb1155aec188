---------------------------- MODULE GaplessBackend ----------------------------
(***************************************************************************)
(* The Symphonia backend as the playback controller drives it: the caller  *)
(* (one at a time, the controller is locked), the active worker with its   *)
(* job channel, the prepare worker, SharedPreparedState with its           *)
(* generation, and the output callback, which hands over from the track    *)
(* that was played out to the pending one without asking anybody and       *)
(* tells the worker afterwards.                                            *)
(*                                                                         *)
(* A track here is the AudioRing with the threads of its SessionCore; what *)
(* these do inside is TrackPipeline.                                       *)
(***************************************************************************)
EXTENDS Naturals, Sequences, FiniteSets

CONSTANTS Tracks,          \* one for every load or preparation
          NoTrack,
          MaxCalls         \* bound: calls per behaviour

ASSUME BackendAssumption == NoTrack \notin Tracks /\ MaxCalls \in Nat

(***************************************************************************)
(* The caller's clear_prepared and prepare are two steps, with the worker  *)
(* and the callback running in between.  A behaviour opens some windows:   *)
(*   "ready"    the worker announces a prepared track between the two      *)
(*   "handoff"  a call is made between a handoff and the worker's          *)
(*              learning of it                                             *)
(***************************************************************************)
Windows == {"ready", "handoff"}

VARIABLES
    windows,    \* the windows this behaviour opens
    caller,     \* the call under way, its step, and how many were made
    jobs,       \* active_tx: jobs for the active worker
    requests,   \* prepare_tx: jobs for the prepare worker
    preparing,  \* the prepare worker's job, its track probed
    prepared,   \* SharedPreparedState: generation and session
    session,    \* ActiveSession: core, and its StreamRouter's current and pending
    callback,   \* generation the output callback handed over to and has not told
    track,      \* per track: its threads and how far it is
    events      \* history: what was pushed to the event hub by the last step

vars == <<windows, caller, jobs, requests, preparing, prepared, session, callback,
          track, events>>

NoPending == [generation |-> 0, track |-> NoTrack]
NoSession == [core |-> NoTrack, current |-> NoTrack, pending |-> NoPending,
              paused |-> FALSE]

\* fresh: not made yet; alive: its threads run; gone: torn down.  A decoded track
\* plays out whether torn down or not; one that is torn down in the middle of a
\* read is marked finished as well, as if it had been decoded just before.
Fresh == [threads |-> "fresh", decoded |-> FALSE, playedOut |-> FALSE, ended |-> FALSE]

Calls == {"load", "prepare", "activate", "clear", "seek", "pause", "resume", "stop"}
Jobs ==
    [job: {"load", "activate", "seek", "pause", "resume", "stop", "clearPending"}]
        \cup [job: {"ready", "failed", "complete"}, generation: Nat]
Pushed == {"reset", "seekProcessed", "prepared", "failed", "transition", "ended"}
Pendings == [generation: Nat, track: Tracks \cup {NoTrack}]
Callers == [call: Calls \cup {"none"}, step: {1, 2}, made: 0 .. MaxCalls]
Sessions == [core: Tracks \cup {NoTrack}, current: Tracks \cup {NoTrack},
             pending: Pendings, paused: BOOLEAN]
TrackStates == [threads: {"fresh", "alive", "gone"}, decoded: BOOLEAN,
                playedOut: BOOLEAN, ended: BOOLEAN]

TypeOK ==
    /\ windows \subseteq Windows
    /\ caller \in Callers
    /\ jobs \in Seq(Jobs) /\ requests \in Seq(Nat)
    /\ preparing \in Pendings /\ prepared \in Pendings
    /\ session \in Sessions
    /\ callback \in Nat
    /\ track \in [Tracks -> TrackStates]
    /\ events \subseteq Pushed

Init ==
    /\ windows \in SUBSET Windows
    /\ caller = [call |-> "none", step |-> 1, made |-> 0]
    /\ jobs = <<>> /\ requests = <<>>
    /\ preparing = NoPending
    /\ prepared = NoPending
    /\ session = NoSession
    /\ callback = 0
    /\ track = [t \in Tracks |-> Fresh]
    /\ events = {}

-----------------------------------------------------------------------------
\* Tracks.

FreshTracks == {t \in Tracks : track[t].threads = "fresh"}

\* tear_down_core joins the threads; what is in the ring stays there.
TornDown(tracks, t) ==
    IF t = NoTrack THEN tracks ELSE [tracks EXCEPT ![t].threads = "gone"]
Started(tracks, t) == [tracks EXCEPT ![t].threads = "alive"]

\* Mutant: what is prepared is forgotten, and runs on.
SessionDown == TornDown(track, session.core)
AllDown == TornDown(TornDown(track, session.core), prepared.track)

\* activate_session: a router of its own, nothing pending; paused unless autoplay.
ActiveOn(t) ==
    [core: {t}, current: {t}, pending: {NoPending}, paused: BOOLEAN]

\* Taking the prepared session starts a new generation, found or not.
Taken == [generation |-> prepared.generation + 1, track |-> NoTrack]

-----------------------------------------------------------------------------
\* The caller.

Calling == caller.call # "none"

HandoffUnderWay ==
    \/ callback # 0
    \/ \E i \in DOMAIN jobs : jobs[i].job = "complete"

FirstJob(call) ==
    CASE call \in {"prepare", "clear"} -> "clearPending"
      [] OTHER -> call

\* send_active_unit and its like: post the job and wait for the answer.
Call(call) ==
    /\ ~Calling /\ caller.made < MaxCalls
    /\ "handoff" \in windows \/ ~HandoffUnderWay
    /\ call \in {"load", "prepare"} => FreshTracks # {}
    /\ caller' = [call |-> call, step |-> 1, made |-> caller.made + 1]
    /\ jobs' = Append(jobs, [job |-> FirstJob(call)])
    /\ events' = {}
    /\ UNCHANGED <<windows, requests, preparing, prepared, session, callback, track>>

\* The second step of prepare and of clear_prepared: a new generation, and the
\* session prepared under the old one is torn down.
Invalidate ==
    /\ caller.call \in {"prepare", "clear"} /\ caller.step = 2
    /\ prepared' = Taken
    /\ track' = TornDown(track, prepared.track)
    /\ requests' = IF caller.call = "prepare"
                   THEN Append(requests, prepared'.generation) ELSE requests
    /\ caller' = [caller EXCEPT !.call = "none", !.step = 1]
    /\ events' = {}
    /\ UNCHANGED <<windows, jobs, preparing, session, callback>>

-----------------------------------------------------------------------------
\* The active worker: one job at a time.

Job(name) == jobs # <<>> /\ Head(jobs).job = name

\* The answer ends the call, or lets it go on to its second step.
Answered ==
    caller' = IF caller.call \in {"prepare", "clear"}
              THEN [caller EXCEPT !.step = 2] ELSE [caller EXCEPT !.call = "none"]

JobDone == jobs' = Tail(jobs) /\ UNCHANGED <<windows, requests, preparing, callback>>

\* Dropping the stream waits for its callback.
StreamDropped == callback = 0

\* Load tears everything down, and may fail to fetch, probe or open the device.
Load ==
    /\ Job("load") /\ StreamDropped
    /\ LET down == AllDown
       IN \E t \in FreshTracks :
            \/ /\ track' = Started(down, t)
               /\ session' \in ActiveOn(t)
            \/ /\ track' = TornDown(down, t)
               /\ session' = NoSession
    /\ prepared' = Taken
    /\ events' = {"reset"}
    /\ Answered /\ JobDone

ActivatePrepared ==
    /\ Job("activate") /\ StreamDropped
    /\ LET t == prepared.track
       IN IF t = NoTrack
          THEN UNCHANGED <<session, track>> /\ events' = {}
          ELSE /\ \/ /\ track' = TornDown(track, session.core)
                     /\ session' \in ActiveOn(t)
                  \/ /\ track' = TornDown(TornDown(track, session.core), t)
                     /\ session' = NoSession
               /\ events' = {"reset"}
    /\ prepared' = Taken
    /\ Answered /\ JobDone

\* The pump of the core seeks in its track.
Seek ==
    /\ Job("seek")
    /\ events' \in {{}} \cup (IF session.core = NoTrack THEN {} ELSE {{"seekProcessed"}})
    /\ UNCHANGED <<session, prepared, track>>
    /\ Answered /\ JobDone

\* The device may refuse.
PauseOrResume ==
    /\ Job("pause") \/ Job("resume")
    /\ \/ /\ session.core # NoTrack
          /\ session' = [session EXCEPT !.paused = Job("pause")]
       \/ UNCHANGED session
    /\ events' = {}
    /\ UNCHANGED <<prepared, track>>
    /\ Answered /\ JobDone

Stop ==
    /\ Job("stop") /\ StreamDropped
    /\ track' = AllDown
    /\ session' = NoSession
    /\ prepared' = Taken
    /\ events' = {}
    /\ Answered /\ JobDone

ClearPendingHandoff ==
    /\ Job("clearPending")
    /\ session' = [session EXCEPT !.pending = NoPending]
    /\ events' = {}
    /\ UNCHANGED <<prepared, track>>
    /\ Answered /\ JobDone

\* Between the answer to ClearPendingHandoff and the caller's second step.
BetweenSteps == caller.step = 2

\* The prepared track is offered to the router, unless its format differs, and
\* announced in any case.
PreparedReady ==
    /\ Job("ready")
    /\ "ready" \in windows \/ ~BetweenSteps
    /\ IF Head(jobs).generation = prepared.generation /\ prepared.track # NoTrack
       THEN /\ IF session.core = NoTrack
               THEN UNCHANGED session
               ELSE \E offered \in {prepared, NoPending} :
                      session' = [session EXCEPT !.pending = offered]
            /\ events' = {"prepared"}
       ELSE UNCHANGED session /\ events' = {}
    /\ UNCHANGED <<caller, prepared, track>>
    /\ JobDone

PrepareFailed ==
    /\ Job("failed")
    /\ events' = IF Head(jobs).generation = prepared.generation THEN {"failed"} ELSE {}
    /\ UNCHANGED <<caller, prepared, session, track>>
    /\ JobDone

\* Mutant: the generation is not compared.
AnyHandoff(generation) == TRUE
IsLastHandoff(generation) == generation = prepared.generation

\* The worker learns of a handoff: the prepared session becomes the core, if it
\* is still the one that was handed over to.
CompleteGaplessTransition ==
    /\ Job("complete")
    /\ IF IsLastHandoff(Head(jobs).generation)
       THEN /\ prepared' = Taken
            /\ IF session.core # NoTrack
               THEN /\ session' = [session EXCEPT !.core = prepared.track]
                    /\ track' = TornDown(track, session.core)
                    /\ events' = {"transition"}
               ELSE /\ track' = TornDown(track, prepared.track)
                    /\ events' = {}
                    /\ UNCHANGED session
       ELSE UNCHANGED <<prepared, session, track>> /\ events' = {}
    /\ UNCHANGED caller
    /\ JobDone

Worker ==
    \/ Load \/ ActivatePrepared \/ Seek \/ PauseOrResume \/ Stop \/ ClearPendingHandoff
    \/ PreparedReady \/ PrepareFailed \/ CompleteGaplessTransition

-----------------------------------------------------------------------------
\* The prepare worker: fetch and probe, then store under the generation asked.

PrepareSession ==
    /\ requests # <<>> /\ preparing = NoPending
    /\ requests' = Tail(requests)
    /\ \/ \E t \in FreshTracks :
            /\ preparing' = [generation |-> Head(requests), track |-> t]
            /\ track' = Started(track, t)
            /\ UNCHANGED jobs
       \/ /\ jobs' = Append(jobs, [job |-> "failed", generation |-> Head(requests)])
          /\ UNCHANGED <<preparing, track>>
    /\ events' = {}
    /\ UNCHANGED <<windows, caller, prepared, session, callback>>

StoreIfCurrent ==
    /\ preparing # NoPending
    /\ IF preparing.generation = prepared.generation
       THEN /\ prepared' = preparing
            /\ track' = TornDown(track, prepared.track)
            /\ jobs' = Append(jobs, [job |-> "ready", generation |-> preparing.generation])
       ELSE /\ track' = TornDown(track, preparing.track)
            /\ UNCHANGED <<prepared, jobs>>
    /\ preparing' = NoPending
    /\ events' = {}
    /\ UNCHANGED <<windows, caller, requests, session, callback>>

-----------------------------------------------------------------------------
\* The pump of a track, and the output callback of the stream.

Decode(t) ==
    /\ track[t].threads = "alive" /\ ~track[t].decoded
    /\ track' = [track EXCEPT ![t].decoded = TRUE]
    /\ events' = {}
    /\ UNCHANGED <<windows, caller, jobs, requests, preparing, prepared, session, callback>>

Playing == session.core # NoTrack /\ ~session.paused

\* The ring that is played is finished and drained.
PlayOut ==
    /\ Playing
    /\ LET t == session.current
       IN /\ track[t].decoded /\ ~track[t].playedOut
          /\ track' = [track EXCEPT ![t].playedOut = TRUE]
    /\ events' = {}
    /\ UNCHANGED <<windows, caller, jobs, requests, preparing, prepared, session, callback>>

\* try_gapless_handoff, under the router's lock.
Handoff ==
    /\ Playing /\ callback = 0
    /\ "handoff" \in windows \/ ~Calling
    /\ track[session.current].playedOut
    /\ session.pending # NoPending
    /\ session' = [session EXCEPT !.current = session.pending.track,
                                  !.pending = NoPending]
    /\ callback' = session.pending.generation
    /\ events' = {}
    /\ UNCHANGED <<windows, caller, jobs, requests, preparing, prepared, track>>

TellWorker ==
    /\ callback # 0
    /\ jobs' = Append(jobs, [job |-> "complete", generation |-> callback])
    /\ callback' = 0
    /\ events' = {}
    /\ UNCHANGED <<windows, caller, requests, preparing, prepared, session, track>>

\* Mutant: what is prepared is expected to follow, pending or not.
NothingPrepared == prepared.track = NoTrack
NothingPending == session.pending = NoPending

\* Nothing is pending: the end is pushed, once for each track.
PushEnded ==
    /\ Playing /\ callback = 0
    /\ LET t == session.current
       IN /\ track[t].playedOut /\ ~track[t].ended
          /\ NothingPending
          /\ track' = [track EXCEPT ![t].ended = TRUE]
    /\ events' = {"ended"}
    /\ UNCHANGED <<windows, caller, jobs, requests, preparing, prepared, session, callback>>

-----------------------------------------------------------------------------
PrepareWorker == PrepareSession \/ StoreIfCurrent
Output == PlayOut \/ Handoff \/ TellWorker \/ PushEnded

Next ==
    \/ \E call \in Calls : Call(call)
    \/ Invalidate
    \/ Worker
    \/ PrepareWorker
    \/ \E t \in Tracks : Decode(t)
    \/ Output

\* Every thread that can run does; a download ends and a device asks for
\* samples.  Nobody has to call.
Fairness ==
    /\ WF_vars(Invalidate)
    /\ WF_vars(Worker)
    /\ WF_vars(PrepareWorker)
    /\ \A t \in Tracks : WF_vars(Decode(t))
    /\ WF_vars(Output)

Spec == Init /\ [][Next]_vars /\ Fairness

-----------------------------------------------------------------------------
\* The threads of a track have one owner, which will join them: the active
\* session, the prepared state or the prepare worker.  No track is left running,
\* or torn down twice, by two workers and a caller who pass it on.
Owned == {session.core, prepared.track, preparing.track} \ {NoTrack}
OneOwner ==
    /\ \A t \in Tracks : track[t].threads = "alive" <=> t \in Owned
    /\ session.core # NoTrack => session.core \notin {prepared.track, preparing.track}
    /\ prepared.track # NoTrack => prepared.track # preparing.track

\* A transition is announced for the track that is being heard, even when calls
\* and preparations overtook the callback's message (take_transitioned).
TransitionIsHeard ==
    [][ "transition" \in events' => session'.core = session'.current ]_vars

\* The controller hears of the end of a track that plays: its end, a transition,
\* or a call that replaced or paused it.
EndIsFollowed ==
    \A t \in Tracks :
        (windows = {} /\ Playing /\ session.core = t)
            ~> (track[t].ended \/ session.core # t \/ ~Playing)
=============================================================================
