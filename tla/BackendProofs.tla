---------------------------- MODULE BackendProofs -----------------------------
(***************************************************************************)
(* Theorems about the desktop's Symphonia backend, in two parts.           *)
(*                                                                         *)
(* The backend as it is driven: who owns the threads of a track, and what  *)
(* a handoff is worth when the worker learns of it, for any tracks and any *)
(* number of calls and through all the windows.                            *)
(*                                                                         *)
(* The generation is what the second argument hangs on: it grows with      *)
(* whatever replaces the prepared track or what is played, a preparation   *)
(* is stored at most once for each generation, so that a message that      *)
(* still names the generation was sent when the output went over to the    *)
(* track that is still prepared.                                           *)
(*                                                                         *)
(* One track of it: what its threads know of each other, for a body of any *)
(* length, a ring of any size and any number of seeks, and through all the *)
(* moments: the type invariant, ThreadsAgree on top of it, and that the    *)
(* end is signalled when everything was heard.                             *)
(***************************************************************************)
EXTENDS GaplessBackend, TrackPipeline, TLAPS

-----------------------------------------------------------------------------
(* The backend: GaplessBackend.                                            *)

\* Preparations are asked for once for each generation, and stored once.
RequestsFresh ==
    /\ \A i \in DOMAIN requests :
         /\ requests[i] <= prepared.generation
         /\ requests[i] = prepared.generation => prepared.track = NoTrack
         /\ preparing # NoPending => requests[i] # preparing.generation
    /\ \A i, j \in DOMAIN requests : i # j => requests[i] # requests[j]
    /\ preparing # NoPending =>
         /\ preparing.generation <= prepared.generation
         /\ preparing.generation = prepared.generation => prepared.track = NoTrack

\* What is pending under the present generation is what is prepared.
PendingIsPrepared ==
    session.pending # NoPending =>
        /\ session.pending.generation <= prepared.generation
        /\ session.pending.generation = prepared.generation =>
             prepared.track # NoTrack /\ session.pending.track = prepared.track

\* A handoff under the present generation went to what is prepared, and what
\* would go over next is no older.
HandedOver(generation) ==
    /\ generation <= prepared.generation
    /\ generation = prepared.generation =>
         /\ prepared.track # NoTrack /\ session.current = prepared.track
         /\ session.pending = NoPending
            \/ session.pending.generation = prepared.generation
HandoffsKnown ==
    /\ callback # 0 => HandedOver(callback)
    /\ \A i \in DOMAIN jobs :
         jobs[i].job = "complete" => HandedOver(jobs[i].generation)

HandoffInv == RequestsFresh /\ PendingIsPrepared /\ HandoffsKnown

USE BackendAssumption

-----------------------------------------------------------------------------
(* Queues and tracks.                                                      *)

LEMMA Posted ==
    ASSUME NEW S, NEW s \in Seq(S), NEW e \in S
    PROVE  /\ Append(s, e) \in Seq(S)
           /\ \A i \in DOMAIN Append(s, e) :
                IF i \in DOMAIN s THEN Append(s, e)[i] = s[i] ELSE Append(s, e)[i] = e
           /\ \A i, j \in DOMAIN Append(s, e) : i # j => i \in DOMAIN s \/ j \in DOMAIN s
  OBVIOUS

LEMMA Received ==
    ASSUME NEW S, NEW s \in Seq(S), s # <<>>
    PROVE  /\ Head(s) \in S
           /\ Head(s) = s[1] /\ 1 \in DOMAIN s
           /\ Tail(s) \in Seq(S)
           /\ \A i \in DOMAIN Tail(s) : i \in Nat /\ i + 1 \in DOMAIN s /\ i + 1 # 1 /\ Tail(s)[i] = s[i + 1]
  OBVIOUS

LEMMA TornDownThreads ==
    ASSUME NEW tracks \in [Tracks -> TrackStates], NEW t \in Tracks \cup {NoTrack}
    PROVE  /\ TornDown(tracks, t) \in [Tracks -> TrackStates]
           /\ \A u \in Tracks :
                TornDown(tracks, t)[u].threads = IF u = t THEN "gone" ELSE tracks[u].threads
  <1>1. CASE t = NoTrack
    BY <1>1 DEF TornDown
  <1>2. CASE t \in Tracks
    <2>1. TornDown(tracks, t) = [tracks EXCEPT ![t].threads = "gone"]
      BY <1>2 DEF TornDown
    <2>2. \A u \in Tracks : tracks[u] \in TrackStates
      OBVIOUS
    <2>3. TornDown(tracks, t) \in [Tracks -> TrackStates]
      BY <1>2, <2>1, <2>2 DEF TrackStates
    <2>4. \A u \in Tracks : TornDown(tracks, t)[u]
                              = IF u = t THEN [tracks[t] EXCEPT !.threads = "gone"] ELSE tracks[u]
      BY <1>2, <2>1
    <2>5. QED
      BY <1>2, <2>2, <2>3, <2>4 DEF TrackStates
  <1>3. QED
    BY <1>1, <1>2

LEMMA StartedThreads ==
    ASSUME NEW tracks \in [Tracks -> TrackStates], NEW t \in Tracks
    PROVE  /\ Started(tracks, t) \in [Tracks -> TrackStates]
           /\ \A u \in Tracks :
                Started(tracks, t)[u].threads = IF u = t THEN "alive" ELSE tracks[u].threads
  <1>1. \A u \in Tracks : tracks[u] \in TrackStates
    OBVIOUS
  <1>2. Started(tracks, t) \in [Tracks -> TrackStates]
    BY <1>1 DEF Started, TrackStates
  <1>3. \A u \in Tracks : Started(tracks, t)[u]
                            = IF u = t THEN [tracks[t] EXCEPT !.threads = "alive"] ELSE tracks[u]
    BY DEF Started
  <1>4. QED
    BY <1>1, <1>2, <1>3 DEF TrackStates

-----------------------------------------------------------------------------
(* Types.                                                                  *)

LEMMA InitTypes == Init => TypeOK
  <1> SUFFICES ASSUME Init PROVE TypeOK
    OBVIOUS
  <1>1. caller \in Callers /\ prepared \in Pendings /\ preparing \in Pendings
        /\ session \in Sessions
    BY DEF Init, Callers, Calls, Pendings, Sessions, NoSession, NoPending
  <1>2. track \in [Tracks -> TrackStates]
    BY DEF Init, Fresh, TrackStates
  <1>3. QED
    BY <1>1, <1>2 DEF Init, TypeOK, Pushed

LEMMA TakenTypes ==
    ASSUME TypeOK
    PROVE  Taken \in Pendings
           /\ Taken.generation = prepared.generation + 1 /\ Taken.track = NoTrack
  BY DEF TypeOK, Pendings, Taken

LEMMA ActiveOnTypes ==
    ASSUME NEW t \in Tracks, NEW s \in ActiveOn(t)
    PROVE  s \in Sessions /\ s.core = t /\ s.current = t /\ s.pending = NoPending
  BY DEF ActiveOn, Sessions, Pendings, NoPending

LEMMA NoSessionTypes ==
    NoSession \in Sessions /\ NoSession.core = NoTrack /\ NoSession.pending = NoPending
  BY DEF NoSession, Sessions, Pendings, NoPending

LEMMA DownTypes ==
    ASSUME TypeOK
    PROVE  /\ AllDown \in [Tracks -> TrackStates]
           /\ \A u \in Tracks : AllDown[u].threads
                = IF u \in {session.core, prepared.track} THEN "gone" ELSE track[u].threads
  <1>1. session.core \in Tracks \cup {NoTrack} /\ prepared.track \in Tracks \cup {NoTrack}
        /\ track \in [Tracks -> TrackStates]
    BY DEF TypeOK, Sessions, Pendings
  <1>2. DEFINE first == TornDown(track, session.core)
  <1>3. first \in [Tracks -> TrackStates]
        /\ \A u \in Tracks : first[u].threads
                = IF u = session.core THEN "gone" ELSE track[u].threads
    BY <1>1, TornDownThreads
  <1>4. AllDown = TornDown(first, prepared.track)
    BY DEF AllDown
  <1> HIDE DEF first
  <1>5. AllDown \in [Tracks -> TrackStates]
        /\ \A u \in Tracks : AllDown[u].threads
                = IF u = prepared.track THEN "gone" ELSE first[u].threads
    BY <1>1, <1>3, <1>4, TornDownThreads
  <1>6. QED
    BY <1>3, <1>5

LEMMA AnsweredTypes ==
    ASSUME TypeOK, Answered, JobDone, jobs # <<>>
    PROVE  /\ caller' \in Callers /\ jobs' \in Seq(Jobs)
           /\ windows' = windows /\ requests' = requests /\ preparing' = preparing
           /\ callback' = callback
  <1>1. caller' \in Callers
    BY DEF TypeOK, Answered, Callers
  <1>2. jobs' \in Seq(Jobs)
    BY Received DEF TypeOK, JobDone
  <1>3. QED
    BY <1>1, <1>2 DEF JobDone

LEMMA WorkerTypes ==
    ASSUME TypeOK, Worker
    PROVE  TypeOK'
  <1>0. /\ session.core \in Tracks \cup {NoTrack} /\ prepared.track \in Tracks \cup {NoTrack}
        /\ track \in [Tracks -> TrackStates] /\ session \in Sessions /\ prepared \in Pendings
    BY DEF TypeOK, Sessions, Pendings
  <1>1. CASE Load
    <2>1. jobs # <<>> /\ Answered /\ JobDone /\ prepared' = Taken /\ events' = {"reset"}
      BY <1>1 DEF Load, Job
    <2>2. PICK t \in FreshTracks :
            \/ track' = Started(AllDown, t) /\ session' \in ActiveOn(t)
            \/ track' = TornDown(AllDown, t) /\ session' = NoSession
      BY <1>1 DEF Load
    <2>3. t \in Tracks
      BY DEF FreshTracks
    <2>4. track' \in [Tracks -> TrackStates] /\ session' \in Sessions
      BY <2>2, <2>3, DownTypes, StartedThreads, TornDownThreads, ActiveOnTypes, NoSessionTypes
    <2>5. QED
      BY <2>1, <2>4, AnsweredTypes, TakenTypes DEF TypeOK, Pushed
  <1>2. CASE ActivatePrepared
    <2>1. jobs # <<>> /\ Answered /\ JobDone /\ prepared' = Taken
      BY <1>2 DEF ActivatePrepared, Job
    <2>2. track' \in [Tracks -> TrackStates] /\ session' \in Sessions /\ events' \subseteq Pushed
      <3>1. CASE prepared.track = NoTrack
        BY <1>0, <1>2, <3>1 DEF ActivatePrepared, Pushed
      <3>2. CASE prepared.track # NoTrack
        <4>1. events' = {"reset"}
              /\ \/ track' = TornDown(track, session.core) /\ session' \in ActiveOn(prepared.track)
                 \/ track' = TornDown(TornDown(track, session.core), prepared.track)
                    /\ session' = NoSession
          BY <1>2, <3>2 DEF ActivatePrepared
        <4>2. QED
          BY <1>0, <3>2, <4>1, TornDownThreads, ActiveOnTypes, NoSessionTypes DEF Pushed
      <3>3. QED
        BY <3>1, <3>2
    <2>3. QED
      BY <2>1, <2>2, AnsweredTypes, TakenTypes DEF TypeOK
  <1>3. CASE Seek
    <2>1. jobs # <<>> /\ Answered /\ JobDone
      BY <1>3 DEF Seek, Job
    <2>2. QED
      BY <1>3, <2>1, AnsweredTypes DEF Seek, TypeOK, Pushed
  <1>4. CASE PauseOrResume
    <2>1. jobs # <<>> /\ Answered /\ JobDone
      BY <1>4 DEF PauseOrResume, Job
    <2>2. session' \in Sessions
      <3>1. session' = [session EXCEPT !.paused = Job("pause")] \/ session' = session
        BY <1>4 DEF PauseOrResume
      <3>2. Job("pause") \in BOOLEAN
        BY DEF Job
      <3>3. QED
        BY <1>0, <3>1, <3>2 DEF Sessions
    <2>3. QED
      BY <1>4, <2>1, <2>2, AnsweredTypes DEF PauseOrResume, TypeOK, Pushed
  <1>5. CASE Stop
    <2>1. jobs # <<>> /\ Answered /\ JobDone
      BY <1>5 DEF Stop, Job
    <2>2. QED
      BY <1>5, <2>1, AnsweredTypes, TakenTypes, DownTypes, NoSessionTypes
         DEF Stop, TypeOK, Pushed
  <1>6. CASE ClearPendingHandoff
    <2>1. jobs # <<>> /\ Answered /\ JobDone
      BY <1>6 DEF ClearPendingHandoff, Job
    <2>2. session' \in Sessions
      BY <1>0, <1>6 DEF ClearPendingHandoff, Sessions, Pendings, NoPending
    <2>3. QED
      BY <1>6, <2>1, <2>2, AnsweredTypes DEF ClearPendingHandoff, TypeOK, Pushed
  <1>7. ASSUME JobDone, jobs # <<>>, caller' = caller
        PROVE  caller' \in Callers /\ jobs' \in Seq(Jobs) /\ windows' = windows
               /\ requests' = requests /\ preparing' = preparing /\ callback' = callback
    BY <1>7, Received DEF TypeOK, JobDone
  <1>8. CASE PreparedReady
    <2>1. session' \in Sessions
      <3>1. session' = session
            \/ \E offered \in {prepared, NoPending} :
                 session' = [session EXCEPT !.pending = offered]
        BY <1>8 DEF PreparedReady
      <3>2. NoPending \in Pendings
        BY DEF NoPending, Pendings
      <3>3. QED
        BY <1>0, <3>1, <3>2 DEF Sessions
    <2>2. QED
      BY <1>7, <1>8, <2>1 DEF PreparedReady, Job, TypeOK, Pushed
  <1>9. CASE PrepareFailed
    BY <1>7, <1>9 DEF PrepareFailed, Job, TypeOK, Pushed
  <1>10. CASE CompleteGaplessTransition
    <2>1. prepared' \in Pendings
      BY <1>0, <1>10, TakenTypes DEF CompleteGaplessTransition
    <2>2. session' \in Sessions
      <3>1. session' = session \/ session' = [session EXCEPT !.core = prepared.track]
        BY <1>10 DEF CompleteGaplessTransition
      <3>2. QED
        BY <1>0, <3>1 DEF Sessions
    <2>3. track' \in [Tracks -> TrackStates]
      <3>1. track' = track \/ track' = TornDown(track, session.core)
            \/ track' = TornDown(track, prepared.track)
        BY <1>10 DEF CompleteGaplessTransition
      <3>2. QED
        BY <1>0, <3>1, TornDownThreads
    <2>4. events' \subseteq Pushed
      BY <1>10 DEF CompleteGaplessTransition, Pushed
    <2>5. QED
      BY <1>7, <1>10, <2>1, <2>2, <2>3, <2>4 DEF CompleteGaplessTransition, Job, TypeOK
  <1>11. QED
    BY <1>1, <1>2, <1>3, <1>4, <1>5, <1>6, <1>8, <1>9, <1>10 DEF Worker

LEMMA CallTypes ==
    ASSUME TypeOK, NEW call \in Calls, Call(call)
    PROVE  TypeOK'
  <1>1. caller' \in Callers
    <2>1. caller.made + 1 \in 0 .. MaxCalls
      BY DEF TypeOK, Callers, Call
    <2>2. QED
      BY <2>1 DEF TypeOK, Callers, Call
  <1>2. jobs' \in Seq(Jobs)
    <2>1. [job |-> FirstJob(call)] \in Jobs
      BY DEF Calls, FirstJob, Jobs
    <2>2. QED
      BY <2>1, Posted DEF TypeOK, Call
  <1>3. QED
    BY <1>1, <1>2 DEF TypeOK, Call, Pushed

LEMMA InvalidateTypes ==
    ASSUME TypeOK, Invalidate
    PROVE  TypeOK'
  <1>1. prepared' = Taken /\ Taken \in Pendings /\ Taken.generation \in Nat
    BY TakenTypes DEF Invalidate, Pendings
  <1>2. requests' \in Seq(Nat)
    <2>1. requests' = Append(requests, Taken.generation) \/ requests' = requests
      BY <1>1 DEF Invalidate
    <2>2. requests \in Seq(Nat) /\ Append(requests, Taken.generation) \in Seq(Nat)
      BY <1>1, Posted DEF TypeOK
    <2>3. QED
      BY <2>1, <2>2
  <1>3. track' \in [Tracks -> TrackStates]
    BY TornDownThreads DEF TypeOK, Invalidate, Pendings
  <1>4. caller' \in Callers
    BY DEF TypeOK, Invalidate, Callers
  <1>5. QED
    BY <1>1, <1>2, <1>3, <1>4 DEF TypeOK, Invalidate, Pushed

LEMMA PrepareTypes ==
    ASSUME TypeOK, PrepareWorker
    PROVE  TypeOK'
  <1>1. CASE PrepareSession
    <2>1. Head(requests) \in Nat /\ requests' \in Seq(Nat)
      BY <1>1, Received DEF TypeOK, PrepareSession
    <2>2. CASE \E t \in FreshTracks :
                 /\ preparing' = [generation |-> Head(requests), track |-> t]
                 /\ track' = Started(track, t)
                 /\ UNCHANGED jobs
      <3>1. PICK t \in Tracks :
                 /\ preparing' = [generation |-> Head(requests), track |-> t]
                 /\ track' = Started(track, t)
                 /\ UNCHANGED jobs
        BY <2>2 DEF FreshTracks
      <3>2. preparing' \in Pendings /\ track' \in [Tracks -> TrackStates]
        BY <2>1, <3>1, StartedThreads DEF TypeOK, Pendings
      <3>3. QED
        BY <1>1, <2>1, <3>1, <3>2 DEF TypeOK, PrepareSession, Pushed
    <2>3. CASE jobs' = Append(jobs, [job |-> "failed", generation |-> Head(requests)])
               /\ UNCHANGED <<preparing, track>>
      <3>1. [job |-> "failed", generation |-> Head(requests)] \in Jobs
        BY <2>1 DEF Jobs
      <3>2. jobs' \in Seq(Jobs)
        BY <2>3, <3>1, Posted DEF TypeOK
      <3>3. QED
        BY <1>1, <2>1, <2>3, <3>2 DEF TypeOK, PrepareSession, Pushed
    <2>4. QED
      BY <1>1, <2>2, <2>3 DEF PrepareSession
  <1>2. CASE StoreIfCurrent
    <2>1. preparing' = NoPending /\ NoPending \in Pendings
      BY <1>2 DEF StoreIfCurrent, NoPending, Pendings
    <2>2. prepared' \in Pendings
      BY <1>2 DEF StoreIfCurrent, TypeOK
    <2>3. track' \in [Tracks -> TrackStates]
      <3>1. track' = TornDown(track, prepared.track) \/ track' = TornDown(track, preparing.track)
        BY <1>2 DEF StoreIfCurrent
      <3>2. track \in [Tracks -> TrackStates] /\ prepared.track \in Tracks \cup {NoTrack}
            /\ preparing.track \in Tracks \cup {NoTrack}
        BY DEF TypeOK, Pendings
      <3>3. QED
        BY <3>1, <3>2, TornDownThreads
    <2>4. jobs' \in Seq(Jobs)
      <3>1. [job |-> "ready", generation |-> preparing.generation] \in Jobs
        BY DEF TypeOK, Pendings, Jobs
      <3>2. jobs \in Seq(Jobs)
            /\ Append(jobs, [job |-> "ready", generation |-> preparing.generation]) \in Seq(Jobs)
        BY <3>1, Posted DEF TypeOK
      <3>3. QED
        BY <1>2, <3>2 DEF StoreIfCurrent
    <2>5. QED
      BY <1>2, <2>1, <2>2, <2>3, <2>4 DEF StoreIfCurrent, TypeOK, Pushed
  <1>3. QED
    BY <1>1, <1>2 DEF PrepareWorker

LEMMA OutputTypes ==
    ASSUME TypeOK, Output \/ \E t \in Tracks : Decode(t)
    PROVE  TypeOK'
  <1>0. \A t \in Tracks : track[t] \in TrackStates
    BY DEF TypeOK
  <1>1. CASE \E t \in Tracks : Decode(t)
    <2>1. PICK t \in Tracks : Decode(t)
      BY <1>1
    <2>2. track' \in [Tracks -> TrackStates]
      BY <1>0, <2>1 DEF TypeOK, Decode, TrackStates
    <2>3. QED
      BY <2>1, <2>2 DEF TypeOK, Decode, Pushed
  <1>3. CASE PlayOut
    <2>1. track' \in [Tracks -> TrackStates]
      <3>1. track' = [track EXCEPT ![session.current].playedOut = TRUE]
        BY <1>3 DEF PlayOut
      <3>2. QED
        BY <1>0, <3>1 DEF TypeOK, TrackStates
    <2>2. QED
      BY <1>3, <2>1 DEF TypeOK, PlayOut, Pushed
  <1>4. CASE Handoff
    <2>1. session.pending \in Pendings
      BY DEF TypeOK, Sessions
    <2>2. session' \in Sessions /\ callback' \in Nat
      BY <1>4, <2>1 DEF TypeOK, Handoff, Sessions, Pendings, NoPending
    <2>3. QED
      BY <1>4, <2>2 DEF TypeOK, Handoff, Pushed
  <1>5. CASE TellWorker
    <2>1. [job |-> "complete", generation |-> callback] \in Jobs
      BY DEF TypeOK, Jobs
    <2>2. jobs' \in Seq(Jobs)
      BY <1>5, <2>1, Posted DEF TypeOK, TellWorker
    <2>3. QED
      BY <1>5, <2>2 DEF TypeOK, TellWorker, Pushed
  <1>6. CASE PushEnded
    <2>1. track' \in [Tracks -> TrackStates]
      <3>1. track' = [track EXCEPT ![session.current].ended = TRUE]
        BY <1>6 DEF PushEnded
      <3>2. QED
        BY <1>0, <3>1 DEF TypeOK, TrackStates
    <2>2. QED
      BY <1>6, <2>1 DEF TypeOK, PushEnded, Pushed
  <1>7. QED
    BY <1>1, <1>3, <1>4, <1>5, <1>6 DEF Output

LEMMA StepTypes == TypeOK /\ [Next]_vars => TypeOK'
  <1>1. ASSUME TypeOK, UNCHANGED vars PROVE TypeOK'
    BY <1>1 DEF vars, TypeOK
  <1>2. QED
    BY <1>1, WorkerTypes, CallTypes, InvalidateTypes, PrepareTypes, OutputTypes DEF Next

-----------------------------------------------------------------------------
(* Owners of the threads.                                                  *)

\* What an action that touches neither owners nor threads keeps.
LEMMA OwnersUntouched ==
    ASSUME OneOwner, session'.core = session.core, prepared'.track = prepared.track,
           preparing' = preparing,
           \A t \in Tracks : track'[t].threads = track[t].threads
    PROVE  OneOwner'
  BY DEF OneOwner, Owned

LEMMA WorkerOwns ==
    ASSUME TypeOK, OneOwner, Worker
    PROVE  OneOwner'
  <1>0. /\ session.core \in Tracks \cup {NoTrack} /\ prepared.track \in Tracks \cup {NoTrack}
        /\ preparing.track \in Tracks \cup {NoTrack}
        /\ track \in [Tracks -> TrackStates] /\ session \in Sessions /\ prepared \in Pendings
    BY DEF TypeOK, Sessions, Pendings
  <1>1. CASE Load
    <2>1. preparing' = preparing /\ prepared'.track = NoTrack
      BY <1>1, TakenTypes DEF Load, JobDone
    <2>2. PICK t \in FreshTracks :
            \/ track' = Started(AllDown, t) /\ session' \in ActiveOn(t)
            \/ track' = TornDown(AllDown, t) /\ session' = NoSession
      BY <1>1 DEF Load
    <2>3. t \in Tracks /\ t # NoTrack
          /\ t \notin {session.core, prepared.track, preparing.track}
      BY DEF FreshTracks, OneOwner, Owned
    <2>4. CASE track' = Started(AllDown, t) /\ session' \in ActiveOn(t)
      <3>1. session'.core = t
        BY <2>3, <2>4, ActiveOnTypes
      <3>2. \A u \in Tracks : track'[u].threads
              = IF u = t THEN "alive"
                ELSE IF u \in {session.core, prepared.track} THEN "gone" ELSE track[u].threads
        BY <2>3, <2>4, DownTypes, StartedThreads
      <3>3. QED
        BY <2>1, <2>3, <3>1, <3>2 DEF OneOwner, Owned
    <2>5. CASE track' = TornDown(AllDown, t) /\ session' = NoSession
      <3>1. session'.core = NoTrack
        BY <2>5, NoSessionTypes
      <3>2. \A u \in Tracks : track'[u].threads
              = IF u = t THEN "gone"
                ELSE IF u \in {session.core, prepared.track} THEN "gone" ELSE track[u].threads
        BY <2>3, <2>5, DownTypes, TornDownThreads
      <3>3. QED
        BY <2>1, <2>3, <3>1, <3>2 DEF OneOwner, Owned
    <2>6. QED
      BY <2>2, <2>4, <2>5
  <1>2. CASE ActivatePrepared
    <2>1. preparing' = preparing /\ prepared'.track = NoTrack
      BY <1>2, TakenTypes DEF ActivatePrepared, JobDone
    <2>2. CASE prepared.track = NoTrack
      <3>1. session' = session /\ track' = track
        BY <1>2, <2>2 DEF ActivatePrepared
      <3>2. QED
        BY <2>1, <2>2, <3>1, OwnersUntouched
    <2>3. CASE prepared.track # NoTrack /\ track' = TornDown(track, session.core)
               /\ session' \in ActiveOn(prepared.track)
      <3>1. session'.core = prepared.track
        BY <1>0, <2>3, ActiveOnTypes
      <3>2. \A u \in Tracks : track'[u].threads
              = IF u = session.core THEN "gone" ELSE track[u].threads
        BY <1>0, <2>3, TornDownThreads
      <3>3. QED
        BY <1>0, <2>1, <2>3, <3>1, <3>2 DEF OneOwner, Owned
    <2>4. CASE track' = AllDown /\ session' = NoSession
      <3>1. session'.core = NoTrack
        BY <2>4, NoSessionTypes
      <3>2. QED
        BY <2>1, <2>4, <3>1, DownTypes DEF OneOwner, Owned
    <2>5. QED
      BY <1>2, <2>2, <2>3, <2>4 DEF ActivatePrepared, AllDown
  <1>3. CASE Seek
    BY <1>3, OwnersUntouched DEF Seek, JobDone
  <1>4. CASE PauseOrResume
    <2>1. session'.core = session.core
      BY <1>0, <1>4 DEF PauseOrResume, Sessions
    <2>2. QED
      BY <1>4, <2>1, OwnersUntouched DEF PauseOrResume, JobDone
  <1>5. CASE Stop
    <2>1. session'.core = NoTrack /\ prepared'.track = NoTrack /\ preparing' = preparing
          /\ track' = AllDown
      BY <1>5, NoSessionTypes, TakenTypes DEF Stop, JobDone
    <2>2. QED
      BY <2>1, DownTypes DEF OneOwner, Owned
  <1>6. CASE ClearPendingHandoff
    <2>1. session'.core = session.core
      BY <1>0, <1>6 DEF ClearPendingHandoff, Sessions
    <2>2. QED
      BY <1>6, <2>1, OwnersUntouched DEF ClearPendingHandoff, JobDone
  <1>7. CASE PreparedReady
    <2>1. session'.core = session.core
      BY <1>0, <1>7 DEF PreparedReady, Sessions
    <2>2. QED
      BY <1>7, <2>1, OwnersUntouched DEF PreparedReady, JobDone
  <1>8. CASE PrepareFailed
    BY <1>8, OwnersUntouched DEF PrepareFailed, JobDone
  <1>9. CASE CompleteGaplessTransition
    <2>1. preparing' = preparing
      BY <1>9 DEF CompleteGaplessTransition, JobDone
    <2>2. CASE ~IsLastHandoff(Head(jobs).generation)
      BY <1>9, <2>1, <2>2, OwnersUntouched DEF CompleteGaplessTransition
    <2>3. CASE IsLastHandoff(Head(jobs).generation) /\ session.core # NoTrack
      <3>1. session' = [session EXCEPT !.core = prepared.track]
            /\ track' = TornDown(track, session.core) /\ prepared' = Taken
        BY <1>9, <2>3 DEF CompleteGaplessTransition
      <3>2. session'.core = prepared.track /\ prepared'.track = NoTrack
        BY <1>0, <3>1, TakenTypes DEF Sessions
      <3>3. \A u \in Tracks : track'[u].threads
              = IF u = session.core THEN "gone" ELSE track[u].threads
        BY <1>0, <3>1, TornDownThreads
      <3>4. QED
        BY <1>0, <2>1, <2>3, <3>2, <3>3 DEF OneOwner, Owned
    <2>4. CASE IsLastHandoff(Head(jobs).generation) /\ session.core = NoTrack
      <3>1. session' = session /\ track' = TornDown(track, prepared.track) /\ prepared' = Taken
        BY <1>9, <2>4 DEF CompleteGaplessTransition
      <3>2. prepared'.track = NoTrack
        BY <3>1, TakenTypes
      <3>3. \A u \in Tracks : track'[u].threads
              = IF u = prepared.track THEN "gone" ELSE track[u].threads
        BY <1>0, <3>1, TornDownThreads
      <3>4. QED
        BY <1>0, <2>1, <2>4, <3>1, <3>2, <3>3 DEF OneOwner, Owned
    <2>5. QED
      BY <2>2, <2>3, <2>4
  <1>10. QED
    BY <1>1, <1>2, <1>3, <1>4, <1>5, <1>6, <1>7, <1>8, <1>9 DEF Worker

LEMMA InvalidateOwns ==
    ASSUME TypeOK, OneOwner, Invalidate
    PROVE  OneOwner'
  <1>1. prepared'.track = NoTrack /\ session' = session /\ preparing' = preparing
        /\ track' = TornDown(track, prepared.track)
    BY TakenTypes DEF Invalidate
  <1>2. \A u \in Tracks : track'[u].threads
          = IF u = prepared.track THEN "gone" ELSE track[u].threads
    BY <1>1, TornDownThreads DEF TypeOK, Pendings
  <1>3. QED
    BY <1>1, <1>2 DEF OneOwner, Owned

LEMMA PrepareOwns ==
    ASSUME TypeOK, OneOwner, PrepareWorker
    PROVE  OneOwner'
  <1>1. CASE PrepareSession
    <2>1. preparing.track = NoTrack /\ session' = session /\ prepared' = prepared
      BY <1>1 DEF PrepareSession, NoPending
    <2>2. CASE \E t \in FreshTracks :
                 /\ preparing' = [generation |-> Head(requests), track |-> t]
                 /\ track' = Started(track, t)
                 /\ UNCHANGED jobs
      <3>1. PICK t \in FreshTracks :
                 /\ preparing' = [generation |-> Head(requests), track |-> t]
                 /\ track' = Started(track, t)
        BY <2>2
      <3>2. t \in Tracks /\ t # NoTrack /\ t \notin {session.core, prepared.track}
            /\ preparing'.track = t
        BY <3>1 DEF FreshTracks, OneOwner, Owned
      <3>3. \A u \in Tracks : track'[u].threads
              = IF u = t THEN "alive" ELSE track[u].threads
        BY <3>1, <3>2, StartedThreads DEF TypeOK
      <3>4. QED
        BY <2>1, <3>2, <3>3 DEF OneOwner, Owned
    <2>3. CASE UNCHANGED <<preparing, track>>
      BY <2>1, <2>3, OwnersUntouched
    <2>4. QED
      BY <1>1, <2>2, <2>3 DEF PrepareSession
  <1>2. CASE StoreIfCurrent
    <2>1. preparing'.track = NoTrack /\ session' = session
      BY <1>2 DEF StoreIfCurrent, NoPending
    <2>2. CASE prepared' = preparing /\ track' = TornDown(track, prepared.track)
      <3>1. \A u \in Tracks : track'[u].threads
              = IF u = prepared.track THEN "gone" ELSE track[u].threads
        BY <2>2, TornDownThreads DEF TypeOK, Pendings
      <3>2. QED
        BY <2>1, <2>2, <3>1 DEF OneOwner, Owned
    <2>3. CASE prepared' = prepared /\ track' = TornDown(track, preparing.track)
      <3>1. \A u \in Tracks : track'[u].threads
              = IF u = preparing.track THEN "gone" ELSE track[u].threads
        BY <2>3, TornDownThreads DEF TypeOK, Pendings
      <3>2. QED
        BY <2>1, <2>3, <3>1 DEF OneOwner, Owned
    <2>4. QED
      BY <1>2, <2>2, <2>3 DEF StoreIfCurrent
  <1>3. QED
    BY <1>1, <1>2 DEF PrepareWorker

LEMMA OutputOwns ==
    ASSUME TypeOK, OneOwner, Output \/ \E t \in Tracks : Decode(t)
    PROVE  OneOwner'
  <1>0. \A t \in Tracks : track[t] \in TrackStates
    BY DEF TypeOK
  <1>1. CASE \E t \in Tracks : Decode(t)
    <2>1. PICK t \in Tracks : Decode(t)
      BY <1>1
    <2>2. \A u \in Tracks : track'[u].threads = track[u].threads
      BY <1>0, <2>1 DEF TypeOK, Decode, TrackStates
    <2>3. QED
      BY <2>1, <2>2, OwnersUntouched DEF Decode
  <1>2. CASE PlayOut
    <2>1. track' = [track EXCEPT ![session.current].playedOut = TRUE]
      BY <1>2 DEF PlayOut
    <2>2. \A u \in Tracks : track'[u].threads = track[u].threads
      BY <1>0, <2>1 DEF TypeOK, TrackStates
    <2>3. QED
      BY <1>2, <2>2, OwnersUntouched DEF PlayOut
  <1>3. CASE Handoff
    <2>1. session'.core = session.core
      BY <1>3 DEF TypeOK, Handoff, Sessions
    <2>2. QED
      BY <1>3, <2>1, OwnersUntouched DEF Handoff
  <1>4. CASE TellWorker
    BY <1>4, OwnersUntouched DEF TellWorker
  <1>5. CASE PushEnded
    <2>1. track' = [track EXCEPT ![session.current].ended = TRUE]
      BY <1>5 DEF PushEnded
    <2>2. \A u \in Tracks : track'[u].threads = track[u].threads
      BY <1>0, <2>1 DEF TypeOK, TrackStates
    <2>3. QED
      BY <1>5, <2>2, OwnersUntouched DEF PushEnded
  <1>6. QED
    BY <1>1, <1>2, <1>3, <1>4, <1>5 DEF Output

LEMMA StepOwns == TypeOK /\ OneOwner /\ [Next]_vars => OneOwner'
  <1>1. ASSUME TypeOK, OneOwner, UNCHANGED vars PROVE OneOwner'
    BY <1>1, OwnersUntouched DEF vars
  <1>2. ASSUME TypeOK, OneOwner, NEW call \in Calls, Call(call) PROVE OneOwner'
    BY <1>2, OwnersUntouched DEF Call
  <1>3. QED
    BY <1>1, <1>2, WorkerOwns, InvalidateOwns, PrepareOwns, OutputOwns DEF Next

LEMMA InitOwns == Init => OneOwner
  BY DEF Init, OneOwner, Owned, NoSession, NoPending, Fresh

-----------------------------------------------------------------------------
(* Handoffs.                                                               *)

\* The generation went on: nothing that was sent before is worth anything.
LEMMA GenerationGoesOn ==
    ASSUME TypeOK, HandoffInv,
           prepared'.generation = prepared.generation + 1, prepared'.track = NoTrack,
           preparing' = preparing, callback' = callback,
           session'.pending \in {session.pending, NoPending},
           requests' \in {requests, Append(requests, prepared'.generation)},
           jobs' = jobs \/ (jobs # <<>> /\ jobs' = Tail(jobs))
    PROVE  HandoffInv'
  <1>1. /\ prepared.generation \in Nat /\ preparing.generation \in Nat
        /\ session.pending.generation \in Nat /\ callback \in Nat
        /\ jobs \in Seq(Jobs) /\ requests \in Seq(Nat)
    BY DEF TypeOK, Pendings, Sessions
  <1>2. RequestsFresh'
    <2>1. CASE requests' = requests
      BY <1>1, <2>1 DEF HandoffInv, RequestsFresh
    <2>2. CASE requests' = Append(requests, prepared'.generation)
      <3>1. \A i \in DOMAIN requests' :
              requests'[i] = IF i \in DOMAIN requests THEN requests[i] ELSE prepared'.generation
        BY <1>1, <2>2, Posted
      <3>2. \A i, j \in DOMAIN requests' : i # j => i \in DOMAIN requests \/ j \in DOMAIN requests
        BY <1>1, <2>2, Posted
      <3>3. \A i \in DOMAIN requests : requests[i] \in Nat /\ requests[i] <= prepared.generation
        BY <1>1 DEF HandoffInv, RequestsFresh
      <3>4. preparing # NoPending => preparing.generation <= prepared.generation
        BY DEF HandoffInv, RequestsFresh
      <3>5. \A i \in DOMAIN requests' :
              /\ requests'[i] <= prepared'.generation
              /\ preparing # NoPending => requests'[i] # preparing.generation
        BY <1>1, <3>1, <3>3, <3>4 DEF HandoffInv, RequestsFresh
      <3>6. \A i, j \in DOMAIN requests' : i # j => requests'[i] # requests'[j]
        <4> SUFFICES ASSUME NEW i \in DOMAIN requests', NEW j \in DOMAIN requests', i # j
                     PROVE  requests'[i] # requests'[j]
          OBVIOUS
        <4>1. CASE i \in DOMAIN requests /\ j \in DOMAIN requests
          BY <3>1, <4>1 DEF HandoffInv, RequestsFresh
        <4>2. CASE i \notin DOMAIN requests /\ j \in DOMAIN requests
          BY <1>1, <3>1, <3>3, <4>2
        <4>3. CASE i \in DOMAIN requests /\ j \notin DOMAIN requests
          BY <1>1, <3>1, <3>3, <4>3
        <4>4. QED
          BY <3>2, <4>1, <4>2, <4>3
      <3>7. QED
        BY <1>1, <3>4, <3>5, <3>6 DEF RequestsFresh
    <2>3. QED
      BY <2>1, <2>2
  <1>3. PendingIsPrepared'
    BY <1>1 DEF HandoffInv, PendingIsPrepared
  <1>4. HandoffsKnown'
    <2>1. callback # 0 => callback <= prepared.generation
      BY DEF HandoffInv, HandoffsKnown, HandedOver
    <2>2. \A i \in DOMAIN jobs : jobs[i].job = "complete" =>
            jobs[i].generation \in Nat /\ jobs[i].generation <= prepared.generation
      <3>1. \A job \in Jobs : job.job = "complete" => job.generation \in Nat
        BY DEF Jobs
      <3>2. \A i \in DOMAIN jobs : jobs[i] \in Jobs
        BY <1>1
      <3>3. QED
        BY <3>1, <3>2 DEF HandoffInv, HandoffsKnown, HandedOver
    <2>3. \A i \in DOMAIN jobs' : \E j \in DOMAIN jobs : jobs'[i] = jobs[j]
      <3>1. CASE jobs' = jobs
        BY <3>1
      <3>2. CASE jobs # <<>> /\ jobs' = Tail(jobs)
        BY <1>1, <3>2, Received
      <3>3. QED
        BY <3>1, <3>2
    <2>4. \A i \in DOMAIN jobs' : jobs'[i].job = "complete" =>
            jobs'[i].generation \in Nat /\ jobs'[i].generation <= prepared.generation
      BY <2>2, <2>3
    <2>5. QED
      BY <1>1, <2>1, <2>4 DEF HandoffsKnown, HandedOver
  <1>5. QED
    BY <1>2, <1>3, <1>4 DEF HandoffInv

\* Jobs that tell of no handoff come and go.
LEMMA HandoffsKept ==
    ASSUME TypeOK, HandoffInv,
           prepared' = prepared, session'.current = session.current,
           session'.pending \in {session.pending, NoPending, prepared},
           callback' \in {callback, 0},
           \/ jobs' = jobs
           \/ jobs # <<>> /\ jobs' = Tail(jobs)
           \/ \E job \in Jobs : job.job # "complete" /\ jobs' = Append(jobs, job)
    PROVE  HandoffsKnown'
  <1>1. jobs \in Seq(Jobs)
    BY DEF TypeOK
  <1>2. \A i \in DOMAIN jobs' : jobs'[i].job = "complete" =>
          \E j \in DOMAIN jobs : jobs'[i] = jobs[j]
    <2>1. CASE jobs' = jobs
      BY <2>1
    <2>2. CASE jobs # <<>> /\ jobs' = Tail(jobs)
      BY <1>1, <2>2, Received
    <2>3. CASE \E job \in Jobs : job.job # "complete" /\ jobs' = Append(jobs, job)
      BY <1>1, <2>3, Posted
    <2>4. QED
      BY <2>1, <2>2, <2>3
  <1>3. QED
    BY <1>2 DEF HandoffInv, HandoffsKnown, HandedOver

LEMMA RequestsKept ==
    ASSUME HandoffInv, prepared' = prepared, requests' = requests, preparing' = preparing
    PROVE  RequestsFresh'
  BY DEF HandoffInv, RequestsFresh

LEMMA PendingKept ==
    ASSUME HandoffInv, prepared' = prepared,
           session'.pending \in {session.pending, NoPending}
    PROVE  PendingIsPrepared'
  BY DEF HandoffInv, PendingIsPrepared

LEMMA WorkerHandsOver ==
    ASSUME TypeOK, HandoffInv, Worker
    PROVE  HandoffInv'
  <1>0. /\ session \in Sessions /\ prepared \in Pendings
        /\ session.core \in Tracks \cup {NoTrack} /\ prepared.track \in Tracks \cup {NoTrack}
    BY DEF TypeOK, Sessions, Pendings
  <1>1. ASSUME jobs # <<>>, JobDone, prepared' = Taken,
               session'.pending \in {session.pending, NoPending}
        PROVE  HandoffInv'
    BY <1>1, TakenTypes, GenerationGoesOn DEF JobDone
  <1>2. ASSUME jobs # <<>>, JobDone, prepared' = prepared, session'.current = session.current,
               session'.pending \in {session.pending, NoPending}
        PROVE  HandoffInv'
    BY <1>2, HandoffsKept, RequestsKept, PendingKept DEF JobDone, HandoffInv
  <1>3. CASE Load
    <2>1. jobs # <<>> /\ JobDone /\ prepared' = Taken
      BY <1>3 DEF Load, Job
    <2>2. session'.pending = NoPending
      BY <1>3, ActiveOnTypes, NoSessionTypes DEF Load, FreshTracks
    <2>3. QED
      BY <1>1, <2>1, <2>2
  <1>4. CASE ActivatePrepared
    <2>1. jobs # <<>> /\ JobDone /\ prepared' = Taken
      BY <1>4 DEF ActivatePrepared, Job
    <2>2. session'.pending \in {session.pending, NoPending}
      BY <1>0, <1>4, ActiveOnTypes, NoSessionTypes DEF ActivatePrepared
    <2>3. QED
      BY <1>1, <2>1, <2>2
  <1>5. CASE Seek
    BY <1>2, <1>5 DEF Seek, Job
  <1>6. CASE PauseOrResume
    <2>1. session'.pending = session.pending /\ session'.current = session.current
      BY <1>0, <1>6 DEF PauseOrResume, Sessions
    <2>2. QED
      BY <1>2, <1>6, <2>1 DEF PauseOrResume, Job
  <1>7. CASE Stop
    <2>1. jobs # <<>> /\ JobDone /\ prepared' = Taken /\ session'.pending = NoPending
      BY <1>7, NoSessionTypes DEF Stop, Job
    <2>2. QED
      BY <1>1, <2>1
  <1>8. CASE ClearPendingHandoff
    <2>1. session'.pending = NoPending /\ session'.current = session.current
      BY <1>0, <1>8 DEF ClearPendingHandoff, Sessions
    <2>2. QED
      BY <1>2, <1>8, <2>1 DEF ClearPendingHandoff, Job
  <1>9. CASE PreparedReady
    <2>1. jobs # <<>> /\ JobDone /\ prepared' = prepared
      BY <1>9 DEF PreparedReady, Job
    <2>2. CASE session' = session
      BY <1>2, <2>1, <2>2
    <2>3. CASE prepared.track # NoTrack
               /\ \E offered \in {prepared, NoPending} :
                    session' = [session EXCEPT !.pending = offered]
      <3>1. session'.current = session.current /\ session'.pending \in {prepared, NoPending}
        BY <1>0, <2>3 DEF Sessions
      <3>2. PendingIsPrepared'
        BY <1>0, <2>1, <2>3, <3>1 DEF PendingIsPrepared, Pendings
      <3>3. HandoffsKnown' /\ RequestsFresh'
        BY <2>1, <3>1, HandoffsKept, RequestsKept DEF JobDone
      <3>4. QED
        BY <3>2, <3>3 DEF HandoffInv
    <2>4. QED
      BY <1>9, <2>2, <2>3 DEF PreparedReady
  <1>10. CASE PrepareFailed
    BY <1>2, <1>10 DEF PrepareFailed, Job
  <1>11. CASE CompleteGaplessTransition
    <2>1. jobs # <<>> /\ JobDone
      BY <1>11 DEF CompleteGaplessTransition, Job
    <2>2. session'.pending = session.pending /\ session'.current = session.current
      <3>1. session' = session \/ session' = [session EXCEPT !.core = prepared.track]
        BY <1>11 DEF CompleteGaplessTransition
      <3>2. QED
        BY <1>0, <3>1 DEF Sessions
    <2>3. prepared' = Taken \/ prepared' = prepared
      BY <1>11 DEF CompleteGaplessTransition
    <2>4. QED
      BY <1>1, <1>2, <2>1, <2>2, <2>3
  <1>12. QED
    BY <1>3, <1>4, <1>5, <1>6, <1>7, <1>8, <1>9, <1>10, <1>11 DEF Worker

LEMMA InvalidateHandsOver ==
    ASSUME TypeOK, HandoffInv, Invalidate
    PROVE  HandoffInv'
  <1>1. prepared' = Taken /\ session' = session
    BY DEF Invalidate
  <1>2. requests' \in {requests, Append(requests, prepared'.generation)}
    BY DEF Invalidate
  <1>3. QED
    BY <1>1, <1>2, TakenTypes, GenerationGoesOn DEF Invalidate

LEMMA PrepareHandsOver ==
    ASSUME TypeOK, HandoffInv, PrepareWorker
    PROVE  HandoffInv'
  <1>0. /\ requests \in Seq(Nat) /\ jobs \in Seq(Jobs)
        /\ prepared.generation \in Nat /\ preparing.generation \in Nat
    BY DEF TypeOK, Pendings
  <1>1. CASE PrepareSession
    <2>1. requests # <<>> /\ requests' = Tail(requests) /\ prepared' = prepared
          /\ session' = session /\ callback' = callback /\ preparing = NoPending
      BY <1>1 DEF PrepareSession
    <2>2. Head(requests) = requests[1] /\ 1 \in DOMAIN requests /\ Head(requests) \in Nat
          /\ \A i \in DOMAIN requests' : i \in Nat /\ i + 1 \in DOMAIN requests /\ i + 1 # 1
               /\ requests'[i] = requests[i + 1]
      BY <1>0, <2>1, Received
    <2>3. \A i \in DOMAIN requests' : requests'[i] # Head(requests)
      BY <2>2 DEF HandoffInv, RequestsFresh
    <2>4. \A i, j \in DOMAIN requests' : i # j => requests'[i] # requests'[j]
      <3> SUFFICES ASSUME NEW i \in DOMAIN requests', NEW j \in DOMAIN requests', i # j
                   PROVE  requests'[i] # requests'[j]
        OBVIOUS
      <3>1. i + 1 \in DOMAIN requests /\ j + 1 \in DOMAIN requests /\ i + 1 # j + 1
            /\ requests'[i] = requests[i + 1] /\ requests'[j] = requests[j + 1]
        BY <2>2
      <3>2. QED
        BY <3>1 DEF HandoffInv, RequestsFresh
    <2>5. preparing' = NoPending \/ preparing'.generation = Head(requests)
      BY <1>1, <2>1 DEF PrepareSession
    <2>6. RequestsFresh'
      BY <2>1, <2>2, <2>3, <2>4, <2>5 DEF HandoffInv, RequestsFresh
    <2>7. jobs' = jobs \/ \E job \in Jobs : job.job # "complete" /\ jobs' = Append(jobs, job)
      <3>1. [job |-> "failed", generation |-> Head(requests)] \in Jobs
        BY <2>2 DEF Jobs
      <3>2. QED
        BY <1>1, <3>1 DEF PrepareSession
    <2>8. QED
      BY <2>1, <2>6, <2>7, HandoffsKept, PendingKept DEF HandoffInv
  <1>2. CASE StoreIfCurrent
    <2>1. preparing # NoPending /\ preparing' = NoPending /\ requests' = requests
          /\ session' = session /\ callback' = callback
      BY <1>2 DEF StoreIfCurrent
    <2>2. CASE preparing.generation # prepared.generation
      <3>1. prepared' = prepared /\ jobs' = jobs
        BY <1>2, <2>2 DEF StoreIfCurrent
      <3>2. RequestsFresh'
        BY <2>1, <3>1 DEF HandoffInv, RequestsFresh
      <3>3. QED
        BY <2>1, <3>1, <3>2, HandoffsKept, PendingKept DEF HandoffInv
    <2>3. CASE preparing.generation = prepared.generation
      <3>1. prepared' = preparing /\ prepared.track = NoTrack
            /\ prepared'.generation = prepared.generation
        BY <1>2, <2>1, <2>3 DEF StoreIfCurrent, HandoffInv, RequestsFresh
      <3>2. RequestsFresh'
        BY <1>0, <2>1, <2>3, <3>1 DEF HandoffInv, RequestsFresh
      <3>3. PendingIsPrepared'
        BY <2>1, <3>1 DEF HandoffInv, PendingIsPrepared
      <3>4. HandoffsKnown'
        <4>1. [job |-> "ready", generation |-> preparing.generation] \in Jobs
          BY <1>0 DEF Jobs
        <4>2. jobs' = Append(jobs, [job |-> "ready", generation |-> preparing.generation])
          BY <1>2, <2>3 DEF StoreIfCurrent
        <4>3. \A i \in DOMAIN jobs' : jobs'[i].job = "complete" =>
                \E j \in DOMAIN jobs : jobs'[i] = jobs[j]
          BY <1>0, <4>1, <4>2, Posted
        <4>4. \A g \in Nat : HandedOver(g) => g <= prepared.generation /\ g # prepared.generation
          BY <3>1 DEF HandedOver
        <4>5. callback \in Nat
              /\ \A i \in DOMAIN jobs : jobs[i].job = "complete" => jobs[i].generation \in Nat
          <5>1. callback \in Nat /\ jobs \in Seq(Jobs)
            BY <1>0 DEF TypeOK
          <5>2. \A i \in DOMAIN jobs : jobs[i] \in Jobs
            BY <5>1
          <5>3. \A e \in Jobs : e.job = "complete" => e.generation \in Nat
            BY DEF Jobs
          <5>4. QED
            BY <5>1, <5>2, <5>3
        <4>6. QED
          BY <2>1, <3>1, <4>3, <4>4, <4>5 DEF HandoffInv, HandoffsKnown, HandedOver
      <3>5. QED
        BY <3>2, <3>3, <3>4 DEF HandoffInv
    <2>4. QED
      BY <2>2, <2>3
  <1>3. QED
    BY <1>1, <1>2 DEF PrepareWorker

LEMMA OutputHandsOver ==
    ASSUME TypeOK, HandoffInv, Output \/ \E t \in Tracks : Decode(t)
    PROVE  HandoffInv'
  <1>1. ASSUME UNCHANGED <<jobs, requests, preparing, prepared, session, callback>>
        PROVE  HandoffInv'
    BY <1>1, HandoffsKept, RequestsKept, PendingKept DEF HandoffInv
  <1>2. CASE Handoff
    <2>1. session \in Sessions /\ session.pending # NoPending /\ prepared' = prepared
          /\ requests' = requests /\ preparing' = preparing /\ jobs' = jobs
          /\ callback' = session.pending.generation
      BY <1>2 DEF TypeOK, Handoff
    <2>2. session'.current = session.pending.track /\ session'.pending = NoPending
      BY <1>2, <2>1 DEF Handoff, Sessions
    <2>3. HandedOver(callback)'
      BY <2>1, <2>2 DEF HandoffInv, PendingIsPrepared, HandedOver
    <2>4. HandoffsKnown'
      <3>1. ASSUME NEW i \in DOMAIN jobs, jobs[i].job = "complete"
            PROVE  HandedOver(jobs[i].generation)'
        <4>1. HandedOver(jobs[i].generation)
          BY <3>1 DEF HandoffInv, HandoffsKnown
        <4>2. CASE jobs[i].generation # prepared.generation
          BY <2>1, <4>1, <4>2 DEF HandedOver
        <4>3. CASE jobs[i].generation = prepared.generation
          <5>1. session.pending.track = prepared.track
            BY <2>1, <4>1, <4>3 DEF HandedOver, HandoffInv, PendingIsPrepared
          <5>2. QED
            BY <2>1, <2>2, <4>1, <4>3, <5>1 DEF HandedOver
        <4>4. QED
          BY <4>2, <4>3
      <3>2. QED
        BY <2>1, <2>3, <3>1 DEF HandoffsKnown
    <2>5. QED
      BY <2>1, <2>2, <2>4, RequestsKept, PendingKept DEF HandoffInv
  <1>3. CASE TellWorker
    <2>1. callback # 0 /\ callback' = 0 /\ prepared' = prepared /\ session' = session
          /\ requests' = requests /\ preparing' = preparing
          /\ jobs' = Append(jobs, [job |-> "complete", generation |-> callback])
      BY <1>3 DEF TellWorker
    <2>2. [job |-> "complete", generation |-> callback] \in Jobs /\ jobs \in Seq(Jobs)
      BY DEF TypeOK, Jobs
    <2>3. \A i \in DOMAIN jobs' :
            jobs'[i] = IF i \in DOMAIN jobs THEN jobs[i]
                       ELSE [job |-> "complete", generation |-> callback]
      BY <2>1, <2>2, Posted
    <2>4. HandoffsKnown'
      BY <2>1, <2>3 DEF HandoffInv, HandoffsKnown, HandedOver
    <2>5. QED
      BY <2>1, <2>4, RequestsKept, PendingKept DEF HandoffInv
  <1>4. QED
    BY <1>1, <1>2, <1>3 DEF Output, Decode, PlayOut, PushEnded

LEMMA CallHandsOver ==
    ASSUME TypeOK, HandoffInv, NEW call \in Calls, Call(call)
    PROVE  HandoffInv'
  <1>1. [job |-> FirstJob(call)] \in Jobs /\ FirstJob(call) # "complete"
    BY DEF Calls, FirstJob, Jobs
  <1>2. QED
    BY <1>1, HandoffsKept, RequestsKept, PendingKept DEF HandoffInv, Call

LEMMA InitHandsOver == Init => HandoffInv
  BY DEF Init, HandoffInv, RequestsFresh, PendingIsPrepared, HandoffsKnown, NoSession

LEMMA StepHandsOver == TypeOK /\ HandoffInv /\ [Next]_vars => HandoffInv'
  <1>1. ASSUME TypeOK, HandoffInv, UNCHANGED vars PROVE HandoffInv'
    BY <1>1, HandoffsKept, RequestsKept, PendingKept DEF HandoffInv, vars
  <1>2. QED
    BY <1>1, WorkerHandsOver, CallHandsOver, InvalidateHandsOver, PrepareHandsOver,
       OutputHandsOver DEF Next

\* Only the worker announces a transition, when the handoff it learns of is the
\* last one: the prepared track becomes the core and is what the output plays.
LEMMA TransitionStep ==
    ASSUME TypeOK, HandoffInv, [Next]_vars
    PROVE  ["transition" \in events' => session'.core = session'.current]_vars
  <1> SUFFICES ASSUME Next, "transition" \in events' PROVE session'.core = session'.current
    BY DEF vars
  <1>1. CompleteGaplessTransition
    <2>1. Worker
      <3>1. (\A call \in Calls : ~Call(call)) /\ \A t \in Tracks : ~Decode(t)
        BY DEF Call, Decode
      <3>2. ~PrepareWorker
        BY DEF PrepareWorker, PrepareSession, StoreIfCurrent
      <3>3. ~Output /\ ~Invalidate
        BY DEF Output, PlayOut, Handoff, TellWorker, PushEnded, Invalidate
      <3>4. QED
        BY <3>1, <3>2, <3>3 DEF Next
    <2>2. ~Load /\ ~Stop /\ ~ClearPendingHandoff /\ ~PauseOrResume
      BY DEF Load, Stop, ClearPendingHandoff, PauseOrResume
    <2>3. ~ActivatePrepared
      <3>1. ActivatePrepared => events' = {} \/ events' = {"reset"}
        BY DEF ActivatePrepared
      <3>2. QED
        BY <3>1
    <2>4. ~Seek
      <3>1. Seek => events' = {} \/ events' = {"seekProcessed"}
        BY DEF Seek
      <3>2. QED
        BY <3>1
    <2>5. ~PreparedReady /\ ~PrepareFailed
      <3>1. PreparedReady => events' = {} \/ events' = {"prepared"}
        BY DEF PreparedReady
      <3>2. PrepareFailed => events' = {} \/ events' = {"failed"}
        BY DEF PrepareFailed
      <3>3. QED
        BY <3>1, <3>2
    <2>6. QED
      BY <2>1, <2>2, <2>3, <2>4, <2>5 DEF Worker
  <1>2. IsLastHandoff(Head(jobs).generation)
        /\ session' = [session EXCEPT !.core = prepared.track]
    BY <1>1 DEF CompleteGaplessTransition
  <1>3. jobs # <<>> /\ Head(jobs).job = "complete" /\ jobs \in Seq(Jobs)
    BY <1>1 DEF CompleteGaplessTransition, Job, TypeOK
  <1>4. session.current = prepared.track
    <2>1. Head(jobs) = jobs[1] /\ 1 \in DOMAIN jobs
      BY <1>3, Received
    <2>2. QED
      BY <1>2, <1>3, <2>1 DEF HandoffInv, HandoffsKnown, HandedOver, IsLastHandoff
  <1>5. QED
    BY <1>2, <1>4 DEF TypeOK, Sessions

-----------------------------------------------------------------------------
BackendInv == TypeOK /\ OneOwner /\ HandoffInv

LEMMA BackendAlways == Spec => []BackendInv
  <1>1. Init => BackendInv
    BY InitTypes, InitOwns, InitHandsOver DEF BackendInv
  <1>2. BackendInv /\ [Next]_vars => BackendInv'
    BY StepTypes, StepOwns, StepHandsOver DEF BackendInv
  <1>3. QED
    BY <1>1, <1>2, PTL DEF Spec

\* Every variable keeps its type, the jobs in the worker's channel included.
THEOREM BackendTypes == Spec => []TypeOK
  <1>1. BackendInv => TypeOK
    BY DEF BackendInv
  <1>2. QED
    BY <1>1, BackendAlways, PTL

\* Threads that run have exactly one owner that will join them, whatever calls,
\* preparations and handoffs come in between (SharedPreparedState, SessionCore).
THEOREM OneOwnerAlways == Spec => []OneOwner
  <1>1. BackendInv => OneOwner
    BY DEF BackendInv
  <1>2. QED
    BY <1>1, BackendAlways, PTL

\* A transition is announced for the track that the output plays, for any number
\* of calls that overtake the callback's message (take_transitioned).
THEOREM TransitionIsHeardAlways == Spec => TransitionIsHeard
  <1>1. BackendInv /\ [Next]_vars
          => ["transition" \in events' => session'.core = session'.current]_vars
    BY TransitionStep DEF BackendInv
  <1>2. QED
    BY <1>1, BackendAlways, PTL DEF Spec, TransitionIsHeard

-----------------------------------------------------------------------------
(* A track: TrackPipeline.                                                 *)

\* A seek under way has a position: what the pump is told to go on from.
SeekHasPosition == worker.at = "seeking" => worker.seek \in Positions

\* A pump about to wait holds the mutex, under which it found nothing to read.
ArmedFoundNothing ==
    buffer.armed => pump.at = "read" /\ ~buffer.complete /\ pump.pos > buffer.data

Bookkeeping == SeekHasPosition /\ ArmedFoundNothing /\ ThreadsAgree
PipelineInv == PipelineTypeOK /\ Bookkeeping

USE PipelineAssumption

-----------------------------------------------------------------------------
(* Sequences of frames.                                                    *)

LEMMA FramesJoin ==
    ASSUME NEW s \in Seq(Positions), NEW t \in Seq(Positions)
    PROVE  s \o t \in Seq(Positions)
  OBVIOUS

LEMMA FrameAppended ==
    ASSUME NEW s \in Seq(Positions), NEW frame \in Positions
    PROVE  Append(s, frame) \in Seq(Positions)
  OBVIOUS

LEMMA FrameTaken ==
    ASSUME NEW s \in Seq(Positions), Len(s) > 0
    PROVE  Head(s) \in Positions /\ Tail(s) \in Seq(Positions)
  OBVIOUS

-----------------------------------------------------------------------------
(* The initial states, and the steps of each thread.                       *)

LEMMA InitAgrees == PipelineInit => PipelineInv
  <1> SUFFICES ASSUME PipelineInit PROVE PipelineInv
    OBVIOUS
  <1>1. moments \subseteq Moments /\ gate \in Gates /\ buffer \in Buffers
    BY DEF PipelineInit, Gates, Buffers
  <1>2. ring \in Rings /\ out \in Outs
    BY DEF PipelineInit, Rings, Outs
  <1>3. download \in Downloads /\ pump \in Pumps /\ worker \in Workers /\ heard \in Histories
    BY DEF PipelineInit, Downloads, Pumps, Workers, Histories, NoSeek, Positions
  <1>4. Bookkeeping
    BY DEF PipelineInit, Bookkeeping, SeekHasPosition, ArmedFoundNothing, ThreadsAgree
  <1>5. QED
    BY <1>1, <1>2, <1>3, <1>4 DEF PipelineInv, PipelineTypeOK

LEMMA DownloadAgrees ==
    ASSUME PipelineInv, DownloadThread
    PROVE  PipelineInv'
  <1>1. CASE DownloadPermit
    <2>1. PipelineTypeOK'
      BY <1>1 DEF PipelineInv, PipelineTypeOK, DownloadPermit, Downloads
    <2>2. Bookkeeping'
      BY <1>1 DEF PipelineInv, Bookkeeping, SeekHasPosition, ArmedFoundNothing,
                  ThreadsAgree, DownloadPermit, GateHolds
    <2>3. QED
      BY <2>1, <2>2 DEF PipelineInv
  <1>2. CASE DownloadRead
    <2>1. pump' \in Pumps /\ pump'.at # "asleep"
          /\ (pump.at # "asleep" => pump'.at = pump.at)
          /\ (pump.at = "asleep" => pump'.at = "read")
      <3>1. pump' = ReaderWoken /\ pump \in Pumps
        BY <1>2 DEF PipelineInv, PipelineTypeOK, DownloadRead
      <3>2. CASE pump.at = "asleep"
        BY <3>1, <3>2 DEF ReaderWoken, Pumps
      <3>3. CASE pump.at # "asleep"
        BY <3>1, <3>3 DEF ReaderWoken, Pumps
      <3>4. QED
        BY <3>2, <3>3
    <2>2. buffer' \in Buffers /\ ~buffer'.armed
      <3>1. buffer \in Buffers /\ buffer.data \in 0 .. Chunks /\ ~buffer.armed
        BY <1>2 DEF PipelineInv, PipelineTypeOK, DownloadRead, Buffers
      <3>2. CASE buffer.data < Chunks /\ buffer' = [buffer EXCEPT !.data = @ + 1]
        <4>1. buffer.data + 1 \in 0 .. Chunks
          BY <3>1, <3>2
        <4>2. QED
          BY <3>1, <3>2, <4>1 DEF Buffers
      <3>3. CASE buffer' = [buffer EXCEPT !.complete = TRUE]
        BY <3>1, <3>3 DEF Buffers
      <3>4. CASE buffer' = [buffer EXCEPT !.complete = TRUE, !.failed = TRUE]
        BY <3>1, <3>4 DEF Buffers
      <3>5. QED
        BY <1>2, <3>2, <3>3, <3>4 DEF DownloadRead
    <2>3. download' \in Downloads /\ download' # "gate"
      BY <1>2 DEF DownloadRead, Downloads
    <2>4. PipelineTypeOK'
      BY <1>2, <2>1, <2>2, <2>3 DEF PipelineInv, PipelineTypeOK, DownloadRead
    <2>5. Bookkeeping'
      BY <1>2, <2>1, <2>2, <2>3
         DEF PipelineInv, Bookkeeping, SeekHasPosition, ArmedFoundNothing, ThreadsAgree,
             DownloadRead
    <2>6. QED
      BY <2>4, <2>5 DEF PipelineInv
  <1>3. QED
    BY <1>1, <1>2 DEF DownloadThread

LEMMA ProbeAgrees ==
    ASSUME PipelineInv, PumpProbe
    PROVE  PipelineInv'
  <1>1. pump' \in Pumps /\ pump'.at \in {"loop", "done"} /\ pump'.pos = pump.pos
    BY DEF PipelineInv, PipelineTypeOK, PumpProbe, Pumps
  <1>2. worker' \in Workers /\ worker'.at # "seeking"
    BY DEF PipelineInv, PipelineTypeOK, PumpProbe, Workers
  <1>3. PipelineTypeOK'
    BY <1>1, <1>2 DEF PipelineInv, PipelineTypeOK, PumpProbe
  <1>4. Bookkeeping'
    BY <1>1, <1>2 DEF PipelineInv, Bookkeeping, SeekHasPosition, ArmedFoundNothing,
                      ThreadsAgree, PumpProbe
  <1>5. QED
    BY <1>3, <1>4 DEF PipelineInv

LEMMA PumpSeekAgrees ==
    ASSUME PipelineInv, PumpSeek
    PROVE  PipelineInv'
  <1>1. worker.seek \in Positions
    BY DEF PipelineInv, Bookkeeping, SeekHasPosition, PumpSeek
  <1>2. ring' \in Rings /\ (ring'.finished => ring.finished)
    <2>1. \/ ring' = [ring EXCEPT !.frames = <<>>, !.finished = FALSE, !.notified = FALSE]
          \/ ring' = ring
      BY DEF PumpSeek
    <2>2. ring \in Rings /\ <<>> \in Seq(Positions)
      BY DEF PipelineInv, PipelineTypeOK
    <2>3. QED
      BY <2>1, <2>2 DEF Rings
  <1>3. pump' \in Pumps /\ pump'.at \in {"loop", "done"}
        /\ (pump.at = "eos" => pump'.at = "done")
    <2>1. pump \in Pumps /\ pump.at \in {"loop", "eos"} /\ worker.seek \in 1 .. Chunks + 1
      BY <1>1 DEF PipelineInv, PipelineTypeOK, PumpSeek, Positions
    <2>2. CASE pump.at = "loop"
      <3>1. pump' = [at |-> "loop", pos |-> worker.seek] \/ pump' = [pump EXCEPT !.at = "loop"]
        BY <2>2 DEF PumpSeek
      <3>2. QED
        BY <2>1, <2>2, <3>1 DEF Pumps
    <2>3. CASE pump.at = "eos"
      <3>1. pump' = [at |-> "done", pos |-> worker.seek] \/ pump' = [pump EXCEPT !.at = "done"]
        BY <2>3 DEF PumpSeek
      <3>2. QED
        BY <2>1, <2>3, <3>1 DEF Pumps
    <2>4. QED
      BY <2>1, <2>2, <2>3
  <1>4. heard' \in Histories
    <2>1. heard' = [heard EXCEPT !.from = worker.seek, !.next = worker.seek] \/ heard' = heard
      BY DEF PumpSeek
    <2>2. heard \in Histories /\ worker.seek \in 1 .. Chunks + 1
      BY <1>1 DEF PipelineInv, PipelineTypeOK, Positions
    <2>3. QED
      BY <1>1, <2>1, <2>2 DEF Histories
  <1>5. worker' \in Workers /\ worker'.at = "active"
    BY DEF PumpSeek, Workers, NoSeek
  <1>6. PipelineTypeOK'
    BY <1>2, <1>3, <1>4, <1>5 DEF PipelineInv, PipelineTypeOK, PumpSeek
  <1>7. Bookkeeping'
    BY <1>2, <1>3, <1>5 DEF PipelineInv, Bookkeeping, SeekHasPosition, ArmedFoundNothing,
                            ThreadsAgree, PumpSeek
  <1>8. QED
    BY <1>6, <1>7 DEF PipelineInv

\* Whatever it does, a pump that reads leaves the loop's other states alone.
LEMMA PumpReadAgrees ==
    ASSUME PipelineInv, PumpRead
    PROVE  PipelineInv'
  <1>1. pump.pos \in Nat /\ buffer.data \in 0 .. Chunks /\ ~buffer.armed /\ ~ring.finished
    BY DEF PipelineInv, PipelineTypeOK, Bookkeeping, ThreadsAgree, PumpRead, Pumps, Buffers
  <1>2. ring' \in Rings
        /\ (ring'.finished => pump'.at \in {"eos", "done"})
    <2>1. CASE pump.pos <= buffer.data
      <3>1. Append(ring.frames, pump.pos) \in Seq(Positions)
        BY <2>1, <1>1, FrameAppended DEF PipelineInv, PipelineTypeOK, Rings, Pumps, Positions
      <3>2. QED
        BY <2>1, <3>1, <1>1 DEF PipelineInv, PipelineTypeOK, PumpRead, PumpFinishes, Rings, Pumps
    <2>2. CASE ~(pump.pos <= buffer.data)
      BY <2>2, <1>1 DEF PipelineInv, PipelineTypeOK, PumpRead, PumpFinishes, Rings, Pumps
    <2>3. QED
      BY <2>1, <2>2
  <1>3. pump' \in Pumps /\ pump'.at \notin {"parked", "probe"}
    BY <1>1 DEF PipelineInv, PipelineTypeOK, PumpRead, PumpFinishes, Pumps
  <1>4. buffer' \in Buffers /\ buffer'.data = buffer.data /\ buffer'.complete = buffer.complete
    BY DEF PipelineInv, PipelineTypeOK, PumpRead, PumpFinishes, Buffers
  <1>5. pump'.at = "asleep" \/ buffer'.armed
            => ~buffer.complete /\ ~(pump.pos <= buffer.data) /\ pump'.pos = pump.pos
               /\ (buffer'.armed => pump'.at = "read")
    BY <1>1 DEF PipelineInv, PipelineTypeOK, PumpRead, PumpFinishes, Pumps, Buffers
  <1>6. PipelineTypeOK'
    BY <1>2, <1>3, <1>4 DEF PipelineInv, PipelineTypeOK, PumpRead
  <1>7. Bookkeeping'
    BY <1>1, <1>2, <1>3, <1>4, <1>5
       DEF PipelineInv, Bookkeeping, SeekHasPosition, ArmedFoundNothing, ThreadsAgree, PumpRead
  <1>8. QED
    BY <1>6, <1>7 DEF PipelineInv

LEMMA PumpAgrees ==
    ASSUME PipelineInv, PumpThread
    PROVE  PipelineInv'
  <1>1. CASE PumpCancelled
    <2>1. pump' \in Pumps /\ pump'.at = "done"
      BY <1>1 DEF PipelineInv, PipelineTypeOK, PumpCancelled, Pumps
    <2>2. QED
      BY <1>1, <2>1 DEF PipelineInv, PipelineTypeOK, Bookkeeping, SeekHasPosition, ArmedFoundNothing,
                        ThreadsAgree, PumpCancelled
  <1>2. CASE PumpPark
    <2>1. pump' \in Pumps /\ pump'.at = "parked"
      BY <1>2 DEF PipelineInv, PipelineTypeOK, PumpPark, Pumps
    <2>2. gate' \in Gates /\ gate'.paused /\ gate'.gated /\ ~gate'.activated /\ ~gate'.aborted
      BY <1>2 DEF PipelineInv, PipelineTypeOK, PumpPark, MayPark, Gates
    <2>3. QED
      BY <1>2, <2>1, <2>2 DEF PipelineInv, PipelineTypeOK, Bookkeeping, SeekHasPosition,
                              ArmedFoundNothing, ThreadsAgree, PumpPark
  <1>3. CASE PumpNext
    <2>1. pump' \in Pumps /\ pump'.at = "read"
      BY <1>3 DEF PipelineInv, PipelineTypeOK, PumpNext, Pumps
    <2>2. QED
      BY <1>3, <2>1 DEF PipelineInv, PipelineTypeOK, Bookkeeping, SeekHasPosition, ArmedFoundNothing,
                        ThreadsAgree, PumpNext
  <1>4. CASE PumpSleeps
    <2>1. pump' \in Pumps /\ pump'.at = "asleep" /\ pump'.pos = pump.pos
      BY <1>4 DEF PipelineInv, PipelineTypeOK, PumpSleeps, Pumps
    <2>2. buffer' \in Buffers /\ ~buffer'.armed
          /\ buffer'.data = buffer.data /\ buffer'.complete = buffer.complete
      BY <1>4 DEF PipelineInv, PipelineTypeOK, PumpSleeps, Buffers
    <2>3. QED
      BY <1>4, <2>1, <2>2 DEF PipelineInv, PipelineTypeOK, Bookkeeping, SeekHasPosition,
                              ArmedFoundNothing, ThreadsAgree, PumpSleeps
  <1>5. QED
    BY <1>1, <1>2, <1>3, <1>4, ProbeAgrees, PumpSeekAgrees, PumpReadAgrees DEF PumpThread

\* The callback touches what the threads know of each other only by emptying
\* the ring and by telling the end.
LEMMA OutputAgrees ==
    ASSUME PipelineInv, OutputCallback
    PROVE  PipelineInv'
  <1>1. ring \in Rings /\ out \in Outs /\ heard \in Histories
    BY DEF PipelineInv, PipelineTypeOK
  <1>2. CASE OutputPull
    <2>1. out.held \o ring.frames \in Seq(Positions)
      BY <1>1, FramesJoin DEF Rings, Outs
    <2>2. out' \in Outs
      BY <1>1, <1>2, <2>1 DEF OutputPull, Outs
    <2>3. ring' \in Rings /\ ring'.finished = ring.finished
      <3>1. ring' = [ring EXCEPT !.frames = <<>>] /\ <<>> \in Seq(Positions)
        BY <1>2 DEF OutputPull
      <3>2. QED
        BY <1>1, <3>1 DEF Rings
    <2>4. QED
      BY <1>2, <2>2, <2>3 DEF PipelineInv, PipelineTypeOK, Bookkeeping, SeekHasPosition,
                              ArmedFoundNothing, ThreadsAgree, OutputPull
  <1>3. CASE OutputFrame
    <2>1. out' \in Outs
      <3>1. CASE HasFrame
        <4>0. out.held \in Seq(Positions)
          BY <1>1 DEF Outs
        <4>1. Len(out.held) > 0
          <5>1. Len(out.held) > 1 \/ Len(out.held) = 1
            BY <3>1 DEF HasFrame
          <5>2. Len(out.held) \in Nat
            BY <4>0
          <5>3. QED
            BY <5>1, <5>2
        <4>2. Tail(out.held) \in Seq(Positions)
          BY <4>0, <4>1, FrameTaken
        <4>3. out' = [held |-> Tail(out.held), ended |-> Len(out.held) = 1, pulled |-> FALSE]
          BY <1>3, <3>1 DEF OutputFrame
        <4>4. (Len(out.held) = 1) \in BOOLEAN
          OBVIOUS
        <4>5. QED
          BY <4>2, <4>3, <4>4 DEF Outs
      <3>2. CASE ~HasFrame
        BY <1>1, <1>3, <3>2 DEF OutputFrame, Outs
      <3>3. QED
        BY <3>1, <3>2
    <2>2. heard' \in Histories
      <3>1. CASE heard' = heard
        BY <1>1, <3>1
      <3>2. CASE HasFrame /\ Head(out.held) = heard.next /\ heard' = [heard EXCEPT !.next = @ + 1]
        <4>1. Head(out.held) \in 1 .. Chunks
          BY <1>1, <3>2, FrameTaken DEF HasFrame, Outs, Positions
        <4>2. heard.next + 1 \in 1 .. Chunks + 1
          BY <3>2, <4>1
        <4>3. QED
          BY <1>1, <3>2, <4>2 DEF Histories
      <3>3. QED
        BY <1>3, <3>1, <3>2 DEF OutputFrame
    <2>3. ring' \in Rings /\ ring'.finished = ring.finished
      <3>1. ring' = ring \/ ring' = [ring EXCEPT !.notified = @ \/ Drained]
        BY <1>3 DEF OutputFrame
      <3>2. (ring.notified \/ Drained) \in BOOLEAN
        BY <1>1 DEF Rings
      <3>3. QED
        BY <1>1, <3>1, <3>2 DEF Rings
    <2>4. QED
      BY <1>3, <2>1, <2>2, <2>3 DEF PipelineInv, PipelineTypeOK, Bookkeeping, SeekHasPosition,
                                    ArmedFoundNothing, ThreadsAgree, OutputFrame
  <1>4. QED
    BY <1>2, <1>3 DEF OutputCallback

LEMMA WorkerAgrees ==
    ASSUME PipelineInv, WorkerThread
    PROVE  PipelineInv'
  <1>1. worker \in Workers /\ pump \in Pumps /\ ring \in Rings /\ buffer \in Buffers
    BY DEF PipelineInv, PipelineTypeOK
  <1>2. CASE SeekLost
    <2>1. worker' \in Workers /\ worker'.at = "active"
      BY <1>2 DEF SeekLost, Workers, NoSeek
    <2>2. QED
      BY <1>2, <2>1 DEF PipelineInv, PipelineTypeOK, Bookkeeping, SeekHasPosition, ArmedFoundNothing,
                        ThreadsAgree, SeekLost
  <1>3. CASE CancelFlags
    <2>1. worker' \in Workers /\ worker'.at = "notify"
      BY <1>1, <1>3 DEF CancelFlags, Workers
    <2>2. ring' \in Rings /\ ring'.finished = ring.finished
      BY <1>1, <1>3 DEF CancelFlags, Rings
    <2>3. buffer' \in Buffers /\ buffer'.armed = buffer.armed
          /\ buffer'.data = buffer.data /\ buffer'.complete = buffer.complete
      BY <1>1, <1>3 DEF CancelFlags, Buffers
    <2>4. QED
      BY <1>3, <2>1, <2>2, <2>3 DEF PipelineInv, PipelineTypeOK, Bookkeeping, SeekHasPosition,
                                    ArmedFoundNothing, ThreadsAgree, CancelFlags
  <1>4. CASE NotifyReader
    <2>1. worker' \in Workers /\ worker'.at = "joinPump"
      BY <1>1, <1>4 DEF NotifyReader, Workers
    <2>2. pump' = ReaderWoken
      BY <1>4 DEF NotifyReader
    <2>3. CASE pump.at = "asleep"
      <3>1. pump' \in Pumps /\ pump'.at = "read"
        BY <1>1, <2>2, <2>3 DEF ReaderWoken, Pumps
      <3>2. QED
        BY <1>4, <2>1, <2>3, <3>1 DEF PipelineInv, PipelineTypeOK, Bookkeeping, SeekHasPosition,
                                      ArmedFoundNothing, ThreadsAgree, NotifyReader
    <2>4. CASE pump.at # "asleep"
      <3>1. pump' = pump
        BY <2>2, <2>4 DEF ReaderWoken
      <3>2. QED
        BY <1>4, <2>1, <3>1 DEF PipelineInv, PipelineTypeOK, Bookkeeping, SeekHasPosition,
                                ArmedFoundNothing, ThreadsAgree, NotifyReader
    <2>5. QED
      BY <2>3, <2>4
  <1>5. CASE JoinThreads
    <2>1. worker' \in Workers /\ worker'.at # "seeking"
      BY <1>1, <1>5 DEF JoinThreads, Workers
    <2>2. QED
      BY <1>5, <2>1 DEF PipelineInv, PipelineTypeOK, Bookkeeping, SeekHasPosition, ArmedFoundNothing,
                        ThreadsAgree, JoinThreads
  <1>6. QED
    BY <1>2, <1>3, <1>4, <1>5 DEF WorkerThread

\* When the gate opens, nobody is left waiting at it.
LEMMA GateOpenedFrees ==
    ASSUME PipelineInv, GateOpened
    PROVE  /\ pump' \in Pumps /\ download' \in Downloads
           /\ pump'.at # "parked" /\ download' # "gate"
           /\ pump'.pos = pump.pos
           /\ pump'.at = pump.at \/ (pump.at = "parked" /\ pump'.at = "loop")
  <1>1. pump \in Pumps /\ download \in Downloads
    BY DEF PipelineInv, PipelineTypeOK
  <1>2. download' \in Downloads /\ download' # "gate"
    BY <1>1 DEF GateOpened, Downloads
  <1>3. CASE pump.at = "parked"
    BY <1>1, <1>2, <1>3 DEF GateOpened, Pumps
  <1>4. CASE pump.at # "parked"
    BY <1>1, <1>2, <1>4 DEF GateOpened, Pumps
  <1>5. QED
    BY <1>3, <1>4

LEMMA RequestsAgree ==
    ASSUME PipelineInv, Requests
    PROVE  PipelineInv'
  <1>1. worker \in Workers /\ gate \in Gates /\ heard \in Histories
    BY DEF PipelineInv, PipelineTypeOK
  <1>2. CASE Activate
    <2>1. worker' \in Workers /\ worker'.at = "active"
      BY <1>1, <1>2 DEF Activate, Workers
    <2>2. gate' \in Gates
      BY <1>1, <1>2 DEF Activate, Gates
    <2>3. GateOpened
      BY <1>2 DEF Activate
    <2>4. QED
      BY <1>2, <2>1, <2>2, <2>3, GateOpenedFrees
         DEF PipelineInv, PipelineTypeOK, Bookkeeping, SeekHasPosition, ArmedFoundNothing,
             ThreadsAgree, Activate
  <1>3. CASE TearDown
    <2>1. worker' \in Workers /\ worker'.at = "cancel"
      BY <1>1, <1>3 DEF TearDown, Workers
    <2>2. gate' \in Gates
      <3>1. (gate.aborted \/ gate.gated) \in BOOLEAN
        BY <1>1 DEF Gates
      <3>2. gate' = [gate EXCEPT !.aborted = gate.aborted \/ gate.gated, !.paused = FALSE]
        BY <1>3 DEF TearDown
      <3>3. QED
        BY <1>1, <3>1, <3>2 DEF Gates
    <2>3. GateOpened
      BY <1>3 DEF TearDown
    <2>4. QED
      BY <1>3, <2>1, <2>2, <2>3, GateOpenedFrees
         DEF PipelineInv, PipelineTypeOK, Bookkeeping, SeekHasPosition, ArmedFoundNothing,
             ThreadsAgree, TearDown
  <1>4. ASSUME NEW position \in Positions, SeekTo(position) PROVE PipelineInv'
    <2>1. worker' \in Workers /\ worker'.seek \in Positions
      BY <1>4 DEF SeekTo, Workers, Positions
    <2>2. heard' \in Histories
      <3>1. heard.seeks + 1 \in 0 .. MaxSeeks
        BY <1>1, <1>4 DEF SeekTo, Histories
      <3>2. QED
        BY <1>1, <1>4, <3>1 DEF SeekTo, Histories
    <2>3. QED
      BY <1>4, <2>1, <2>2 DEF PipelineInv, PipelineTypeOK, Bookkeeping, SeekHasPosition,
                              ArmedFoundNothing, ThreadsAgree, SeekTo
  <1>5. QED
    BY <1>2, <1>3, <1>4 DEF Requests

LEMMA StepAgrees == PipelineInv /\ [PipelineNext]_pipelineVars => PipelineInv'
  <1>1. ASSUME PipelineInv, PipelineNext PROVE PipelineInv'
    BY <1>1, DownloadAgrees, PumpAgrees, OutputAgrees, WorkerAgrees, RequestsAgree DEF PipelineNext
  <1>2. ASSUME PipelineInv, UNCHANGED pipelineVars PROVE PipelineInv'
    BY <1>2 DEF pipelineVars, PipelineInv, PipelineTypeOK, Bookkeeping, SeekHasPosition, ArmedFoundNothing,
                ThreadsAgree
  <1>3. QED
    BY <1>1, <1>2

-----------------------------------------------------------------------------
LEMMA PipelineAlways == PipelineSpec => []PipelineInv
  BY InitAgrees, StepAgrees, PTL DEF PipelineSpec

\* Every variable keeps its type: in particular what was heard stays within the
\* body, and a seek never reaches the pump without a position.
THEOREM PipelineTypes == PipelineSpec => []PipelineTypeOK
  <1>1. PipelineInv => PipelineTypeOK
    BY DEF PipelineInv
  <1>2. QED
    BY <1>1, PipelineAlways, PTL

\* The threads' bookkeeping agrees in every state, through all the moments: a
\* ring is finished only by a pump that is through, whoever waits at the gate
\* can still be let on, and the reader sleeps only where more can come
\* (SharedDownloadBuffer, PreparedActivationGate, pump_decode_loop).
THEOREM ThreadsAgreeAlways == PipelineSpec => []ThreadsAgree
  <1>1. PipelineInv => ThreadsAgree
    BY DEF PipelineInv, Bookkeeping
  <1>2. QED
    BY <1>1, PipelineAlways, PTL
-----------------------------------------------------------------------------
(***************************************************************************)
(* The end.  What is on its way to the speaker ends with the chunks from   *)
(* some lo to the one decoded last, in order, and no chunk before lo is    *)
(* still to be heard; before them there may be frames that the resampler   *)
(* kept from before a seek.                                                *)
(***************************************************************************)
\* q ends with lo .. pos - 1.
EndsWith(q, lo, pos) ==
    /\ pos - lo <= Len(q)
    /\ \A i \in 1 .. pos - lo : q[Len(q) - (pos - lo) + i] = lo + i - 1
Follows(q, pos, next) == \E lo \in 1 .. pos : lo <= next /\ EndsWith(q, lo, pos)

OnItsWay == out.held \o ring.frames
FreshFollows == Follows(OnItsWay, pump.pos, heard.next)
CompleteIsWhole == buffer.complete /\ ~buffer.failed => buffer.data = Chunks
FinishedAtEnd == ring.finished /\ ~buffer.failed /\ ~buffer.cancelled => pump.pos = Chunks + 1

\* Tearing down begins with a track that was loaded and plays no longer.
Leaving == {"notify", "joinPump", "joinDownload", "gone"}
CancelledLate == buffer.cancelled => worker.at \in Leaving
ProbingLoads == pump.at = "probe" => worker.at = "loading"

EndInv ==
    /\ FreshFollows /\ CompleteIsWhole /\ FinishedAtEnd
    /\ CancelledLate /\ ProbingLoads /\ EndMeansHeard

LEMMA SeqsEqual ==
    ASSUME NEW s \in Seq(Positions), NEW t \in Seq(Positions), Len(s) = Len(t),
           \A i \in 1 .. Len(s) : s[i] = t[i]
    PROVE  s = t
  OBVIOUS

LEMMA AppendedLast ==
    ASSUME NEW s \in Seq(Positions), NEW t \in Seq(Positions), NEW frame \in Positions
    PROVE  s \o Append(t, frame) = Append(s \o t, frame)
  <1> DEFINE p == s \o Append(t, frame)
             q == Append(s \o t, frame)
  <1>1. p \in Seq(Positions) /\ q \in Seq(Positions)
    BY FramesJoin, FrameAppended
  <1>2. Len(p) = Len(s) + Len(t) + 1 /\ Len(q) = Len(p)
    BY FramesJoin, FrameAppended
  <1>3. \A i \in 1 .. Len(p) : p[i] = q[i]
    BY <1>2, FramesJoin, FrameAppended
  <1> HIDE DEF p, q
  <1> QED BY <1>1, <1>2, <1>3, SeqsEqual

LEMMA FirstOfJoined ==
    ASSUME NEW s \in Seq(Positions), NEW t \in Seq(Positions), s # <<>>
    PROVE  s \o t # <<>> /\ Head(s \o t) = Head(s) /\ Tail(s) \o t = Tail(s \o t)
  <1> DEFINE q == s \o t
             p == Tail(s) \o t
             r == Tail(q)
  <1>1. Len(s) \in Nat \ {0} /\ Len(t) \in Nat /\ q \in Seq(Positions) /\ Len(q) = Len(s) + Len(t)
    BY FramesJoin
  <1>2. q # <<>> /\ Head(q) = Head(s)
    BY <1>1
  <1>3. Tail(s) \in Seq(Positions) /\ r \in Seq(Positions)
    BY <1>1, <1>2, FrameTaken
  <1>4. p \in Seq(Positions) /\ Len(p) = Len(s) - 1 + Len(t) /\ Len(r) = Len(p)
    BY <1>1, <1>2, <1>3, FramesJoin
  <1>5. \A i \in 1 .. Len(p) : p[i] = r[i]
    BY <1>1, <1>2, <1>3, <1>4
  <1> HIDE DEF p, r
  <1>6. p = r
    BY <1>3, <1>4, <1>5, SeqsEqual
  <1> QED BY <1>2, <1>6 DEF p, r

LEMMA FollowsAppended ==
    ASSUME NEW q \in Seq(Positions), NEW pos \in Positions, NEW next \in Nat, Follows(q, pos, next)
    PROVE  Follows(Append(q, pos), pos + 1, next)
  <1>1. PICK lo \in 1 .. pos : lo <= next /\ EndsWith(q, lo, pos)
    BY DEF Follows
  <1> DEFINE p == Append(q, pos)
  <1>2. Len(q) \in Nat /\ Len(p) = Len(q) + 1 /\ p[Len(q) + 1] = pos
        /\ \A i \in 1 .. Len(q) : p[i] = q[i]
    OBVIOUS
  <1> HIDE DEF p
  <1> DEFINE to == pos + 1
  <1>3. to = pos + 1 /\ to \in Nat /\ pos \in Nat /\ lo \in Nat /\ lo <= pos
    BY DEF Positions
  <1> HIDE DEF to
  <1>4. ASSUME NEW i \in 1 .. to - lo
        PROVE  p[Len(p) - (to - lo) + i] = lo + i - 1
    <2>1. CASE i = to - lo
      BY <1>2, <1>3, <2>1
    <2>2. CASE i # to - lo
      <3>1. i \in 1 .. pos - lo
        BY <1>3, <2>2
      <3>2. q[Len(q) - (pos - lo) + i] = lo + i - 1 /\ pos - lo <= Len(q)
        BY <1>1, <3>1 DEF EndsWith
      <3>3. Len(p) - (to - lo) + i = Len(q) - (pos - lo) + i
        BY <1>2, <1>3
      <3>4. Len(q) - (pos - lo) + i \in 1 .. Len(q)
        BY <1>2, <1>3, <3>1, <3>2
      <3> QED BY <1>2, <3>2, <3>3, <3>4
    <2> QED BY <2>1, <2>2
  <1>5. lo \in 1 .. to /\ to - lo <= Len(p)
    BY <1>1, <1>2, <1>3 DEF EndsWith
  <1>6. EndsWith(p, lo, to)
    BY <1>4, <1>5 DEF EndsWith
  <1>7. Follows(p, to, next)
    BY <1>1, <1>5, <1>6 DEF Follows
  <1> QED BY <1>7 DEF p, to

\* The frame in front is played: it is one from before a seek, or the chunk lo.
LEMMA FollowsPlayed ==
    ASSUME NEW q \in Seq(Positions), q # <<>>, NEW pos \in 1 .. Chunks + 1, NEW next \in Nat,
           Follows(q, pos, next)
    PROVE  Follows(Tail(q), pos, IF Head(q) = next THEN next + 1 ELSE next)
  <1>1. PICK lo \in 1 .. pos : lo <= next /\ EndsWith(q, lo, pos)
    BY DEF Follows
  <1> DEFINE p == Tail(q)
             heardTo == IF Head(q) = next THEN next + 1 ELSE next
  <1>2. Len(q) \in Nat /\ Len(p) = Len(q) - 1 /\ Head(q) = q[1]
        /\ \A i \in 1 .. Len(q) - 1 : p[i] = q[i + 1]
    OBVIOUS
  <1>3. next <= heardTo /\ (q[1] = next => heardTo = next + 1) /\ heardTo \in Nat
    BY <1>2
  <1> HIDE DEF p, heardTo
  <1>4. pos \in Nat /\ lo \in Nat /\ lo <= pos /\ pos - lo <= Len(q)
    BY <1>1 DEF EndsWith
  <1>5. CASE pos - lo < Len(q)
    <2>1. ASSUME NEW i \in 1 .. pos - lo
          PROVE  p[Len(p) - (pos - lo) + i] = lo + i - 1
      <3>1. Len(p) - (pos - lo) + i \in 1 .. Len(q) - 1
            /\ Len(p) - (pos - lo) + i + 1 = Len(q) - (pos - lo) + i
        BY <1>2, <1>4, <1>5
      <3>2. q[Len(q) - (pos - lo) + i] = lo + i - 1
        BY <1>1 DEF EndsWith
      <3> QED BY <1>2, <3>1, <3>2
    <2>2. EndsWith(p, lo, pos)
      BY <1>2, <1>4, <1>5, <2>1 DEF EndsWith
    <2> QED BY <1>1, <1>3, <1>4, <2>2 DEF Follows, p, heardTo
  <1>6. CASE pos - lo = Len(q)
    <2>1. Len(q) > 0
      BY <1>2
    <2>2. ASSUME NEW i \in 1 .. pos - (lo + 1)
          PROVE  p[Len(p) - (pos - (lo + 1)) + i] = (lo + 1) + i - 1
      <3>1. i \in 1 .. Len(q) - 1 /\ i + 1 \in 1 .. pos - lo
            /\ Len(p) - (pos - (lo + 1)) + i = i
            /\ Len(q) - (pos - lo) + (i + 1) = i + 1
        BY <1>2, <1>4, <1>6
      <3>2. q[i + 1] = lo + (i + 1) - 1
        BY <1>1, <3>1 DEF EndsWith
      <3> QED BY <1>2, <1>4, <3>1, <3>2
    <2>3. lo + 1 \in 1 .. pos /\ pos - (lo + 1) <= Len(p)
      BY <1>2, <1>4, <1>6, <2>1
    <2>4. EndsWith(p, lo + 1, pos)
      BY <2>2, <2>3 DEF EndsWith
    <2>5. q[1] = lo
      <3>1. 1 \in 1 .. pos - lo /\ Len(q) - (pos - lo) + 1 = 1
        BY <1>2, <1>4, <1>6, <2>1
      <3>2. q[1] = lo + 1 - 1
        BY <1>1, <3>1 DEF EndsWith
      <3> QED BY <1>4, <3>2
    <2>6. lo + 1 <= heardTo
      BY <1>1, <1>3, <1>4, <2>5
    <2>7. Follows(p, pos, heardTo)
      BY <2>3, <2>4, <2>6 DEF Follows
    <2> USE DEF p, heardTo
    <2> QED BY <2>7
  <1>7. pos - lo < Len(q) \/ pos - lo = Len(q)
    <2>1. Len(q) \in Nat
      OBVIOUS
    <2> QED BY <1>4, <2>1
  <1> QED BY <1>5, <1>6, <1>7, Zenon

LEMMA FollowsFromHere ==
    ASSUME NEW q \in Seq(Positions), NEW pos \in 1 .. Chunks + 1
    PROVE  Follows(q, pos, pos)
  <1>1. pos \in 1 .. pos /\ pos - pos = 0 /\ Len(q) \in Nat
    OBVIOUS
  <1>2. EndsWith(q, pos, pos)
    BY <1>1 DEF EndsWith
  <1> QED BY <1>1, <1>2 DEF Follows

\* Nothing on its way: what was decoded was heard.
LEMMA FollowsNothing ==
    ASSUME NEW pos \in 1 .. Chunks + 1, NEW next \in Nat, Follows(<<>>, pos, next)
    PROVE  pos <= next
  <1>1. PICK lo \in 1 .. pos : lo <= next /\ EndsWith(<<>>, lo, pos)
    BY DEF Follows
  <1>2. pos - lo <= 0
    BY <1>1 DEF EndsWith
  <1> QED BY <1>1, <1>2

\* The parts of the type invariant by variable.
LEMMA Fields ==
    ASSUME PipelineInv
    PROVE  /\ out.held \in Seq(Positions) /\ ring.frames \in Seq(Positions)
           /\ pump.pos \in 1 .. Chunks + 1 /\ buffer.data \in 0 .. Chunks
           /\ heard.next \in 1 .. Chunks + 1
           /\ ring \in Rings /\ out \in Outs /\ buffer \in Buffers /\ pump \in Pumps
           /\ worker \in Workers /\ heard \in Histories
           /\ OnItsWay \in Seq(Positions)
  <1>1. out.held \in Seq(Positions) /\ ring.frames \in Seq(Positions)
    BY DEF PipelineInv, PipelineTypeOK, Rings, Outs
  <1>2. OnItsWay \in Seq(Positions)
    BY <1>1, FramesJoin DEF OnItsWay
  <1> QED BY <1>1, <1>2 DEF PipelineInv, PipelineTypeOK, Rings, Outs, Pumps, Buffers, Histories

-----------------------------------------------------------------------------
\* Each thread's steps.

LEMMA InitEnds == PipelineInit => EndInv
  <1> SUFFICES ASSUME PipelineInit PROVE EndInv
    OBVIOUS
  <1>1. PipelineInv
    BY InitAgrees
  <1>2. FreshFollows
    <2>1. pump.pos = 1 /\ heard.next = 1 /\ 1 \in 1 .. Chunks + 1
      BY DEF PipelineInit
    <2> QED BY <1>1, <2>1, Fields, FollowsFromHere DEF FreshFollows
  <1>3. CompleteIsWhole /\ FinishedAtEnd /\ CancelledLate /\ ProbingLoads /\ EndMeansHeard
    <2>1. buffer.complete => buffer.data = Chunks
      <3>1. PICK streamed \in BOOLEAN :
              buffer.data = (IF streamed THEN 0 ELSE Chunks) /\ buffer.complete = ~streamed
        BY DEF PipelineInit
      <3> QED BY <3>1
    <2>2. ~buffer.cancelled /\ ~ring.finished /\ ~ring.notified /\ worker.at = "loading"
      BY DEF PipelineInit
    <2> QED BY <2>1, <2>2 DEF CompleteIsWhole, FinishedAtEnd, CancelledLate, ProbingLoads, EndMeansHeard
  <1> QED BY <1>2, <1>3 DEF EndInv

\* A step that leaves the frames, the chunk to be decoded next and what was heard.
LEMMA SameFrames ==
    ASSUME EndInv, UNCHANGED <<out, heard>>, ring'.frames = ring.frames, pump'.pos = pump.pos
    PROVE  FreshFollows'
  BY DEF EndInv, FreshFollows, OnItsWay

LEMMA DownloadEnds ==
    ASSUME PipelineInv, EndInv, DownloadThread
    PROVE  EndInv'
  <1>1. /\ UNCHANGED <<ring, out, heard, worker>>
        /\ pump'.pos = pump.pos /\ (pump'.at = "probe" => pump.at = "probe")
    BY Fields DEF DownloadThread, DownloadPermit, DownloadRead, ReaderWoken, Pumps
  <1>2. /\ buffer'.failed \/ (buffer'.complete => buffer'.data = Chunks)
        /\ buffer'.cancelled = buffer.cancelled /\ (buffer.failed => buffer'.failed)
    <2>1. CASE buffer' = buffer
      BY <2>1 DEF EndInv, CompleteIsWhole
    <2>2. CASE buffer.data < Chunks /\ buffer' = [buffer EXCEPT !.data = @ + 1]
      <3>1. buffer.complete => buffer.failed
        BY <2>2, Fields DEF EndInv, CompleteIsWhole
      <3>2. /\ buffer'.complete = buffer.complete /\ buffer'.failed = buffer.failed
            /\ buffer'.cancelled = buffer.cancelled
        BY <2>2, Fields DEF Buffers
      <3> QED BY <3>1, <3>2
    <2>3. CASE buffer.data = Chunks /\ buffer' = [buffer EXCEPT !.complete = TRUE]
      BY <2>3, Fields DEF Buffers
    <2>4. CASE buffer' = [buffer EXCEPT !.complete = TRUE, !.failed = TRUE]
      BY <2>4, Fields DEF Buffers
    <2> QED BY <2>1, <2>2, <2>3, <2>4 DEF DownloadThread, DownloadPermit, DownloadRead
  <1>3. FreshFollows'
    BY <1>1, SameFrames
  <1> QED BY <1>1, <1>2, <1>3 DEF EndInv, CompleteIsWhole, FinishedAtEnd, CancelledLate,
                                 ProbingLoads, EndMeansHeard

LEMMA PumpEnds ==
    ASSUME PipelineInv, EndInv, PumpThread
    PROVE  EndInv'
  <1>1. CASE PumpProbe
    <2>1. /\ UNCHANGED <<ring, out, heard, buffer>>
          /\ pump'.pos = pump.pos /\ pump'.at # "probe" /\ pump.at = "probe"
      BY <1>1, Fields DEF PumpProbe, Pumps
    <2>2. FreshFollows'
      BY <2>1, SameFrames
    <2>3. CancelledLate'
      BY <2>1 DEF EndInv, CancelledLate, ProbingLoads, Leaving
    <2> QED BY <2>1, <2>2, <2>3 DEF EndInv, CompleteIsWhole, FinishedAtEnd, ProbingLoads, EndMeansHeard
  <1>2. CASE PumpCancelled \/ PumpPark \/ PumpNext \/ PumpSleeps
    <2>1. /\ UNCHANGED <<ring, out, heard, worker>>
          /\ pump'.pos = pump.pos /\ pump'.at # "probe"
          /\ buffer'.complete = buffer.complete /\ buffer'.failed = buffer.failed
          /\ buffer'.data = buffer.data /\ buffer'.cancelled = buffer.cancelled
      BY <1>2, Fields DEF PumpCancelled, PumpPark, PumpNext, PumpSleeps, Pumps, Buffers
    <2>2. FreshFollows'
      BY <2>1, SameFrames
    <2> QED BY <2>1, <2>2 DEF EndInv, CompleteIsWhole, FinishedAtEnd, CancelledLate, ProbingLoads,
               EndMeansHeard
  <1>3. CASE PumpSeek
    <2>1. worker.at = "seeking" /\ worker.seek \in Positions /\ ~buffer.cancelled
      BY <1>3 DEF PumpSeek, PipelineInv, Bookkeeping, SeekHasPosition, EndInv, CancelledLate, Leaving
    <2>2. UNCHANGED <<buffer, out>> /\ worker'.at = "active"
      BY <1>3 DEF PumpSeek
    <2>3. CASE /\ ring' = [ring EXCEPT !.frames = <<>>, !.finished = FALSE, !.notified = FALSE]
               /\ \E next \in {"loop", "done"} : pump' = [at |-> next, pos |-> worker.seek]
               /\ heard' = [heard EXCEPT !.from = worker.seek, !.next = worker.seek]
      <3>1. /\ ring'.frames = <<>> /\ ring'.finished = FALSE /\ ring'.notified = FALSE
            /\ heard'.next = worker.seek
        BY <2>3, Fields DEF Rings, Histories
      <3>2. pump'.pos = worker.seek /\ pump'.at # "probe"
        BY <2>3
      <3>3. out.held \o <<>> \in Seq(Positions) /\ worker.seek \in 1 .. Chunks + 1
        BY <2>1, Fields DEF Positions
      <3>4. FreshFollows'
        BY <2>2, <3>1, <3>2, <3>3, FollowsFromHere DEF FreshFollows, OnItsWay
      <3> QED BY <2>1, <2>2, <3>1, <3>2, <3>4 DEF EndInv, CompleteIsWhole, FinishedAtEnd,
                 CancelledLate, ProbingLoads, EndMeansHeard
    <2>4. CASE UNCHANGED <<ring, heard>> /\ \E next \in {"loop", "done"} : pump' = [pump EXCEPT !.at = next]
      <3>1. pump'.pos = pump.pos /\ pump'.at # "probe"
        BY <2>4, Fields DEF Pumps
      <3>2. FreshFollows'
        BY <2>2, <2>4, <3>1, SameFrames
      <3> QED BY <2>1, <2>2, <2>4, <3>1, <3>2 DEF EndInv, CompleteIsWhole, FinishedAtEnd,
                 CancelledLate, ProbingLoads, EndMeansHeard
    <2> QED BY <1>3, <2>3, <2>4 DEF PumpSeek
  <1>4. CASE PumpRead
    <2>1. /\ UNCHANGED <<out, heard, worker>> /\ pump.at = "read" /\ ~ring.finished
          /\ buffer'.complete = buffer.complete /\ buffer'.failed = buffer.failed
          /\ buffer'.data = buffer.data /\ buffer'.cancelled = buffer.cancelled
      BY <1>4, Fields DEF PumpRead, PumpFinishes, Buffers, PipelineInv, Bookkeeping, ThreadsAgree
    <2>2. CASE \E next \in {"eos", "done"} :
                 PumpFinishes(next) /\ (buffer.cancelled \/ (~(pump.pos <= buffer.data) /\ buffer.complete))
      <3>1. /\ ring'.frames = ring.frames /\ ring'.notified = ring.notified
            /\ pump'.pos = pump.pos /\ pump'.at # "probe"
        BY <2>2, Fields DEF PumpFinishes, Rings, Pumps
      <3>2. FreshFollows'
        BY <2>1, <3>1, SameFrames
      <3>3. FinishedAtEnd'
        BY <2>1, <2>2, <3>1, Fields DEF FinishedAtEnd, EndInv, CompleteIsWhole
      <3> QED BY <2>1, <3>1, <3>2, <3>3 DEF EndInv, CompleteIsWhole, CancelledLate, ProbingLoads,
                 EndMeansHeard
    <2>3. CASE /\ pump.pos <= buffer.data
               /\ ring' = [ring EXCEPT !.frames = Append(@, pump.pos)]
               /\ pump' = [at |-> "loop", pos |-> pump.pos + 1]
      <3>1. /\ ring'.frames = Append(ring.frames, pump.pos) /\ ring'.notified = ring.notified
            /\ ring'.finished = ring.finished /\ pump'.pos = pump.pos + 1 /\ pump'.at # "probe"
            /\ pump.pos \in Positions
        BY <2>3, Fields DEF Rings, Positions
      <3>2. out.held \o Append(ring.frames, pump.pos) = Append(OnItsWay, pump.pos)
        BY <3>1, Fields, AppendedLast DEF OnItsWay
      <3>3. Follows(Append(OnItsWay, pump.pos), pump.pos + 1, heard.next)
        BY <3>1, Fields, FollowsAppended DEF EndInv, FreshFollows
      <3>4. OnItsWay' = Append(OnItsWay, pump.pos)
        BY <2>1, <3>1, <3>2 DEF OnItsWay
      <3>5. FreshFollows'
        BY <2>1, <3>1, <3>3, <3>4 DEF FreshFollows
      <3> QED BY <2>1, <3>1, <3>5 DEF EndInv, CompleteIsWhole, FinishedAtEnd, CancelledLate,
                 ProbingLoads, EndMeansHeard
    <2>4. CASE ring' = ring /\ (pump' = pump \/ pump' = [pump EXCEPT !.at = "asleep"])
      <3>1. pump'.pos = pump.pos /\ pump'.at # "probe"
        BY <2>1, <2>4, Fields DEF Pumps
      <3>2. FreshFollows'
        BY <2>1, <2>4, <3>1, SameFrames
      <3> QED BY <2>1, <2>4, <3>1, <3>2 DEF EndInv, CompleteIsWhole, FinishedAtEnd, CancelledLate,
                 ProbingLoads, EndMeansHeard
    <2> QED BY <1>4, <2>2, <2>3, <2>4 DEF PumpRead
  <1> QED BY <1>1, <1>2, <1>3, <1>4 DEF PumpThread

LEMMA OutputEnds ==
    ASSUME PipelineInv, EndInv, OutputCallback
    PROVE  EndInv'
  <1>1. UNCHANGED <<buffer, pump, worker>> /\ ~buffer.cancelled
    BY DEF OutputCallback, OutputPull, OutputFrame, Streaming, EndInv, CancelledLate, Leaving
  <1>2. /\ ring'.finished = ring.finished
        /\ ring'.notified => ring.notified \/ (OutputFrame /\ ~HasFrame /\ Drained)
    BY Fields DEF OutputCallback, OutputPull, OutputFrame, Rings
  <1>3. FreshFollows'
    <2>1. CASE OutputPull
      <3>1. /\ out'.held = out.held \o ring.frames /\ ring'.frames = <<>> /\ heard' = heard
        BY <2>1, Fields DEF OutputPull, Outs, Rings
      <3>2. OnItsWay' = OnItsWay
        BY <3>1, Fields DEF OnItsWay
      <3> QED BY <1>1, <3>1, <3>2 DEF EndInv, FreshFollows
    <2>2. CASE OutputFrame /\ ~HasFrame
      <3>1. out'.held = out.held /\ ring'.frames = ring.frames /\ heard' = heard
        BY <2>2, Fields DEF OutputFrame, Outs, Rings
      <3> QED BY <1>1, <3>1 DEF EndInv, FreshFollows, OnItsWay
    <2>3. CASE OutputFrame /\ HasFrame
      <3>1. /\ out'.held = Tail(out.held) /\ ring' = ring
            /\ heard' = IF Head(out.held) = heard.next THEN [heard EXCEPT !.next = @ + 1] ELSE heard
        BY <2>3 DEF OutputFrame
      <3>2. out.held # <<>>
        BY <2>3 DEF HasFrame
      <3>3. /\ OnItsWay # <<>> /\ Head(OnItsWay) = Head(out.held)
            /\ Tail(out.held) \o ring.frames = Tail(OnItsWay)
        BY <3>2, Fields, FirstOfJoined DEF OnItsWay
      <3>6. OnItsWay' = Tail(OnItsWay)
        BY <3>1, <3>3 DEF OnItsWay
      <3>4. heard'.next = IF Head(OnItsWay) = heard.next THEN heard.next + 1 ELSE heard.next
        BY <3>1, <3>3, Fields DEF Histories
      <3>5. Follows(Tail(OnItsWay), pump.pos,
                    IF Head(OnItsWay) = heard.next THEN heard.next + 1 ELSE heard.next)
        BY <3>3, Fields, FollowsPlayed DEF EndInv, FreshFollows
      <3> QED BY <1>1, <3>4, <3>5, <3>6 DEF FreshFollows
    <2> QED BY <2>1, <2>2, <2>3 DEF OutputCallback
  <1>4. EndMeansHeard'
    <2> SUFFICES ASSUME ring'.notified, ~buffer.failed PROVE heard'.next = Chunks + 1
      BY <1>1 DEF EndMeansHeard
    <2>1. heard'.next \in 1 .. Chunks + 1
      BY OutputAgrees, Fields DEF PipelineInv, PipelineTypeOK, Histories
    <2>2. CASE ring.notified
      <3>1. heard.next = Chunks + 1
        BY <2>2 DEF EndInv, EndMeansHeard
      <3>2. heard'.next = heard.next \/ heard'.next = heard.next + 1
        BY Fields DEF OutputCallback, OutputPull, OutputFrame, Histories
      <3> QED BY <2>1, <3>1, <3>2
    <2>3. CASE OutputFrame /\ ~HasFrame /\ Drained
      <3>1. heard' = heard /\ OnItsWay = <<>> /\ ring.finished
        BY <2>3 DEF OutputFrame, Drained, OnItsWay
      <3>2. pump.pos = Chunks + 1
        BY <1>1, <3>1 DEF EndInv, FinishedAtEnd
      <3>3. pump.pos <= heard.next
        BY <3>1, Fields, FollowsNothing DEF EndInv, FreshFollows
      <3> QED BY <3>1, <3>2, <3>3, Fields
    <2> QED BY <1>2, <2>2, <2>3
  <1> QED BY <1>1, <1>2, <1>3, <1>4 DEF EndInv, CompleteIsWhole, FinishedAtEnd, CancelledLate,
             ProbingLoads

LEMMA WorkerEnds ==
    ASSUME PipelineInv, EndInv, WorkerThread \/ Requests
    PROVE  EndInv'
  <1>1. /\ out' = out /\ heard'.next = heard.next
        /\ ring'.frames = ring.frames /\ ring'.finished = ring.finished
        /\ ring'.notified = ring.notified
        /\ buffer'.complete = buffer.complete /\ buffer'.failed = buffer.failed
        /\ buffer'.data = buffer.data /\ (buffer.cancelled => buffer'.cancelled)
    BY Fields DEF WorkerThread, SeekLost, CancelFlags, NotifyReader, JoinThreads, Requests, Activate,
       TearDown, SeekTo, Rings, Buffers, Histories
  <1>2. pump'.pos = pump.pos /\ (pump'.at = "probe" => pump.at = "probe" /\ worker.at \notin {"seeking"})
    BY Fields DEF WorkerThread, SeekLost, CancelFlags, NotifyReader, JoinThreads, Requests, Activate,
       TearDown, SeekTo, GateOpened, ReaderWoken, Pumps, EndInv, ProbingLoads
  <1>3. worker.at # "loading"
    BY DEF WorkerThread, SeekLost, CancelFlags, NotifyReader, JoinThreads, Requests, Activate,
       TearDown, SeekTo
  <1>4. CancelledLate'
    BY Fields DEF WorkerThread, SeekLost, CancelFlags, NotifyReader, JoinThreads, Requests, Activate,
       TearDown, SeekTo, EndInv, CancelledLate, Leaving, Workers
  <1>5. ProbingLoads'
    BY <1>2, <1>3 DEF EndInv, ProbingLoads
  <1>6. FreshFollows'
    BY <1>1, <1>2 DEF EndInv, FreshFollows, OnItsWay
  <1> QED BY <1>1, <1>2, <1>4, <1>5, <1>6 DEF EndInv, CompleteIsWhole, FinishedAtEnd, EndMeansHeard

\* When the end is signalled, everything from where playback last started was
\* heard, in order: for a body of any length, a ring of any size, any number of
\* seeks and through all the moments (EndMeansHeard; OutputWriter::write,
\* pump_decode_loop).
THEOREM EndMeansHeardAlways == PipelineSpec => []EndMeansHeard
  <1>1. PipelineInit => EndInv
    BY InitEnds
  <1>2. PipelineInv /\ EndInv /\ [PipelineNext]_pipelineVars => EndInv'
    <2>1. ASSUME PipelineInv, EndInv, PipelineNext PROVE EndInv'
      BY <2>1, DownloadEnds, PumpEnds, OutputEnds, WorkerEnds DEF PipelineNext
    <2>2. ASSUME EndInv, UNCHANGED pipelineVars PROVE EndInv'
      BY <2>2 DEF pipelineVars, EndInv, FreshFollows, OnItsWay, CompleteIsWhole, FinishedAtEnd,
         CancelledLate, ProbingLoads, EndMeansHeard
    <2> QED BY <2>1, <2>2
  <1>3. EndInv => EndMeansHeard
    BY DEF EndInv
  <1> QED BY <1>1, <1>2, <1>3, PipelineAlways, PTL DEF PipelineSpec

===============================================================================
