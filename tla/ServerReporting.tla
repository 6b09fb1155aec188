--------------------------- MODULE ServerReporting ---------------------------
(***************************************************************************)
(* What the OpenSubsonic server is told of playback: the reports that the  *)
(* commands of PlaybackController emit, the thread that receives them      *)
(* (playback/server_reporting.rs), and the requests it spawns.             *)
(*                                                                         *)
(* The controller sends into an unbounded channel and never waits.  For a  *)
(* server with the playbackReport extension the thread passes every report *)
(* on and repeats "playing" as a heartbeat; for any other server it keeps  *)
(* a session per track and decides itself when to scrobble "now playing"   *)
(* and "played".  Positions and the context (client, profile) are left     *)
(* out: a session knows them, no decision here depends on them.            *)
(*                                                                         *)
(* A play is one listening of one track, from the load that starts it to   *)
(* the next; the program has no such notion and compares song and index.   *)
(***************************************************************************)
EXTENDS Integers, SequencesExt

CONSTANTS Songs, NoSong,
          Start,        \* the queue at first
          MaxAttempts,  \* OUTPUT_STREAM_RECOVERY_MAX_ATTEMPTS
          Threshold,    \* of a played scrobble, in heartbeat intervals
          Overtakes,    \* how many requests a later one may overtake on its way
          MaxPlays, MaxTicks, MaxOdd,
          MaxBehind     \* bounds; the last: reports under way when the next command comes

ASSUME ReportingAssumption ==
    /\ NoSong \notin Songs /\ Start \in Seq(Songs) \ {<<>>}
    /\ {MaxAttempts, Threshold, MaxPlays, MaxTicks} \subseteq Nat \ {0}
    /\ {Overtakes, MaxOdd, MaxBehind} \subseteq Nat

VARIABLES
    extended,   \* the server has the playbackReport extension
    player,     \* the controller's status and its plan of recovery
    channel,    \* mpsc: ServerPlaybackCommands the thread has not received
    report,     \* active_report_playback
    fallback,   \* active_fallback_scrobble
    net,        \* spawned reportPlayback requests, in the order of their start
    told,       \* the last report that reached the server
    plays,      \* history of each play: time heard, scrobbles sent, its end
    stale,      \* history: the status changed and nothing was sent
    count       \* history: ticks, and edits, errors and changes of device

vars == <<extended, player, channel, report, fallback, net, told, plays, stale, count>>

Plays == 1 .. MaxPlays
Loaded == {"playing", "paused", "interrupted"}
NoPlan == [index |-> 0, autoplay |-> FALSE, attempt |-> 0]

\* Reports carry the index the controller had; here indices start from 1.
Report(p, state) ==
    [state |-> state, song |-> p.queue[p.index], index |-> p.index, play |-> p.play]
Clear == [state |-> "clear", song |-> NoSong, index |-> 0, play |-> 0]
NoReport == [state |-> "none", song |-> NoSong, index |-> 0, play |-> 0]

\* over and closed are kept for a server with the extension, the rest for one
\* without; of a lost play only that.
Unheard == [heard |-> 0, announced |-> 0, submitted |-> 0, lost |-> FALSE,
            over |-> FALSE, closed |-> FALSE]

Init ==
    /\ extended \in BOOLEAN
    /\ player = [status |-> "stopped", queue |-> Start, index |-> 1, play |-> 0,
                 resume |-> "none", attempts |-> 0, plan |-> NoPlan]
    /\ channel = <<>> /\ net = <<>> /\ told = NoReport
    /\ report = NoReport /\ fallback = NoReport
    /\ plays = [p \in Plays |-> Unheard]
    /\ stale = FALSE /\ count = [ticks |-> 0, odd |-> 0]

-----------------------------------------------------------------------------
(* The controller: each command changes its status and sends its reports. *)

\* The play that was loaded is over once another one starts or playback stops.
Ended(p) ==
    extended /\ player.status \in Loaded /\ (p.play # player.play \/ p.status = "stopped")

Sends(p, reports) ==
    /\ Len(channel) + Len(net) <= MaxBehind
    /\ player' = p /\ channel' = channel \o reports
    /\ UNCHANGED <<extended, report, fallback, net, told>>

\* A command whose reports say all that changed.
Tells(p, reports) ==
    /\ Sends(p, reports)
    /\ plays' = IF Ended(p) THEN [plays EXCEPT ![player.play].over = TRUE] ELSE plays
    /\ stale' = FALSE

\* A command after which the thread no longer follows the play: it was told to
\* drop its sessions in the middle of it, or not told of a change.
Loses(p, reports, silent) ==
    /\ Sends(p, reports)
    /\ plays' = IF extended \/ player.play = 0 THEN plays
                ELSE [plays EXCEPT ![player.play] = [Unheard EXCEPT !.lost = TRUE]]
    /\ stale' = (extended /\ silent)

\* A command that changes nothing the server knows of.
Spares(p, reports) == Sends(p, reports) /\ UNCHANGED <<plays, stale>>

SameCount == UNCHANGED count

\* Edits, errors and changes of device are bounded together.
Odd == count.odd < MaxOdd /\ count' = [count EXCEPT !.odd = @ + 1]

\* load_track_at_index, after the reports in before: a new play unless the track
\* that is loaded is loaded again.
Load(p, i, autoplay, before) ==
    LET again == before = <<>> /\ player.status = "interrupted" /\ i = player.index
        new == [p EXCEPT !.index = i, !.play = IF again THEN @ ELSE @ + 1, !.resume = "none"]
        state == IF autoplay THEN "playing" ELSE "paused"
        loaded == [new EXCEPT !.status = state, !.attempts = 0, !.plan = NoPlan]
        failed == [new EXCEPT !.status = "error"]
    IN /\ new.play \in Plays
       /\ \/ Tells(loaded, before \o <<Report(new, "starting"), Report(new, state)>>)
          \/ /\ ~again
             /\ Tells(failed, before \o <<Report(new, "starting"), Clear>>)
          \/ again /\ Loses(failed, <<Report(new, "starting"), Clear>>, FALSE)

\* should_autoplay.
Autoplay == player.status = "playing" \/ player.resume = "playing"

\* report_current_server_playback_stopped, where the track was loaded.
StopReport == IF player.status \in Loaded THEN <<Report(player, "stopped")>> ELSE <<>>

\* play: resumes what is paused, loads anything else.
Play ==
    /\ IF player.status = "paused"
         THEN Tells([player EXCEPT !.status = "playing", !.attempts = 0, !.plan = NoPlan],
                    <<Report(player, "playing")>>)
         ELSE player.status # "playing" /\ Load(player, player.index, TRUE, <<>>)
    /\ SameCount

\* play_queue_index.
PlayIndex ==
    /\ \E i \in DOMAIN player.queue : Load(player, i, TRUE, StopReport)
    /\ SameCount

\* next and prev; prev past its threshold is a seek.
Move ==
    /\ \E i \in {player.index - 1, player.index + 1} \cap DOMAIN player.queue :
         LET moved == [player EXCEPT !.index = i, !.status = "stopped", !.resume = "none"] IN
         \/ player.status \in {"playing", "paused"} /\ Load(player, i, Autoplay, StopReport)
         \/ player.status \in {"stopped", "error"} /\ Spares(moved, <<>>)
         \/ player.status = "interrupted" /\ Loses(moved, <<>>, TRUE)
    /\ SameCount

\* pause_with_context, of a track the backend has, buffering or not; of another,
\* see PlaybackController.
Pause ==
    /\ player.status \in {"playing", "paused"} \/ player.resume # "none"
    /\ Tells([player EXCEPT !.status = "paused", !.resume = "none"], <<Report(player, "paused")>>)
    /\ SameCount

\* stop_with_context, clear_queue.
StopReportsDropped == <<Clear, Clear>>    \* Mutant: the end is not reported.
StopReports == <<Report(player, "stopped"), Clear>>

Stop ==
    /\ Tells([player EXCEPT !.status = "stopped", !.resume = "none", !.attempts = 0,
                            !.plan = NoPlan],
             StopReports)
    /\ SameCount

\* reload_track_at_index_exact, after the reports in before: when the load fails
\* the status is the one before.  kept: no session was dropped before it.
Reload(i, autoplay, before, kept, attempts, failed) ==
    LET new == [player EXCEPT !.index = i, !.resume = "none",
                              !.play = IF i = player.index THEN @ ELSE @ + 1]
        state == IF autoplay THEN "playing" ELSE "paused"
        loaded == [new EXCEPT !.status = state, !.attempts = attempts, !.plan = NoPlan]
        present == i \in DOMAIN player.queue
    IN /\ new.play \in Plays
       /\ \/ /\ present /\ kept
             /\ Tells(loaded, <<Report(new, "starting"), Report(new, state)>>)
          \/ /\ present /\ ~kept
             /\ Loses(loaded, before \o <<Report(new, "starting"), Report(new, state)>>, FALSE)
          \/ Loses(failed.player,
                   before \o (IF present THEN <<Report(new, "starting"), Clear>> ELSE <<>>)
                     \o failed.reports,
                   failed.player.status \in Loaded)

\* seek, in the track or by a reload.
Seek ==
    /\ player.status \in {"playing", "paused"}
    /\ \/ Tells(player, <<Report(player, player.status)>>)
       \/ Reload(player.index, Autoplay, <<>>, TRUE, 0,
                 [player |-> player, reports |-> <<>>])
    /\ SameCount

\* remove_from_queue of the current entry: what follows it is loaded.
RemoveCurrent ==
    /\ Odd /\ Len(player.queue) > 1
    /\ LET rest == RemoveAt(player.queue, player.index)
           i == IF player.index > Len(rest) THEN Len(rest) ELSE player.index
           left == [player EXCEPT !.queue = rest]
       IN IF player.status \in Loaded
            THEN Load(left, i, Autoplay, StopReports)
            ELSE Spares([left EXCEPT !.index = i, !.status = "stopped"], <<>>)

\* insert_to_queue or remove_from_queue before the current entry, and a shared
\* state that preserves the track at another index: no report, and the next one
\* names another index.
ShiftCurrent ==
    /\ Odd
    /\ LET longer == [player EXCEPT !.queue = <<Head(@)>> \o @, !.index = @ + 1] IN
       IF player.status = "stopped" THEN Spares(longer, <<>>) ELSE Loses(longer, <<>>, stale)

\* set_queue, set_position of a loaded track, a shared state with another track,
\* another profile: the sessions are dropped, and no end is reported.
Replace ==
    /\ Odd
    /\ LET idle == [player EXCEPT !.status = "stopped", !.resume = "none", !.attempts = 0,
                                  !.plan = NoPlan]
       IN IF player.status = "stopped"
            THEN Spares(idle, <<Clear>>)
            ELSE Loses(idle, <<Clear>>, stale \/ player.status \in Loaded)

\* set_output_device: what plays or is paused is loaded again on the new device; a
\* recovery that is scheduled is given up.
ChangeDevice ==
    /\ Odd
    /\ IF player.status \in {"playing", "paused"}
         THEN Reload(player.index, Autoplay, <<Clear>>, FALSE, 0,
                     [player |-> [player EXCEPT !.status = "error", !.resume = "none"],
                      reports |-> <<Clear>>])
         ELSE Spares([player EXCEPT !.attempts = 0, !.plan = NoPlan], <<>>)

\* handle_track_ended.
TrackEnds ==
    /\ player.status = "playing" /\ player.plan = NoPlan
    /\ IF player.index < Len(player.queue)
         THEN Load(player, player.index + 1, TRUE, StopReport)
         ELSE Tells([player EXCEPT !.status = "stopped"], StopReports)
    /\ SameCount

\* handle_gapless_transition.
GaplessTransition ==
    /\ player.status = "playing" /\ player.index < Len(player.queue) /\ player.play < MaxPlays
    /\ LET new == [player EXCEPT !.index = @ + 1, !.play = @ + 1] IN
       Tells(new, StopReport \o <<Report(new, "playing")>>)
    /\ SameCount

\* Buffering, Ready, Paused, Playing and PlaybackError of Android's player: the
\* status follows, nothing is sent.
NativeState ==
    /\ Odd /\ player.plan = NoPlan
    /\ \/ /\ player.status \in {"playing", "paused"}
          /\ Loses([player EXCEPT !.status = "interrupted", !.resume = player.status], <<>>, TRUE)
       \/ /\ player.resume # "none"
          /\ Loses([player EXCEPT !.status = player.resume, !.resume = "none"], <<>>, TRUE)
       \/ /\ player.status \in Loaded
          /\ \E state \in {"paused", "error"} :
               Loses([player EXCEPT !.status = state, !.resume = "none"], <<>>, TRUE)

\* handle_output_stream_error: a recovery is planned, or its limit is reached.
StreamError ==
    /\ Odd
    /\ player.status \in Loaded /\ player.plan = NoPlan
    /\ IF player.attempts < MaxAttempts
         THEN Loses([player EXCEPT !.status = "interrupted", !.resume = "none",
                       !.plan = [index |-> player.index, autoplay |-> Autoplay,
                                 attempt |-> player.attempts + 1]],
                    <<Clear>>, TRUE)
         ELSE Loses([player EXCEPT !.status = "error", !.resume = "none"],
                    <<Clear, Report(player, "stopped")>>, FALSE)

\* run_output_stream_recovery_attempt.
Recover ==
    /\ player.plan # NoPlan
    /\ LET attempt == player.plan.attempt
           last == attempt = MaxAttempts
           tried == [player EXCEPT !.attempts = attempt]
       IN Reload(player.plan.index, player.plan.autoplay, <<>>, FALSE,
                 attempt,
                 IF last THEN [player |-> [tried EXCEPT !.status = "error", !.plan = NoPlan],
                               reports |-> <<Report(player, "stopped"), Clear>>]
                         ELSE [player |-> [tried EXCEPT !.status = "interrupted",
                                             !.plan.attempt = attempt + 1],
                               reports |-> <<>>])
    /\ SameCount

-----------------------------------------------------------------------------
(* The thread, for a server with the extension and for one without it.     *)

\* Beyond the threshold time is not counted.
Longer(heard) == IF heard < Threshold THEN heard + 1 ELSE heard

\* A heartbeat interval of playing, while the thread has nothing left to receive:
\* it receives in microseconds, and this takes fifteen seconds.
Tick ==
    /\ channel = <<>> /\ count.ticks < MaxTicks /\ player.status = "playing"
    /\ plays' = IF extended \/ plays[player.play].lost THEN plays
                ELSE [plays EXCEPT ![player.play].heard = Longer(@)]
    /\ report' = IF report.state = "playing" THEN [report EXCEPT !.due = TRUE] ELSE report
    /\ fallback' = IF fallback.state = "playing" THEN [fallback EXCEPT !.heard = Longer(@)]
                                                 ELSE fallback
    /\ count' = [count EXCEPT !.ticks = @ + 1]
    /\ UNCHANGED <<extended, player, channel, net, told, stale>>

\* A session repeats the report it was last told.
Session(c) ==
    [due |-> FALSE, state |-> c.state, song |-> c.song, index |-> c.index, play |-> c.play]

\* A report is passed on as it is; "stopped" ends the session it belongs to.
\* Mutant: a session keeps the state it began with.
SessionOfFirst(c) ==
    IF c.state = "stopped" THEN NoReport
    ELSE IF report # NoReport THEN report ELSE Session(c)
SessionAfter(c) == IF c.state = "stopped" THEN NoReport ELSE Session(c)

Extended(c) ==
    /\ net' = Append(net, c) /\ report' = SessionAfter(c) /\ fallback' = NoReport
    /\ UNCHANGED plays

\* FallbackTrackKey, without the profile: another profile drops the session.
Key(f) == <<f.song, f.index>>

\* should_submit_played_scrobble.
Ready(f) == ~f.submitted /\ f.heard >= Threshold

\* The session a report goes to: the current one, or a new one of its own.
NewSession(c) ==
    [heard |-> 0, announced |-> FALSE, submitted |-> FALSE,
     state |-> c.state, song |-> c.song, index |-> c.index, play |-> c.play]
SessionOf(c) ==
    IF fallback # NoReport /\ Key(fallback) = Key(c) THEN [fallback EXCEPT !.state = c.state]
    ELSE NewSession(c)

Announces(f) == f.state = "playing" /\ ~f.announced
\* Mutant: a pause does not submit.
SubmitsAtEnd(f) == f.state = "stopped" /\ Ready(f)
Submits(f) == f.state # "starting" /\ Ready(f)

\* finalize_fallback_scrobble, for a report of another track.
Finalizes(c) == fallback # NoReport /\ Key(fallback) # Key(c) /\ Ready(fallback)

\* Scrobbles of a play are counted to two.
Counted(n, sent) == IF sent /\ n < 2 THEN n + 1 ELSE n

\* handle_fallback_report.
Fallback(c) ==
    LET f == SessionOf(c)
        submitting == (IF Submits(f) THEN {f.play} ELSE {})
        finalized == (IF Finalizes(c) THEN {fallback.play} ELSE {})
        announcing == (IF Announces(f) THEN {f.play} ELSE {})
    IN /\ plays' = [p \in Plays |->
                      IF plays[p].lost THEN plays[p] ELSE
                      [plays[p] EXCEPT !.submitted = Counted(@, p \in submitting \cup finalized),
                                       !.announced = Counted(@, p \in announcing)]]
       /\ fallback' = IF c.state = "stopped" THEN NoReport
                      ELSE [f EXCEPT !.announced = @ \/ Announces(f),
                                     !.submitted = @ \/ Submits(f)]
       /\ report' = NoReport
       /\ UNCHANGED net

\* recv_timeout with a message.
Receive ==
    /\ channel # <<>>
    /\ channel' = Tail(channel)
    /\ LET c == Head(channel) IN
       IF c.state = "clear"
         THEN report' = NoReport /\ fallback' = NoReport /\ UNCHANGED <<net, plays>>
         ELSE IF extended THEN Extended(c) ELSE Fallback(c)
    /\ UNCHANGED <<extended, player, told, stale, count>>

\* recv_timeout without one.
Heartbeat ==
    /\ channel = <<>> /\ report.state = "playing" /\ report.due
    /\ net' = Append(net, [Clear EXCEPT !.state = "playing", !.song = report.song,
                                        !.index = report.index, !.play = report.play])
    /\ report' = [report EXCEPT !.due = FALSE]
    /\ UNCHANGED <<extended, player, channel, fallback, told, plays, stale, count>>

\* A request of spawn_report_playback reaches the server.
Deliver ==
    /\ \E i \in DOMAIN net :
         /\ i <= 1 + Overtakes
         /\ net' = RemoveAt(net, i) /\ told' = net[i]
         /\ plays' = IF net[i].state = "stopped" /\ net[i].play \in Plays
                       THEN [plays EXCEPT ![net[i].play].closed = TRUE] ELSE plays
    /\ UNCHANGED <<extended, player, channel, report, fallback, stale, count>>

-----------------------------------------------------------------------------
Command == Play \/ PlayIndex \/ Move \/ Pause \/ Stop \/ Seek \/ RemoveCurrent \/ ShiftCurrent
             \/ Replace \/ ChangeDevice
Native == TrackEnds \/ GaplessTransition \/ NativeState \/ StreamError \/ Recover

Next == Command \/ Native \/ Tick \/ Receive \/ Heartbeat \/ Deliver

\* The thread and the runtime that carries its requests keep running.
Spec == Init /\ [][Next]_vars /\ WF_vars(Receive) /\ WF_vars(Deliver)

-----------------------------------------------------------------------------
(* Properties *)

\* What the server was told last, once all that was sent has arrived: the song
\* that plays or is paused and which of the two, and never that something plays
\* when nothing does (docs/playback_report.md 9-18).  Not while the status has
\* changed without a report.
ServerInStep ==
    extended /\ channel = <<>> /\ net = <<>> /\ ~stale =>
      IF player.status \in {"playing", "paused"}
        THEN told.state = player.status /\ told.song = player.queue[player.index]
        ELSE told.state \notin {"playing", "paused"}

\* The thread has a play to itself: neither it nor the one before it was lost.
Followed(p) == ~plays[p].lost /\ (p > 1 => ~plays[p - 1].lost)

\* One now-playing scrobble for a play that was heard, however often it was
\* paused, resumed, sought or loaded again; and it is registered as played at
\* most once, only when enough of it was heard, and then not later than the
\* pause or the end (docs/playback_report.md 22-28).
PlaysAreScrobbled ==
    ~extended /\ channel = <<>> =>
      \A p \in Plays :
        Followed(p) =>
          /\ plays[p].announced <= 1
          /\ plays[p].heard > 0 => plays[p].announced = 1
          /\ plays[p].submitted <= 1
          /\ plays[p].submitted = 1 => plays[p].heard >= Threshold
          /\ plays[p].heard >= Threshold /\ (player.play # p \/ player.status \in {"paused", "stopped"})
               => plays[p].submitted = 1

\* The server hears of the end of every play that a command, the end of the track
\* or a gapless transition brings about (docs/playback_report.md 14).
EndIsHeard == \A p \in Plays : (extended /\ plays[p].over) ~> plays[p].closed
=============================================================================
