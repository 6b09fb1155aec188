---------------------------- MODULE PlaybackRoom -----------------------------
(***************************************************************************)
(* A room of the Connect server (one user): its stored row, and what each  *)
(* kind of request of server/internal/realtime/hub.go makes of it around   *)
(* the queue reducer: sequence number, active device, and the conditions   *)
(* under which the request is refused.  Constant-level only.               *)
(***************************************************************************)
EXTENDS PlaybackQueue

CONSTANTS
    Devices,        \* devices of the user
    NoDevice,       \* the empty active device id
    Commands,       \* the commands devices send
    Reports         \* the playback reports devices send

Command ==
    [op: {"setQueue"}, queue: Seq(Entries), index: Nat \cup {NoIndex}]
        \cup [op: {"insertAfterCurrent", "appendToQueue"}, items: Seq(Entries)]
        \cup [op: {"moveQueueIndices"}, indices: SUBSET Nat, insertBefore: Nat]
        \cup [op: {"removeQueueIndex", "playQueueIndex"}, index: Nat]
        \cup [op: {"removeQueueIndices"}, indices: SUBSET Nat]
        \cup [op: {"clearQueue"}]
        \cup [op: {"pushState"}, state: PlaybackState]

Report == [index: Nat \cup {NoIndex}, song: Songs,
           playingState: PlayingStates, position: {AtStart, Later}]

ASSUME CommandsAssumption == Commands \subseteq Command
ASSUME ReportsAssumption == Reports \subseteq Report
ASSUME NoDeviceAssumption == NoDevice \notin Devices

\* The stored row: sequence number, active device, playback state.
SharedState == [seq: Nat, active: Devices \cup {NoDevice}, state: PlaybackState]

\* A stored row the handlers can start from.
WellFormedShared(sh) == sh \in SharedState /\ WellFormed(sh.state)

NoShared == [seq |-> 0, active |-> NoDevice, state |-> EmptyPlaybackState]

-----------------------------------------------------------------------------
\* While playing, the position moves on between reports (advanceToNow); how
\* much time went by is the environment's choice.
AsOfNow(sh, elapsed) ==
    IF elapsed /\ sh.state.playingState = "playing"
    THEN [sh EXCEPT !.state.position = Later] ELSE sh

\* The device that becomes active when a command finds none.
Claimed(active, d) == IF active = NoDevice THEN d ELSE active

\* A queue command that leaves the queue empty claims nothing.
ActiveAfter(current, cmd, d) ==
    IF cmd.op = "pushState" THEN d
    ELSE IF cmd.op \in QueueOps /\ Reduced(current.state, cmd).queue = <<>>
    THEN current.active
    ELSE Claimed(current.active, d)

\* Mutant: queue commands do not count.
AfterCommandUncounted(current, cmd, d) ==
    [seq |-> current.seq, active |-> ActiveAfter(current, cmd, d),
     state |-> Reduced(current.state, cmd)]

\* reduceQueueCommand, reducePlayQueueIndexCommand and reducePushStateCommand
\* around the reduction of the state.
AfterCommand(current, cmd, d) ==
    IF IsNoop(cmd) THEN current
    ELSE [seq |-> current.seq + 1, active |-> ActiveAfter(current, cmd, d),
          state |-> Reduced(current.state, cmd)]

\* handlePlaybackReport: the sequence number stays.
AfterReport(current, report, d) ==
    [current EXCEPT !.active = Claimed(@, d),
                    !.state = Normalized(MergeReport(current.state, report))]

ReportAccepted(current, report, d) ==
    /\ current.active \in {NoDevice, d}
    /\ ReportMatches(current.state, report) # {}

\* reduceTransferCommand, once the target was seen online.
TransferAccepted(current, target) ==
    /\ current.active # target
    /\ current.state.queue # <<>>

AfterTransfer(current, target) ==
    [current EXCEPT !.seq = @ + 1, !.active = target]

\* freezeActiveDeviceIfOffline, once the device was seen offline.
AfterFreeze(current) ==
    [current EXCEPT !.seq = @ + 1, !.active = NoDevice,
                    !.state = Normalized([@ EXCEPT !.playingState = StoppedOrIdle(current.state.queue)])]

\* play, pause, stop, seek, next, prev only claim the active device.
AfterControl(current, d) ==
    [current EXCEPT !.seq = @ + 1, !.active = d]
=============================================================================
