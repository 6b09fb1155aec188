---------------------------- MODULE SharedPlayback ---------------------------
(***************************************************************************)
(* One room of the Connect server (one user) as its handlers mean it: the  *)
(* shared playback state as a register on which every message and every    *)
(* disconnect acts in one step.  Each action is a whole handler of         *)
(* server/internal/realtime/hub.go: read the state as of now, reduce it,   *)
(* save it.  ConnectHub takes the handlers apart into the steps that       *)
(* interleave, and is checked against this module.                         *)
(*                                                                         *)
(* A message the hub answers with an error changes nothing and has no      *)
(* action here; ConnectHub models the answers.                             *)
(***************************************************************************)
EXTENDS PlaybackRoom

CONSTANTS
    MaxQueueLen,    \* bound: longest queue
    MaxSeq          \* bound: number of sequenced changes

ASSUME BoundsAssumption == MaxQueueLen \in Nat /\ MaxSeq \in Nat

VARIABLES
    shared,     \* the stored row: seq, active device, playback state
    online      \* the devices with a registered connection

vars == <<shared, online>>

-----------------------------------------------------------------------------
Init ==
    /\ shared = NoShared
    /\ online = {}

InBounds(sh) == sh.seq <= MaxSeq /\ Len(sh.state.queue) <= MaxQueueLen

QueueCommand(d, cmd, elapsed) ==
    LET current == AsOfNow(shared, elapsed)
    IN  /\ d \in online
        /\ Accepts(current.state, cmd)
        /\ shared' = AfterCommand(current, cmd, d)
        /\ InBounds(shared')
        /\ UNCHANGED online

ControlCommand(d, elapsed) ==
    LET current == AsOfNow(shared, elapsed)
    IN  /\ d \in online
        /\ current.active = NoDevice
        /\ shared' = AfterControl(current, d)
        /\ InBounds(shared')
        /\ UNCHANGED online

TransferPlayback(d, target, elapsed) ==
    LET current == AsOfNow(shared, elapsed)
    IN  /\ d \in online
        /\ target \in online
        /\ TransferAccepted(current, target)
        /\ shared' = AfterTransfer(current, target)
        /\ InBounds(shared')
        /\ UNCHANGED online

PlaybackReport(d, report, elapsed) ==
    LET current == AsOfNow(shared, elapsed)
    IN  /\ d \in online
        /\ ReportAccepted(current, report, d)
        /\ shared' = AfterReport(current, report, d)
        /\ UNCHANGED online

Register(d) ==
    /\ online' = online \cup {d}
    /\ UNCHANGED shared

Unregister(d, elapsed) ==
    /\ d \in online
    /\ online' = online \ {d}
    /\ shared' = IF shared.active = d THEN AfterFreeze(AsOfNow(shared, elapsed))
                 ELSE shared
    /\ InBounds(shared')

Next ==
    \E d \in Devices, elapsed \in BOOLEAN :
        \/ \E cmd \in Commands : QueueCommand(d, cmd, elapsed)
        \/ ControlCommand(d, elapsed)
        \/ \E target \in Devices : TransferPlayback(d, target, elapsed)
        \/ \E report \in Reports : PlaybackReport(d, report, elapsed)
        \/ Register(d)
        \/ Unregister(d, elapsed)

Spec == Init /\ [][Next]_vars

-----------------------------------------------------------------------------
\* Type correctness: the stored state is always one that decoding returns
\* unchanged (index inside the queue, play-next region inside what follows
\* it, an empty queue without index, region, position or playing state), so
\* no reducer leaves it to the next reader to repair.
TypeOK ==
    /\ WellFormedShared(shared)
    /\ online \subseteq Devices

\* The active device has a registered connection: a disconnect releases it,
\* and whatever makes a device active is sent by, or checked against, an
\* online device (TestActiveOfflineClearsActiveDeviceAndStopsPlayback).
ActiveIsOnline == shared.active \in online \cup {NoDevice}

\* A device names the state its command is based on by the sequence number
\* alone (baseSeq), and a message with the number of the last one is taken for
\* the same queue: the queue never changes under an unchanged number, and the
\* number never goes back.
QueueChangeIsSequenced ==
    [][/\ shared'.seq >= shared.seq
       /\ shared'.seq = shared.seq
             => /\ shared'.state.queue = shared.state.queue
                /\ shared'.state.queueRevision = shared.state.queueRevision
      ]_vars

\* The rule of docs/playback-queue-semantics.md for queueRevision and
\* queueIndexMap: a change of the queue advances the revision by one and
\* leaves the new index of every previous entry (or an empty map), such that
\* no two entries share an index and every other entry is new; an operation
\* that does not touch the queue leaves both alone.
QueueRevisionFollowsQueue ==
    [][RevisionFollows(shared.state, shared'.state)]_vars

\* An edit of the queue that leaves the current entry in it.
EditKeepsCurrent(old, new) ==
    /\ new.queueRevision = old.queueRevision + 1
    /\ Len(new.queueIndexMap) = Len(old.queue)
    /\ old.currentIndex # NoIndex
    /\ ItemAt(new.queueIndexMap, old.currentIndex) # Gone

\* Inserting, appending, moving and removing around the current entry never
\* makes another entry current: the index follows it through the edit.
QueueEditsKeepCurrentEntry ==
    [][EditKeepsCurrent(shared.state, shared'.state)
         => shared'.state.currentIndex
              = ItemAt(shared'.state.queueIndexMap, shared.state.currentIndex)]_vars

\* Such an edit does not rewind it either: queue commands keep the position,
\* TestQueueCommandsKeepPositionElapsedSinceLastReport.  TLC refutes it.
QueueEditsKeepPosition ==
    [][EditKeepsCurrent(shared.state, shared'.state)
         => shared'.state.position >= shared.state.position]_vars
=============================================================================
