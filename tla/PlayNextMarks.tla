---------------------------- MODULE PlayNextMarks ----------------------------
(***************************************************************************)
(* SharedPlayback with a history of what was explicitly enqueued with      *)
(* "play next".  playNextQueueLen is not derivable from the queue: entries *)
(* carry no marker (docs/playback-queue-semantics.md), so every operation  *)
(* must maintain it.  Here entries do carry one, and the region the length *)
(* describes is compared with the marked entries.                          *)
(*                                                                         *)
(* Entries are told apart by identity: a command adds only entries the     *)
(* queue does not hold (two of them may still be of one song).             *)
(***************************************************************************)
EXTENDS SharedPlayback, Functions

VARIABLE marked     \* entries of the queue enqueued with insertAfterCurrent

marksVars == <<shared, online, marked>>

RegionEntries(s) ==
    {ItemAt(s.queue, i) :
        i \in PlayNextRegion(Len(s.queue), s.currentIndex, s.playNextQueueLen)}

Fresh(cmd) ==
    cmd.op \in {"insertAfterCurrent", "appendToQueue"}
        => Range(cmd.items) \cap Range(shared.state.queue) = {}

\* Moves treat the region by position (documented), and a pushed state is
\* taken at its word; every other command keeps the marks of what it keeps.
MarkedAfter(cmd, s, next) ==
    LET marks == CASE cmd.op = "insertAfterCurrent" /\ s.currentIndex = NoIndex -> RegionEntries(next)
                   [] cmd.op = "insertAfterCurrent" /\ s.currentIndex # NoIndex
                        -> marked \cup Range(cmd.items)
                   [] cmd.op \in {"moveQueueIndices", "pushState"} -> RegionEntries(next)
                   [] cmd.op = "setQueue" -> {}
                   [] OTHER -> marked
    IN  marks \cap Range(next.queue)

MarksInit == Init /\ marked = {}

MarkingCommand(d, cmd, elapsed) ==
    /\ Fresh(cmd)
    /\ QueueCommand(d, cmd, elapsed)
    /\ marked' = MarkedAfter(cmd, shared.state, shared'.state)

OtherStep(d, elapsed) ==
    /\ \/ ControlCommand(d, elapsed)
       \/ \E target \in Devices : TransferPlayback(d, target, elapsed)
       \/ \E report \in Reports : PlaybackReport(d, report, elapsed)
       \/ Register(d)
       \/ Unregister(d, elapsed)
    /\ UNCHANGED marked

MarksNext ==
    \E d \in Devices, elapsed \in BOOLEAN :
        \/ \E cmd \in Commands : MarkingCommand(d, cmd, elapsed)
        \/ OtherStep(d, elapsed)

MarksSpec == MarksInit /\ [][MarksNext]_marksVars

-----------------------------------------------------------------------------
\* The shared invariant of docs/playback-queue-semantics.md: the entries the
\* play-next region covers were explicitly enqueued with "play next", through
\* any sequence of edits, jumps, reports and disconnects.
RegionWasPlayNext == RegionEntries(shared.state) \subseteq marked

\* "The play-next entries that survive stay contiguous right after the current
\* entry": whatever leaves the current entry current or removes it keeps every
\* surviving entry of the region in it, but for the one that becomes current.
CurrentEntry(s) == ItemAt(s.queue, s.currentIndex)

EditsKeepRegion ==
    [][LET old == shared.state
           new == shared'.state
       IN  /\ old.currentIndex # NoIndex /\ new.currentIndex # NoIndex
           /\ CurrentEntry(old) \in Range(new.queue) => CurrentEntry(new) = CurrentEntry(old)
           => (RegionEntries(old) \cap marked') \ {CurrentEntry(new)} \subseteq RegionEntries(new)
      ]_marksVars
=============================================================================
