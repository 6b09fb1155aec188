---------------------------- MODULE PlaybackQueue ----------------------------
(***************************************************************************)
(* The queue reducer of the Connect server, server/internal/realtime/      *)
(* hub.go: what every queue command, playback report and pushState does to *)
(* the shared playback state, and the arithmetic of the play-next region   *)
(* it rests on.  Constant-level only; SharedPlayback and ConnectHub are    *)
(* the state machines that use it.                                         *)
(*                                                                         *)
(* Abstractions.  A queue entry (a raw JSON song) is an element of         *)
(* Entries, its id is SongOf[entry].  Indices are 0-based as in the code,  *)
(* the nil index is NoIndex.  currentPositionMs is AtStart (0 ms) or Later *)
(* (any positive value).  currentSongId is not stored: normalising always  *)
(* derives it from the queue and the index.  A nil revision counts as 0.   *)
(***************************************************************************)
EXTENDS Integers, Sequences, FiniteSets

CONSTANTS
    Entries,    \* occurrences of songs in queues
    Songs,      \* song ids
    SongOf      \* the song an entry is an occurrence of

ASSUME SongOfAssumption == SongOf \in [Entries -> Songs]

NoIndex == -1
Gone == -1          \* what an index map says of a removed entry
AtStart == 0
Later == 1

PlayingStates == {"idle", "playing", "paused", "stopped", "interrupted", "error"}
LoadedStates == {"playing", "paused", "interrupted"}

EmptyMap == <<>>
Indices(list) == 0 .. Len(list) - 1
ItemAt(list, i) == list[i + 1]
SongAt(queue, i) == SongOf[ItemAt(queue, i)]

PlaybackState ==
    [queue: Seq(Entries), currentIndex: Int, playNextQueueLen: Int,
     playingState: PlayingStates, position: {AtStart, Later},
     queueRevision: Nat, queueIndexMap: Seq(Int)]

EmptyPlaybackState ==
    [queue |-> <<>>, currentIndex |-> NoIndex, playNextQueueLen |-> 0,
     playingState |-> "idle", position |-> AtStart,
     queueRevision |-> 0, queueIndexMap |-> EmptyMap]

StoppedOrIdle(queue) == IF queue = <<>> THEN "idle" ELSE "stopped"

-----------------------------------------------------------------------------
(* The play-next region: [start, start + length) after the current entry.  *)

PlayNextStart(n, current) ==
    IF current = NoIndex THEN 0 ELSE IF current + 1 > n THEN n ELSE current + 1

ClampedPlayNextLen(n, current, len) ==
    IF len <= 0 THEN 0
    ELSE IF len > n - PlayNextStart(n, current) THEN n - PlayNextStart(n, current)
    ELSE len

PlayNextEnd(n, current, len) ==
    PlayNextStart(n, current) + ClampedPlayNextLen(n, current, len)

PlayNextRegion(n, current, len) ==
    PlayNextStart(n, current) .. PlayNextEnd(n, current, len) - 1

\* Mutant: a jump elsewhere does not drop the region.
AdjustedPlayNextLenKept(n, previous, len, next) == ClampedPlayNextLen(n, next, len)

\* Moving to an entry of the region consumes it and everything before it;
\* moving anywhere else drops the region.
AdjustedPlayNextLen(n, previous, len, next) ==
    IF len <= 0 THEN 0
    ELSE IF previous = next THEN ClampedPlayNextLen(n, next, len)
    ELSE IF next \notin PlayNextRegion(n, previous, len) THEN 0
    ELSE PlayNextEnd(n, previous, len) - next - 1

-----------------------------------------------------------------------------
(* Index maps: the new index of every entry of the previous queue.         *)

\* Mutant: the entry at the insertion point stays where it was.
InsertedIndexMapOffByOne(n, at, count) ==
    [k \in 1 .. n |-> IF k - 1 > at THEN k - 1 + count ELSE k - 1]

InsertedIndexMap(n, at, count) ==
    [k \in 1 .. n |-> IF k > at THEN k - 1 + count ELSE k - 1]

MovedIndexMap(n, moving, insertBefore) ==
    LET insertAt == insertBefore - Cardinality({i \in moving : i < insertBefore})
        staying(i) == Cardinality((0 .. i - 1) \ moving)
        ahead(i) == Cardinality((0 .. i - 1) \cap moving)
        newIndex(i) == IF i \in moving THEN insertAt + ahead(i)
                       ELSE IF staying(i) >= insertAt
                       THEN staying(i) + Cardinality(moving) ELSE staying(i)
    IN  [k \in 1 .. n |-> newIndex(k - 1)]

RemovedIndexMap(n, removing) ==
    [k \in 1 .. n |->
        IF k - 1 \in removing THEN Gone ELSE Cardinality((0 .. k - 2) \ removing)]

Survivors(map) == {i \in Indices(map) : ItemAt(map, i) # Gone}

ApplyIndexMap(queue, map) ==
    [k \in 1 .. Cardinality(Survivors(map)) |->
        ItemAt(queue, CHOOSE i \in Survivors(map) : ItemAt(map, i) = k - 1)]

\* recordQueueChange, together with the queue it records.
RecordQueueChange(s, queue, map) ==
    [s EXCEPT !.queue = queue, !.queueRevision = @ + 1, !.queueIndexMap = map]

\* What an index map promises about two queues: every entry that survives is
\* at the index the map says, and no two of them at the same one.
MapTracks(old, new, map) ==
    /\ Len(map) = Len(old)
    /\ \A i \in Survivors(map) :
          /\ ItemAt(map, i) \in Indices(new)
          /\ ItemAt(new, ItemAt(map, i)) = ItemAt(old, i)
          /\ \A j \in Survivors(map) : ItemAt(map, i) = ItemAt(map, j) => i = j

\* What revision and index map promise to a device that holds the older state:
\* the queue is the same one, or the next one, and the map leads to it.
RevisionFollows(old, new) ==
    \/ /\ new.queueRevision = old.queueRevision
       /\ new.queue = old.queue
       /\ new.queueIndexMap = old.queueIndexMap
    \/ /\ new.queueRevision = old.queueRevision + 1
       /\ \/ new.queueIndexMap = EmptyMap
          \/ MapTracks(old.queue, new.queue, new.queueIndexMap)

\* Where in its queue a state is.
Located(s, index, len, position, playing) ==
    [s EXCEPT !.currentIndex = index, !.playNextQueueLen = len,
              !.position = position, !.playingState = playing]

-----------------------------------------------------------------------------
(* Normalising, which decoding and encoding both do.                       *)

ValidState(s) ==
    /\ s.playNextQueueLen >= 0
    /\ s.queue # <<>> => s.currentIndex \in Indices(s.queue) \cup {NoIndex}

NormalPlayingState(queue, playing) ==
    IF queue = <<>> /\ playing \in {"stopped", "paused", "playing"} THEN "idle"
    ELSE IF queue # <<>> /\ playing = "idle" THEN "stopped"
    ELSE playing

Normalized(s) ==
    LET playing == NormalPlayingState(s.queue, s.playingState)
        len == ClampedPlayNextLen(Len(s.queue), s.currentIndex, s.playNextQueueLen)
    IN  IF s.queue = <<>> THEN Located(s, NoIndex, 0, AtStart, playing)
        ELSE Located(s, s.currentIndex, len, s.position, playing)

\* The states decoding returns: what every handler starts from.
WellFormed(s) ==
    /\ s \in PlaybackState
    /\ ValidState(s)
    /\ Normalized(s) = s

-----------------------------------------------------------------------------
(* The queue commands.  Each is total; Accepts says when it is not refused.*)

SetQueue(s, queue, index) ==
    LET current == IF queue = <<>> THEN NoIndex ELSE IF index = NoIndex THEN 0 ELSE index
    IN  Located(RecordQueueChange(s, queue, EmptyMap),
                current, 0, AtStart, StoppedOrIdle(queue))

\* insertAfterCurrent and appendToQueue give a queue without a current entry one.
WithCurrent(s) ==
    IF s.currentIndex # NoIndex THEN s
    ELSE Located(s, 0, s.playNextQueueLen, AtStart, StoppedOrIdle(s.queue))

InsertAfterCurrent(s, items) ==
    LET n == Len(s.queue)
        at == PlayNextEnd(n, s.currentIndex, s.playNextQueueLen)
        queue == SubSeq(s.queue, 1, at) \o items \o SubSeq(s.queue, at + 1, n)
        inserted == RecordQueueChange(s, queue, InsertedIndexMap(n, at, Len(items)))
    IN  WithCurrent([inserted EXCEPT !.playNextQueueLen = @ + Len(items)])

AppendToQueue(s, items) ==
    LET n == Len(s.queue)
        appended == RecordQueueChange(s, s.queue \o items, InsertedIndexMap(n, n, 0))
    IN  WithCurrent([appended EXCEPT
                        !.playNextQueueLen = IF s.currentIndex = NoIndex THEN 0 ELSE @])

MoveQueueIndices(s, moving, insertBefore) ==
    LET n == Len(s.queue)
        map == MovedIndexMap(n, moving, insertBefore)
        current == IF s.currentIndex = NoIndex THEN NoIndex
                   ELSE ItemAt(map, s.currentIndex)
        len == AdjustedPlayNextLen(n, s.currentIndex, s.playNextQueueLen, current)
    IN  IF \A i \in Indices(map) : ItemAt(map, i) = i THEN s
        ELSE Located(RecordQueueChange(s, ApplyIndexMap(s.queue, map), map),
                     current, len, s.position, s.playingState)

\* What removeQueueIndex and removeQueueIndices leave when nothing survives.
RemovedAll(s, map) ==
    Located(RecordQueueChange(s, <<>>, map), NoIndex, 0, AtStart, "idle")

\* Mutant: removing an earlier entry does not shift the index.
CurrentAfterRemovalNoShift(n, current, index) ==
    IF current = index /\ index >= n - 1 THEN n - 2 ELSE current

CurrentAfterRemoval(n, current, index) ==
    IF current > index THEN current - 1
    ELSE IF current = index /\ index >= n - 1 THEN n - 2
    ELSE current

\* Mutant: whatever is removed shortens the region.
ConsumesPlayNextAlways(s, index) == s.playNextQueueLen > 0

ConsumesPlayNext(s, index) ==
    /\ s.playNextQueueLen > 0
    /\ \/ s.currentIndex = index
       \/ index \in PlayNextRegion(Len(s.queue), s.currentIndex, s.playNextQueueLen)

\* The position is reset whenever the resulting index equals the removed one.
RemoveQueueIndex(s, index) ==
    LET n == Len(s.queue)
        map == RemovedIndexMap(n, {index})
        current == CurrentAfterRemoval(n, s.currentIndex, index)
        len == IF ConsumesPlayNext(s, index)
               THEN s.playNextQueueLen - 1 ELSE s.playNextQueueLen
    IN  IF n = 1 THEN RemovedAll(s, map)
        ELSE Located(RecordQueueChange(s, ApplyIndexMap(s.queue, map), map),
                     current, ClampedPlayNextLen(n - 1, current, len),
                     IF current = index THEN AtStart ELSE s.position, s.playingState)

RemoveQueueIndices(s, removing) ==
    LET n == Len(s.queue)
        map == RemovedIndexMap(n, removing)
        removingCurrent == s.currentIndex \in removing
        after == {i \in Survivors(map) : i > s.currentIndex}
        hasReplacement == removingCurrent /\ after # {}
        replacement == CHOOSE i \in after : \A j \in after : i <= j
        survivingPlayNext ==
            {i \in Survivors(map) :
                /\ ~(hasReplacement /\ i = replacement)
                /\ i \in PlayNextRegion(n, s.currentIndex, s.playNextQueueLen)}
        left == Cardinality(Survivors(map))
        current == IF s.currentIndex = NoIndex THEN NoIndex
                   ELSE IF ~removingCurrent THEN ItemAt(map, s.currentIndex)
                   ELSE IF hasReplacement THEN ItemAt(map, replacement)
                   ELSE left - 1
    IN  IF left = 0 THEN RemovedAll(s, map)
        ELSE Located(RecordQueueChange(s, ApplyIndexMap(s.queue, map), map),
                     current,
                     ClampedPlayNextLen(left, current, Cardinality(survivingPlayNext)),
                     IF removingCurrent THEN AtStart ELSE s.position,
                     IF ~removingCurrent THEN s.playingState
                     ELSE IF hasReplacement /\ s.playingState \in LoadedStates
                     THEN "paused" ELSE "stopped")

ClearQueue(s) ==
    RecordQueueChange([EmptyPlaybackState EXCEPT !.queueRevision = s.queueRevision],
                      <<>>, EmptyMap)

\* pushState: the sender's whole state, under the shared revision.
PushState(s, state) ==
    RecordQueueChange([state EXCEPT !.queueRevision = s.queueRevision],
                      state.queue, EmptyMap)

PlayQueueIndex(s, index) ==
    Located(s, index,
            AdjustedPlayNextLen(Len(s.queue), s.currentIndex, s.playNextQueueLen, index),
            AtStart, StoppedOrIdle(s.queue))

-----------------------------------------------------------------------------
(* A playback report of the active device: where it is, by its own queue.  *)

ReportMatches(s, report) ==
    {i \in Indices(s.queue) : SongAt(s.queue, i) = report.song}

\* The reported index if the reported song is there, else the first entry of
\* that song; NoIndex when the shared queue does not hold it.
CompatibleReportIndex(s, report) ==
    LET matches == ReportMatches(s, report)
    IN  IF report.index \in matches THEN report.index
        ELSE IF matches = {} THEN NoIndex
        ELSE CHOOSE i \in matches : \A j \in matches : i <= j

MergeReport(s, report) ==
    LET index == CompatibleReportIndex(s, report)
    IN  Located(s, index,
                AdjustedPlayNextLen(Len(s.queue), s.currentIndex, s.playNextQueueLen, index),
                report.position, report.playingState)

-----------------------------------------------------------------------------
(* Commands as the wire carries them, and the reducer that dispatches them.*)

QueueOps == {"setQueue", "insertAfterCurrent", "appendToQueue", "moveQueueIndices",
             "removeQueueIndex", "removeQueueIndices", "clearQueue"}

\* The operations that reduce the state; the others only route.
ReducedOps == QueueOps \cup {"pushState", "playQueueIndex"}

Reduced(s, cmd) ==
    Normalized(
        CASE cmd.op = "setQueue" -> SetQueue(s, cmd.queue, cmd.index)
          [] cmd.op = "insertAfterCurrent" -> InsertAfterCurrent(s, cmd.items)
          [] cmd.op = "appendToQueue" -> AppendToQueue(s, cmd.items)
          [] cmd.op = "moveQueueIndices" -> MoveQueueIndices(s, cmd.indices, cmd.insertBefore)
          [] cmd.op = "removeQueueIndex" -> RemoveQueueIndex(s, cmd.index)
          [] cmd.op = "removeQueueIndices" -> RemoveQueueIndices(s, cmd.indices)
          [] cmd.op = "clearQueue" -> ClearQueue(s)
          [] cmd.op = "pushState" -> PushState(s, cmd.state)
          [] cmd.op = "playQueueIndex" -> PlayQueueIndex(s, cmd.index))

\* insertAfterCurrent and appendToQueue of nothing return the state as it was.
IsNoop(cmd) == cmd.op \in {"insertAfterCurrent", "appendToQueue"} /\ cmd.items = <<>>

Accepts(s, cmd) ==
    CASE cmd.op = "setQueue" ->
            cmd.queue # <<>> => cmd.index \in 0 .. Len(cmd.queue) - 1 \cup {NoIndex}
      [] cmd.op = "moveQueueIndices" ->
            /\ cmd.indices # {} /\ cmd.indices \subseteq Indices(s.queue)
            /\ cmd.insertBefore \in 0 .. Len(s.queue)
      [] cmd.op = "removeQueueIndices" ->
            cmd.indices # {} /\ cmd.indices \subseteq Indices(s.queue)
      [] cmd.op \in {"removeQueueIndex", "playQueueIndex"} -> cmd.index \in Indices(s.queue)
      [] cmd.op = "pushState" -> ValidState(cmd.state)
      [] OTHER -> TRUE
=============================================================================
