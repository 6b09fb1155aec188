--------------------------- MODULE MCSharedQueue -----------------------------
\* PlayNextMarks, and so SharedPlayback, with two devices and four entries, of
\* which e3 is of a song of its own and the others are occurrences of one song.
EXTENDS PlayNextMarks

CONSTANTS e1, e2, e3, e4, s1, s2

MCEntries == {e1, e2, e3, e4}
MCSongs == {s1, s2}
MCSongOf == [e \in MCEntries |-> IF e = e3 THEN s2 ELSE s1]

Positions == 0 .. MaxQueueLen - 1

\* Local states a device can hold: playing within a queue, an idle empty one,
\* a queue loaded without a current entry, and an index out of range.
Local(queue, index, len, playing) ==
    [queue |-> queue, currentIndex |-> index, playNextQueueLen |-> len,
     playingState |-> playing, position |-> Later,
     queueRevision |-> 7, queueIndexMap |-> EmptyMap]

MCPushed ==
    {Local(<<e2, e3, e1>>, 0, 1, "playing"), Local(<<>>, NoIndex, 0, "error"),
     Local(<<e2, e1>>, NoIndex, 0, "stopped"), Local(<<e1>>, 1, 0, "paused")}

MCCommands ==
    [op: {"setQueue"}, queue: {<<>>, <<e1, e2>>, <<e1, e3, e2, e4>>}, index: {NoIndex, 1}]
        \cup [op: {"insertAfterCurrent"}, items: {<<>>, <<e3>>, <<e3, e4>>}]
        \cup [op: {"appendToQueue"}, items: {<<>>, <<e4>>}]
        \cup [op: {"moveQueueIndices"}, indices: {{}, {1}, {0, 2}, {2, 3}}, insertBefore: {0, 2, 4}]
        \cup [op: {"removeQueueIndex", "playQueueIndex"}, index: Positions]
        \cup [op: {"removeQueueIndices"}, indices: {{}, {0, 1}, {1, 2}, {1}, {0, 3}, {0,1,2}}]
        \cup [op: {"clearQueue"}]
        \cup [op: {"pushState"}, state: MCPushed]

MCReports ==
    [index: 0 .. 1, song: MCSongs, playingState: {"playing", "interrupted"},
     position: {Later}]
=============================================================================
