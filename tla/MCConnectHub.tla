----------------------------- MODULE MCConnectHub ----------------------------
\* ConnectHub with two entries and few commands: enough for a queue that
\* grows, a state taken from a device, and reports of a song that is queued.
EXTENDS ConnectHub

CONSTANTS e1, e2, s1, d1, d2, c1, c2, c3

MCEntries == {e1, e2}
MCSongs == {s1}
MCSongOf == [e \in MCEntries |-> s1]

\* c1 and c3 are connections of one device.
MCDeviceOf == [c \in Connections |-> IF c = c2 THEN d2 ELSE d1]

MCPushed ==
    [queue |-> <<e2>>, currentIndex |-> 0, playNextQueueLen |-> 0,
     playingState |-> "playing", position |-> Later,
     queueRevision |-> 7, queueIndexMap |-> EmptyMap]

MCQueueCommands ==
    [op: {"setQueue"}, queue: {<<e1>>}, index: {NoIndex}]
        \cup [op: {"appendToQueue"}, items: {<<e2>>}]
MCPush == [op: {"pushState"}, state: {MCPushed}]
MCCommands == MCQueueCommands \cup MCPush

MCReports ==
    [index: {0}, song: MCSongs, playingState: {"playing"}, position: {AtStart}]
=============================================================================
