------------------------ MODULE MCPlaybackController ------------------------
\* PlaybackController with three entries, the first and the last of one song.
EXTENDS PlaybackController

CONSTANTS e1, e2, e3, s1, s2

MCEntries == {e1, e2, e3}
MCSongs == {s1, s2}
MCSongOf == [e \in MCEntries |-> IF e = e2 THEN s2 ELSE s1]
MCTroubles == {Desktop, Android}
MCQueues == {<<e1, e2>>, <<e1, e2, e3>>}
=============================================================================
