-------------------------- MODULE MCServerReporting --------------------------
\* ServerReporting with two songs, one after the other in the queue.
EXTENDS ServerReporting

CONSTANTS s1, s2

MCStart == <<s1, s2>>
=============================================================================
