--------------------------- MODULE MCConnectSession --------------------------
EXTENDS ConnectSession, TLC

CONSTANTS none, q1, q2

\* What is in a queue does not matter.
QueuesAlike == Permutations({q1, q2})
=============================================================================
