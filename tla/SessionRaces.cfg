SPECIFICATION Spec
CONSTANTS
    none = none
    q1 = q1
    q2 = q2
    Empty = none
    Mine = {none, q1}
    Theirs = {none, q2}
    Resumes = {"playing"}
    MaxGeneration = 2
    MaxSeq = 2
    MaxWaiting = 1
    Races = {"restart", "choice", "push", "backend"}
INVARIANT ApplyMarked
PROPERTIES PushEnds
CHECK_DEADLOCK FALSE
