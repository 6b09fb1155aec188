SPECIFICATION Spec
CONSTANTS
    none = none
    q1 = q1
    q2 = q2
    Empty = none
    Mine = {none, q1, q2}
    Theirs = {none, q1, q2}
    Resumes = {}
    MaxGeneration = 2
    MaxSeq = 3
    MaxWaiting = 2
    Races = {}
INVARIANTS ForgottenStaysForgotten 
 
SYMMETRY QueuesAlike
CHECK_DEADLOCK FALSE
