SPECIFICATION Spec
CONSTANTS
    Tracks = {t1, t2, t3}
    NoTrack = NoTrack
    MaxCalls = 3
INVARIANT OneOwner
PROPERTIES TransitionIsHeard 
CHECK_DEADLOCK FALSE
