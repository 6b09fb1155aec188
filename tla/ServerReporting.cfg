SPECIFICATION Spec
CONSTANTS
    s1 = s1
    s2 = s2
    Songs = {s1, s2}
    NoSong = NoSong
    Start <- MCStart
    MaxAttempts = 1
    Threshold = 2
    Overtakes = 0
    MaxPlays = 2
    MaxTicks = 3
    MaxOdd = 2
    MaxBehind = 1
INVARIANTS  PlaysAreScrobbled
PROPERTIES EndIsHeard
CHECK_DEADLOCK FALSE
