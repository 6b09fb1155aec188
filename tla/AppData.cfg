SPECIFICATION Spec
CONSTANTS
    None = None
    t1 = t1
    t2 = t2
    w1 = w1
    w2 = w2
    p1 = p1
    p2 = p2
    a1 = a1
    a2 = a2
    small = small
    large = large
    artist = artist
    Tasks = {t1, t2}
    Workers = {w1, w2}
    Main = Main
    Profiles = {p1, p2}
    Accounts = {a1, a2}
    Images = {small, large, artist}
    CoverArt = {small, large}
    OwnerOf <- MCOwnerOf
    Larger <- MCLarger
    Before <- MCBefore
    FirstProfile = p1
    FirstAccount = a1
    Backups <- MCBackups
    MaxRuns = 2
    MaxCalls = 2
CHECK_DEADLOCK FALSE
INVARIANTS
    
    SessionIsRestorable
    QueueOfProfile
    DeletedIsGone
PROPERTIES
    ServedIsWhole
    CallsEnd
