SPECIFICATION Spec
CONSTANTS
    e1 = e1
    e2 = e2
    e3 = e3
    s1 = s1
    s2 = s2
    NoEntry = NoEntry
    Entries <- MCEntries
    Songs <- MCSongs
    SongOf <- MCSongOf
    Queues <- MCQueues
    Troubles <- MCTroubles
    MaxCalls = 2
    MaxTroubles = 2
INVARIANTS StatusIsHeard PreparedIsNext RecoveryIsOrderly 
CHECK_DEADLOCK FALSE
