SPECIFICATION MarksSpec
CONSTANTS
    e1 = e1
    e2 = e2
    e3 = e3
    e4 = e4
    s1 = s1
    s2 = s2
    Entries <- MCEntries
    Songs <- MCSongs
    SongOf <- MCSongOf
    Devices = {d1, d2}
    NoDevice = none
    Commands <- MCCommands
    Reports <- MCReports
    MaxQueueLen = 4
    MaxSeq = 4

    
PROPERTIES
    QueueChangeIsSequenced
    QueueRevisionFollowsQueue
    QueueEditsKeepCurrentEntry
    EditsKeepRegion
