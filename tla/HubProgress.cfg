SPECIFICATION Spec
CONSTANTS
    e1 = e1
    e2 = e2
    s1 = s1
    d1 = d1
    d2 = d2
    c1 = c1
    c2 = c2
    c3 = c3
    Entries <- MCEntries
    Songs <- MCSongs
    SongOf <- MCSongOf
    Devices = {d1, d2}
    NoDevice = none
    Commands <- MCCommands
    Reports <- MCReports
    MaxQueueLen = 4
    Connections = {c1, c3}
    DeviceOf <- MCDeviceOf
    NoClient = noClient
    Capacity = 1
    MaxHandlers = 2
    MaxRequests = 1
    LateRequests = TRUE
    StoreMayFail = TRUE
INVARIANTS
    HubInv
PROPERTIES
    ReplacementStays
    HandlersFinish
\* Every client may have disconnected for good, or have nothing left to send.
CHECK_DEADLOCK FALSE
