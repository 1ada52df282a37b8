CONSTANTS
    NoValue = NoValue
    d1 = d1
    d2 = d2
    search = search
    index = index
    Daemon = {d1, d2}
    Client = {search, index}
    Batches <- MCBatches
    Buffer = 1
    MaxStarts = 4
SPECIFICATION Spec
INVARIANTS
    SocketIsLive
    NeverPartial
PROPERTIES
    ShutdownEnds
CHECK_DEADLOCK FALSE
