SPECIFICATION Spec
CONSTANTS
    c1 = c1
    c2 = c2
    q1 = q1
    None = None
    Unknown = Unknown
    Conn <- MCConn
    Command <- MCCommand
    MaxQueue = 2
    MaxFaults = 1
    CacheSize = 1
    MaxVersion = 1
INVARIANTS PendingIsAwaited
PROPERTIES ImplementsCall InventoryGoesForward CallersAreAnswered
