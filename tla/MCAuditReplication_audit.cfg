SPECIFICATION FairSpec
CONSTANTS
    c1 = c1
    c2 = c2
    None = None
    Unknown = Unknown
    Conn <- TwoConns
    MaxQueue = 2
    MaxFaults = 1
    Record = {1, 2, 3, 4}
    Mine = {1, 2, 4}
    Batch = 1
    Retention = 1
    Queue = 1
    Display = 1
INVARIANTS NewestAreKept ServedIsOnline
PROPERTIES ImplementsLog QueueDrains
CHECK_DEADLOCK FALSE
