SPECIFICATION Spec
CONSTANTS
    s1 = s1
    t1 = t1
    t2 = t2
    c1 = c1
    c2 = c2
    Session <- OneSession
    Label <- OneTask
    Client <- OneClient
    AutoStart <- None
    Scheduled <- None
    Actions = {"stop"}
    Endings = {"failure"}
    Stops = {}
    StoreFaults = FALSE
    MaxRuns = 2
    MaxFirings = 0
    MaxLives = 1
INVARIANTS SessionsLockUsable
CHECK_DEADLOCK FALSE
