SPECIFICATION FairSpec
CONSTANTS
    s1 = s1
    t1 = t1
    t2 = t2
    c1 = c1
    c2 = c2
    Session <- OneSession
    Label <- OneTask
    Client <- OneClient
    AutoStart <- Cron
    Scheduled <- None
    Actions = {"start", "stop"}
    Endings = {"failure"}
    Stops = {"crash"}
    StoreFaults = FALSE
    MaxRuns = 2
    MaxFirings = 0
    MaxLives = 2
PROPERTIES LiveRunIsRecorded LatestRunIsClosed
CHECK_DEADLOCK FALSE
