SPECIFICATION Spec
CONSTANTS
    s1 = s1
    t1 = t1
    t2 = t2
    c1 = c1
    c2 = c2
    Session <- OneSession
    Label <- OneTask
    Client <- OneClient
    AutoStart <- Cron
    Scheduled <- Cron
    Actions = {"start"}
    Endings = {"failure"}
    Stops = {"shutdown", "crash"}
    StoreFaults = FALSE
    MaxRuns = 2
    MaxFirings = 1
    MaxLives = 2
INVARIANTS RunningRowsBelongToThisDaemon CleanShutdownClosesHistory
CHECK_DEADLOCK FALSE
