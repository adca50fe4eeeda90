SPECIFICATION Spec
CONSTANTS
    s1 = s1
    t1 = t1
    t2 = t2
    c1 = c1
    c2 = c2
    Session <- OneSession
    Label <- TwoTasks
    Client <- OneClient
    AutoStart <- Second
    Scheduled <- Cron
    Actions = {"stop", "pause", "resume"}
    Endings = {"success"}
    Stops = {}
    StoreFaults = TRUE
    MaxRuns = 1
    MaxFirings = 1
    MaxLives = 1
INVARIANTS TypeOK OneRowPerRun
CHECK_DEADLOCK FALSE
