SPECIFICATION Spec
CONSTANTS
    s1 = s1
    t1 = t1
    t2 = t2
    c1 = c1
    c2 = c2
    Session <- OneSession
    Label <- OneTask
    Client <- TwoClients
    AutoStart <- None
    Scheduled <- Cron
    Actions = {"start", "restart"}
    Endings = {"failure"}
    Stops = {}
    StoreFaults = FALSE
    MaxRuns = 2
    MaxFirings = 1
    MaxLives = 1
SYMMETRY ClientSymmetry
INVARIANTS OneProcessPerTask CronRunsSayCron LiveRunClosedOnlyByNamesake
PROPERTIES OutcomeIsFinal
CHECK_DEADLOCK FALSE
