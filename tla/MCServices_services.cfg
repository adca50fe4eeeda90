SPECIFICATION Spec
CONSTANTS
    NoSeq = NoSeq
    MaxLines = 3
    CacheLimit = 2
    SnapshotTail = 1
    MaxSeq = 5
    MaxClears = 1
    NoEntry = NoEntry
    MetricTask = {t1}
    MaxGeneration = 2
    MaxHistory = 1
    MaxLives = 2
    Never = Never
    Policy = {p1}
    Remote = {w1, w2}
    Cooldown = 4
    Threshold = 3
    FetchRounds = 2
    MaxRounds = 7
    MaxEdits = 1
    NoKey = NoKey
    Credential = {x1}
    MaxCommands = 4
    NoRow = NoRow
    Rule = {r1}
    Event = {e1, e2, e3}
    Limit = 2
    MaxTime = 1
    MaxRules = 1
    t1 = t1
    t2 = t2
    t3 = t3
    n1 = n1
    Self = Self
    None = None
    Group = {1, 2}
    Inputs <- Contents
    Target <- Targets
    Node <- Nodes
    NodeOf <- Nodes_Of
    Retention = 2
    MaxWrites = 3
    MaxChanges = 1
INVARIANTS GraphsAgree RunRespectsEdges NewestRevisionIsGroup RevisionsAreTheLatest
    ShownFollowsTheLog ClearedStaysCleared AdmittedForAReason SomeoneCanLogIn EveryMatchIsKept
PROPERTIES CooldownIsKept ActsOnAStreak RevisionNumbersAreFinal
CHECK_DEADLOCK FALSE
