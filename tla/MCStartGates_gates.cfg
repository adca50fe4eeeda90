SPECIFICATION Spec
CONSTANTS
    s1 = s1
    s2 = s2
    t1 = t1
    t2 = t2
    c1 = c1
    c2 = c2
    e1 = e1
    e2 = e2
    q1 = q1
    q2 = q2
    NodeWide = NodeWide
    Task <- ThreeTasks
    Edge <- TwoNeeds
    Starter <- TwoStarters
    Kinds = {"start", "restart_all", "register"}
    Editor <- OneEditor
    QuotaId <- OneQuota
    Quota <- CapOne
    MaxEdits = 1
SYMMETRY StarterSymmetry
INVARIANTS OvershootIsBounded DependenciesWereSeen
CHECK_DEADLOCK FALSE
