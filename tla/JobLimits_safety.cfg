SPECIFICATION FairSpec
CONSTANTS
    a = a
    b = b
    screen1 = screen1
    screen2 = screen2
    smoke1 = smoke1
    smoke2 = smoke2
    warm = warm
    NoRequest = NoRequest
    Workspaces <- TwoWorkspaces
    Requests <- MixedRequests
    WorkspaceOf <- Where
    KindOf <- What
    TotalLimit = 2
    ResearchLimit = 1
    SmokeLimit = 1
INVARIANTS
    LockHeld
    ResearchWithinLimit
PROPERTIES
    EveryLaunchAnswered
CHECK_DEADLOCK FALSE
