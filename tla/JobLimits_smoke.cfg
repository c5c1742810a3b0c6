SPECIFICATION Spec
CONSTANTS
    a = a
    b = b
    screen1 = screen1
    screen2 = screen2
    smoke1 = smoke1
    smoke2 = smoke2
    warm = warm
    NoRequest = NoRequest
    Workspaces <- TwoWorkspaces
    Requests <- SmokeRequests
    WorkspaceOf <- Where
    KindOf <- What
    TotalLimit = 2
    ResearchLimit = 1
    SmokeLimit = 1
INVARIANTS
    SmokeWithinLimit
CHECK_DEADLOCK FALSE
