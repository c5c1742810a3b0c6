SPECIFICATION AutomationSpec
CONSTANTS
    DigestTasks = {w1, w2}
    DigestRuns = {r1, r2}
    Members = {owner}
    WsOwner = owner
    DigestSlots = 2
    LastTick = 3
    MaxEdits = 2
    ScheduleRequests = {q1, q2}
    Crons = {c1}
    TaskIds = {t1, t2}
    NoTask = NoTask
SYMMETRY AutomationSymmetry
INVARIANTS
    AutomationTypeOK
    DigestLosesNoRun
    OneDigestADay
    TaskFollowsSchedule
    NoStrayTask
CHECK_DEADLOCK FALSE
