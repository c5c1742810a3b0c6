SPECIFICATION Spec
CONSTANTS
    j1 = j1
    j2 = j2
    w1 = w1
    w2 = w2
    NoJob = NoJob
    Jobs <- OneJob
    Workers <- TwoWorkers
    MaxRetries = 1
    Steps = 2
    Faults <- AllFaults
    MaxFaults = 2
SYMMETRY WorkerSymmetry
INVARIANTS
    TypeOK
    NoOrphan
    SingleOwner
    CancelPreventsWork
    CancelOverrun
    RetryAccounted
    BoundedRuns
    SucceededMeansComplete
PROPERTIES
    TerminalIsFinal
    ImplementsStatus
CHECK_DEADLOCK FALSE
