SPECIFICATION Spec
CONSTANTS
    j1 = j1
    j2 = j2
    w1 = w1
    w2 = w2
    NoJob = NoJob
    Jobs <- OneJob
    Workers <- OneWorker
    MaxRetries = 1
    Steps = 2
    Faults = {}
    MaxFaults = 0
INVARIANTS
    UnavailableMeansNotSent
CHECK_DEADLOCK FALSE
