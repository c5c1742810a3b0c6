SPECIFICATION FairSpec
CONSTANTS
    j1 = j1
    j2 = j2
    w1 = w1
    w2 = w2
    NoJob = NoJob
    Jobs <- OneJob
    Workers <- TwoWorkers
    MaxRetries = 1
    Steps = 1
    Faults <- AllFaults
    MaxFaults = 1
PROPERTIES
    EventuallySettled
CHECK_DEADLOCK FALSE
