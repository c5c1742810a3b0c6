SPECIFICATION FairSpec
CONSTANTS
    r1 = r1
    r2 = r2
    NoRun = NoRun
    Runs <- OneRun
    MaxRetries = 1
    Steps = 1
INVARIANTS
    TypeOK
    MetadataKept
    InTimeIsNotified
    OutcomeTruthful
PROPERTIES
    NeverSilent
CHECK_DEADLOCK FALSE
