SPECIFICATION FairSpec
CHECK_DEADLOCK FALSE
CONSTANTS
    PartSize = 2
    MaxBytes = 5
    MaxCalls = 3
    MaxFailures = 2
    None = None
INVARIANT StreamConsistent
PROPERTIES CallReturns
