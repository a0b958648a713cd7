SPECIFICATION Spec
CHECK_DEADLOCK FALSE
CONSTANTS
    f = f  g = g  o = o  r = r
    p1 = p1  p2 = p2
    Absent = Absent  Empty = Empty
    Txns = {f, g}
    Procs = {p1, p2}
    ProcOf <- MCProcOf
    Resolver <- MCResolver
    StoreKinds = {"CreateThenFill"}
    RetryLimit = 1
    MaxVersion = 2
    MaxCommits = 1
INVARIANTS
    FailedCommitDoesNotBlock
