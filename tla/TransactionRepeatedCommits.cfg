SPECIFICATION FairSpec
CHECK_DEADLOCK FALSE
CONSTANTS
    f = f  g = g  o = o  r = r
    p1 = p1  p2 = p2
    Absent = Absent  Empty = Empty
    Txns = {f, r}
    Procs = {p1, p2}
    ProcOf <- MCProcOf
    Resolver <- MCResolver
    StoreKinds = {"PutIfAbsent"}
    RetryLimit = 1
    MaxVersion = 5
    MaxCommits = 2
INVARIANTS TypeOK NoLostUpdate FailCommitsOnce RetriesJustified
PROPERTIES ImplementsLog CommitReturns
