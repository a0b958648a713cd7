SPECIFICATION FairSpec
CHECK_DEADLOCK FALSE
CONSTANTS
    s1 = s1  s2 = s2  s3 = s3
    a1 = a1  a2 = a2  d = d
    None = None
    Callers = {s1, s2, s3, a1, a2, d}
    Kind <- MCKind
    OnPool <- MCOnPool
    PoolSize = 1
INVARIANT FlightsConsistent
PROPERTIES CompletedOnce EveryCallReturns
