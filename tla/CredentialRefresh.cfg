SPECIFICATION FairSpec
CONSTANTS
    Threads = {t1, t2}
    Grace = 2
    Life = 3
    Cooldown = 2
    Urgent = 1
    MaxNow = 3
    MaxCalls = 3
    None = None
    Unread = Unread
CHECK_DEADLOCK FALSE
INVARIANTS CredentialsConsistent
PROPERTIES OneRefresh KeepsValid EveryCallReturns
