SPECIFICATION Spec
CONSTANTS
    Reads = {1, 2}
    Clients = {c1, c2}
    NoClient = NoClient
INVARIANTS ReleasedOnce HeldUsable ReadsProtected
PROPERTIES CallbackRuns
