\* MCWritePath: writing a segment with all four writers.
SPECIFICATION Spec
CONSTANTS
    Apis = {"segment", "rewrite", "writer", "packed"}
    ColumnBytes <- MCColumnBytes
    Policies <- MCPolicies
    Indices <- MCIndices
    LobColumn = 3
    Batches <- MCBatches
    BufferSize = 10
    RollBytes = 5
    RowGroupBytes = 3
    LobFlush = 2
    LobRoll = 3
    MaxRows = 5
    MaxFailures = 1
INVARIANTS ClosedIsComplete AcceptedRowsKept WriterConsistent
