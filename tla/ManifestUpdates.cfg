SPECIFICATION Spec
CHECK_DEADLOCK FALSE
CONSTANTS
    a = a  b = b
    f1 = f1  f2 = f2
    Columns = {a, b}
    FileRows <- MCFileRows
    Groups <- MCGroups
    Batches <- MCBatches
    Indexes <- MCIndexes
    Others <- MCOthers
    MaxUpdates = 2
    MaxAttempts = 2
    MaxPublished = 2
INVARIANTS  ManifestConsistent
PROPERTIES CommitsKeepData
