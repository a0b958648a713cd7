CONSTANTS
    Clients = {a, b}
    Containers = {c1, c2}
    Root = Root
    None = None
    c1 = c1
    c2 = c2
    d = d
    df = df
    ds = ds
    dsf = dsf
    dx = dx
    dxf = dxf
    Paths <- MCPaths
    Parent <- MCParent
    Name <- MCName
    Lengthens <- MCLengthens
    KeyOrder <- MCKeyOrder
    Stores <- MCStores
    Options <- MCOptions
    Calls <- MCCalls
    PageSize = 1
    MaxCalls = 2
    MaxFaults = 1
SPECIFICATION Spec
INVARIANT StoreConsistent
PROPERTIES NothingVanishes OkIsTrue
CHECK_DEADLOCK FALSE
