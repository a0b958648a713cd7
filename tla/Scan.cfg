\* MCScan: whole scans with both readers.
SPECIFICATION FairSpec
CONSTANTS
    Tables <- MCTables
    Orders <- MCOrders
    Limits = {1, 3, 4, 100}
    RowCaps = {2, 100}
    Filters <- MCFilters
    MaxFailures = 1
INVARIANTS RowsAligned NothingMissed 
PROPERTIES Ends
