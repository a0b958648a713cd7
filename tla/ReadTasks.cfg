\* MCReadTasks: one read of chunks or rows, every split and every order.
SPECIFICATION Spec
CONSTANTS
    Layouts <- MCLayouts
    MaxRequest = 3
    Degrees = {1, 2, 3}
    MaxFailures = 1
    MaxUint = 15
    GroupColumns <- MCGroupColumns
INVARIANTS RightRows ErrorsSurface TasksConsistent
