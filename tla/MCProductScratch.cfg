SPECIFICATION Spec
CONSTANTS
    FastWork = 5
    ParallelWork = 12
    MinRows = 4
    MaxThreads = 3
    Tile = 2
    Panel = 2
    IntMax = 1000
    Hardware <- MCHardware
    Settings <- MCSettings
    Problems <- MCProblems
INVARIANT BatchesIndependent
CHECK_DEADLOCK FALSE
