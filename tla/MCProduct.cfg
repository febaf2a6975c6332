SPECIFICATION FairSpec
CONSTANTS
    FastWork = 5
    ParallelWork = 12
    MinRows = 4
    MaxThreads = 3
    Tile = 2
    Panel = 2
    IntMax = 1000
    Hardware <- MCHardware
    Settings <- MCSettings
    Problems <- MCProblems
INVARIANTS
    TypeOK
    EachElementOnce
    ProductsCorrect
PROPERTY KernelReturns
\* A kernel stops when it has returned or thrown.
CHECK_DEADLOCK FALSE
