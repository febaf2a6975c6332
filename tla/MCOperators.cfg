SPECIFICATION CallSpec
CONSTANTS
    MaxOps <- MCMaxOps
    MaxBefore = 2
    IntMax = 8
    Shapes <- MCShapes
    Targets <- MCTargets
    Slices <- MCSlices
    Calls <- MCCalls
INVARIANTS
    ViewInStorage
    EnumerationsAgree
    ReadsInStorage
    ThrowsExactlyIfUndefined
    ResultsAsOnnx
    WindowsMeetInput
PROPERTY ImplementsArray
\* The calls are bounded by MaxOps.
CHECK_DEADLOCK FALSE
