SPECIFICATION LoadSpec
CONSTANTS
    Tensor <- MCTensor
    NodeLists <- MCNodeLists
    Models <- MCModels
INVARIANTS
    LoadTypeOK
    GraphReady
PROPERTY
    ImplementsLoading
\* The loader is a function: it stops when it has returned or thrown.
CHECK_DEADLOCK FALSE
