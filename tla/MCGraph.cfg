SPECIFICATION FairSpec
CONSTANTS
    Tensor <- MCTensor
    NodeLists <- MCNodeLists
INVARIANTS
    TypeOK
    ProducersFirst
    ThrowsExactlyIfInvalid
PROPERTIES
    KeepsValidOrder
    ImplementsOrder
\* The sort is a function: it stops when it has returned or thrown.
CHECK_DEADLOCK FALSE
