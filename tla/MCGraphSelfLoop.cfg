SPECIFICATION Spec
CONSTANTS
    Tensor <- MCTensor
    NodeLists <- SelfLists
INVARIANT SelfDependencyThrows
CHECK_DEADLOCK FALSE
