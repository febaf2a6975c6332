SPECIFICATION Spec
CONSTANTS
    Nodes = 4
    SizeMax = 300
    Tensor <- MCTensor
    Graphs <- OutputGraphs
INVARIANT OverflowThrows
CHECK_DEADLOCK FALSE
