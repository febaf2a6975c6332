SPECIFICATION FairSpec
CONSTANTS
    Nodes = 4
    SizeMax = 1000
    Tensor <- MCTensor
    Graphs <- MCGraphs
INVARIANTS
    TypeOK
    LiveTensorsDisjoint
    ReadsIntact
    WithinArena
    NoNeedlessSlot
    PlanComplete
PROPERTY PlanningEnds
\* The planner is a function: it stops when it has returned or thrown.
CHECK_DEADLOCK FALSE
