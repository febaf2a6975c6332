SPECIFICATION Spec
CONSTANTS
    t1 = t1
    t2 = t2
    t3 = t3
    NoThread = NoThread
    Thread <- Pair
    EngineOf <- OneEngine
    Model <- MCModel
    Requests <- Accepting
    Locked = FALSE
    Endless = {}
    MaxCalls = 2
INVARIANT OwnResults
