SPECIFICATION FairSpec
CONSTANTS
    t1 = t1
    t2 = t2
    t3 = t3
    NoThread = NoThread
    Thread <- MCThread
    EngineOf <- MCEngineOf
    Model <- MCModel
    Requests <- MCRequests
    Locked = TRUE
    Endless <- MCEndless
    MaxCalls = 2
INVARIANTS
    TypeOK
    OwnResults
    RunsAreUndisturbed
    TimesOfWholeRuns
PROPERTIES
    ServesEachThread
    CallsReturn
