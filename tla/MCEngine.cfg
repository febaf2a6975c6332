SPECIFICATION FairSpec
CONSTANTS
    SizeMax = 2000
    MaxRuns = 2
    Tensor <- MCTensor
    Models <- SoundModels
    Requests <- AllRequests
INVARIANTS
    TypeOK
    LiveTensorsIntact
    NoDanglingTensor
    CorrectWithoutPlan
    TimesOfOneRun
    WellFormedRunsReturn
PROPERTY ImplementsInference
CHECK_DEADLOCK FALSE
