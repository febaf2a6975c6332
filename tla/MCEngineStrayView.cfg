SPECIFICATION Spec
CONSTANTS
    SizeMax = 2000
    MaxRuns = 1
    Tensor <- MCTensor
    Models <- StrayModels
    Requests <- Good
INVARIANT OutputsCorrect
CHECK_DEADLOCK FALSE
