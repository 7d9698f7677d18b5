SPECIFICATION PredictorSpec
CONSTANTS
    Steps <- MCSteps
    TimeDiff = 1
    AssumeDirect = TRUE
    LookAhead = 2
    VariableStep = TRUE
    OutputPorts <- MCOutputPorts
    InputPorts <- MCInputPorts
    Values = {0, 1}
    Default = 0
    MaxVariables = 2
    MaxTime = 4
INVARIANTS
    OutputsConsistent
    ModelHasLatestInputs
PROPERTIES
    ListenersHearModel
CHECK_DEADLOCK FALSE
