SPECIFICATION FairSinglestepSpec
CONSTANTS
    Eps = 1
    Resolution = 1
    StartTime = 0
    Times <- MCTimes
    MaxSetup = 0
    MaxClock = 7
    MaxEvents = 20
    TheEnd = 2
    s1 = s1
    s2 = s2
    Sources <- MCSources
    MaxPredictions = 6
    MaxExternals = 1
    LookAhead = 2
    VariableStep = TRUE
INVARIANTS
    DelayBounded
    NoStepRepeated
PROPERTIES
    OnlyEmptyEventsSkipSteps
    SimulationEnds
