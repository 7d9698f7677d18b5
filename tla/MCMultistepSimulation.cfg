SPECIFICATION FairMultistepSpec
CONSTANTS
    Eps = 1
    Resolution = 1
    StartTime = 0
    Times <- MCTimes
    MaxSetup = 0
    MaxClock = 3
    MaxEvents = 20
    TheEnd = 2
    s1 = s1
    s2 = s2
    Sources <- MCSources
    MaxPredictions = 6
    MaxExternals = 1
    Steps <- MCSteps
    MinStep = 1
    MaxStep = 2
    TimeDiff = 1
    AssumeDirect = TRUE
INVARIANTS
    LazyNeverOutdated
    ExternalWithinHorizon
    ModelNotAheadOfClock
PROPERTIES
    ModelTimeMonotone
    SimulationEnds
