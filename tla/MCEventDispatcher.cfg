SPECIFICATION Spec
CONSTANTS
    Eps = 1
    Resolution = 1
    StartTime = 0
    Times <- MCTimes
    MaxSetup = 1
    MaxClock = 3
    MaxEvents = 9
    TheEnd = 3
    s1 = s1
    s2 = s2
    Sources <- MCSources
    MaxPredictions = 3
    MaxExternals = 1
INVARIANTS
    NoStalePrediction
    NeighboursOrdered
    PredictionWithinTwoEps
    StampsOnFinalEpoch
PROPERTIES
    DistributedInOrder
    ImplementsEventQueue
