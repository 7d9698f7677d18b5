SPECIFICATION QueueSpec
CONSTANTS
    Eps = 1
    Resolution = 2
    StartTime = 3
    Times <- MCTimes
    MaxSetup = 1
    MaxClock = 2
    MaxEvents = 4
INVARIANTS
    PredictionConsistent
    ExternalsOrdered
    EventsOwnedOnce
    NeverOversleeps
CHECK_DEADLOCK FALSE
