SPECIFICATION FairSpec
CONSTANTS
    Channels = 3
    Failing = {"context", "predictor", "dispatcher", "publishers", "predict", "publish"}
    FailingChannels = {1, 2, 3}
    SubscriberErrors = {"runtime", "other"}
INVARIANTS
    ExitIsClean
    FailuresReported
PROPERTIES
    PendingSurfaces
    ShutdownCompletes
