SPECIFICATION FairSpec
CONSTANTS
    Channels = 2
    Failing = {"logger"}
    FailingChannels = {}
    SubscriberErrors = {"runtime", "other"}
PROPERTY RunReturnsOnRequest
CHECK_DEADLOCK FALSE
