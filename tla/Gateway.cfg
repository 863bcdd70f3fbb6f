CONSTANTS
    MaxClaim = 1
    Sizes = {11}
    Levels = {129}
    Interval = 1
    HangupIsError = TRUE
    MaxQueue = 2
    MaxTelegrams = 2
    MaxUnplugs = 2
    MaxFaults = 1
    MaxDrops = 1
    MaxTroubles = 2
SPECIFICATION GatewaySpec
INVARIANTS GatewayTypeOK FaithfulIfAnswered
CHECK_DEADLOCK FALSE
PROPERTIES ImplementsRelay PublishesInOrder OnlineIsPublished Reconnects ProcessEnds
