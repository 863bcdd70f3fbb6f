CONSTANTS
    MaxClaim = 2
    Sizes = {11}
    Levels = {129}
    Interval = 2
    HangupIsError = FALSE
    MaxQueue = 2
    MaxTelegrams = 2
    MaxUnplugs = 1
    MaxFaults = 0
SPECIFICATION Spec
PROPERTIES Reconnects
CHECK_DEADLOCK FALSE
