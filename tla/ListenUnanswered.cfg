CONSTANTS
    MaxClaim = 2
    Sizes = {11}
    Levels = {129}
    Interval = 2
    HangupIsError = TRUE
    MaxQueue = 2
    MaxTelegrams = 2
    MaxUnplugs = 0
    MaxFaults = 1
SPECIFICATION Spec
INVARIANTS PayloadFaithful
CHECK_DEADLOCK FALSE
