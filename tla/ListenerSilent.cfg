CONSTANTS
    HangupIsError = TRUE
    Interval = 2
    MaxDrops = 1
    MaxQueue = 2
    MaxUnplugs = 0
SPECIFICATION SilentSpec
PROPERTIES RetriesAsLogged
CHECK_DEADLOCK FALSE
