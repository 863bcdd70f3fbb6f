CONSTANTS
    HangupIsError = TRUE
    Interval = 2
    MaxDrops = 2
    MaxQueue = 2
    MaxUnplugs = 1
SPECIFICATION Spec
INVARIANTS TypeOK RetriesPaced FailsOnce
PROPERTIES KeepsPublishing Reconnects CancellationEnds
CHECK_DEADLOCK FALSE
