CONSTANTS
    Interval = 3
    MaxDrops = 3
SPECIFICATION Spec
INVARIANTS TypeOK RetriesPaced FailsOnce
PROPERTIES KeepsPublishing
