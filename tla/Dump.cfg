CONSTANTS
    MaxClaim = 2
    LastParam = 3
    MaxFaults = 2
    MaxTelegrams = 2
SPECIFICATION Spec
INVARIANTS TypeOK LabelsMatchIfPrompt MissingOnlyIfLost AnswersInOrder
PROPERTIES DumpEnds
CHECK_DEADLOCK FALSE
