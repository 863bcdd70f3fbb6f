CONSTANTS
    MaxClaim = 2
    Attempts = 2
    MaxFaults = 2
    MaxTelegrams = 1
    MaxInFlight = 3
SPECIFICATION Spec
INVARIANTS ActivatedBeforeListening
CHECK_DEADLOCK FALSE
