CONSTANTS
    MaxClaim = 2
    Attempts = 2
    MaxFaults = 3
    MaxTelegrams = 1
    MaxInFlight = 3
SPECIFICATION Spec
INVARIANTS TypeOK AcknowledgedIsDone RetriesSuffice ListensInMode
PROPERTIES ActivationCompletes ShutdownCompletes
CHECK_DEADLOCK FALSE
