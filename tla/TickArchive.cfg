SPECIFICATION GateSpec
CONSTANTS
    MaxParts = 2
    Profiles = {bench}
    Drives <- MCDrives
    DayLimit = 2
    MaxRuns = 2
    MaxReplays = 2
    MaxFaults = 1
INVARIANTS
    GateTypeOK
    ReturnedArchiveIsKept
    OneFaultHidesNothing
    FailedDispatchIsTakenBack
    PassedGateStands
    WindowIsFullDay
CHECK_DEADLOCK FALSE
