SPECIFICATION MCSpec
CONSTANTS
    Scopes = {tsmc}
    MaxFaults = 2
    Dispatchers = {ingester}
    MaxAttempts = 2
    DrillDispatchers = {driller}
    Operators = {operator}
    DrillSlots = {march}
    ScopeOf <- MCScopeOf
INVARIANTS
    TypeOK
    AttemptsMatchRun
    SucceededRunIsReplayable
    FailedSlotIsRetried
    SucceededDrillRestored
PROPERTIES
    SucceededRunIsFinal
    SucceededSlotStays
