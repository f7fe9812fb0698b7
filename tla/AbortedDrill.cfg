SPECIFICATION MCSpec
CONSTANTS
    Scopes = {tsmc}
    MaxFaults = 1
    Dispatchers = {ingester}
    MaxAttempts = 1
    DrillDispatchers = {driller}
    Operators = {}
    DrillSlots = {march}
    ScopeOf <- MCScopeOf
INVARIANT
    AbortedDrillIsFailed
