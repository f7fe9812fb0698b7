SPECIFICATION MCSpec
CONSTANTS
    Scopes = {tsmc}
    MaxFaults = 0
    Dispatchers = {ingester}
    MaxAttempts = 1
    DrillDispatchers = {driller}
    Operators = {}
    DrillSlots = {march}
    ScopeOf <- MCScopeOf
PROPERTY
    ResolvesReplayable
