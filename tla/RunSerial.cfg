SPECIFICATION SerialSpec
CONSTANTS
    Scripts = {p}
    Threads = {t}
    Slots = {s1}
    AllActive = {s1}
    PostIds = {r1, r2}
    Regular = Regular
    Universes = {u1}
    MaxTick = 3
    DayOf <- MCDayOf
    BasisDay <- MCBasisDay
    MaxFaults = 1
    MaxCrashes = 0
INVARIANT AtMostOneValidRun
PROPERTY ImplementsLedger
