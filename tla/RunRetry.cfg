SPECIFICATION FairSpec
CONSTANTS
    Scripts = {p}
    Threads = {t}
    Slots = {s1}
    AllActive = {s1}
    PostIds = {r1}
    Regular = Regular
    Universes = {u1}
    MaxTick = 3
    DayOf <- MCDayOf
    BasisDay <- MCBasisDay
    MaxFaults = 0
    MaxCrashes = 0
PROPERTY RetryKeepsFrozenTimestamp
