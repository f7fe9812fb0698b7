SPECIFICATION FairSpec
CONSTANTS
    Scripts = {p}
    Threads = {t}
    Slots = {s1}
    AllActive = {s1}
    PostIds = {r1}
    Regular = Regular
    Universes = {u1, u2}
    MaxTick = 3
    DayOf <- MCDayOf
    BasisDay <- MCBasisDay
    MaxFaults = 1
    MaxCrashes = 1
INVARIANTS
    TypeOK
    EvidenceIsProspective
    AnswersMatchRows
PROPERTIES
    SettledEvidenceIsFinal
    StartedRunSettles
