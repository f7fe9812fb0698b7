SPECIFICATION MCSpec
CONSTANTS
    Symbols = {tsmc}
    LastDate = 19
    Histories <- MCHistories
    Horizons = {2, 3}
    Warmup = 1
    Lookback = 1
    Threads = {t1, t2}
    FeatureSets = {a, b}
    a = a
    b = b
    m1 = m1
    m2 = m2
    c1 = c1
    c2 = c2
    c3 = c3
    short = short
    long = long
    Tunings = {a, b}
    Recipe = a
    Asked = {17}
    FinalLen = 2
    OuterSplits = 2
    OuterShare <- Fifth
    InnerSplits = 1
    InnerShare <- Quarter
    ShortlistLen = 2
    None = None
    MaxCalls = 2
    MaxFaults = 1
PROPERTIES
    EveryRequestEnds
INVARIANTS
    MatricesTypeOK
    OneMatrixAtATime
    OuterHoldoutUnseen
    FinalHoldoutUntouched
    FinalHoldoutRunOnce
    NoOrphanRuns
    OneCalibrationAtATime
    GatesAreBlind
    MatrixIsWhole
CHECK_DEADLOCK FALSE
