SPECIFICATION MCSpec
CONSTANTS
    Symbols = {x, y}
    x = x
    y = y
    LastDate = 11
    Frames <- MCFrames
    Window = 1
    Shift = 1
    TestShare <- Quarter
    TailShare <- Fifth
    MinSamples = 1
    Threads = {t1, t2}
    t1 = t1
    Asks <- MCAsks
    Factors = {f1, f2}
    f1 = f1
    f2 = f2
    NoCatalog = NoCatalog
    Catalogs <- MCCatalogs
    Stocks <- MCStocks
    MaxCalls = 2
    MaxEvents = 1
INVARIANTS
    TypeOK
    LabelsSettledFirst
    ForwardIsProspective
    SucceededRunIsAccountedFor
CHECK_DEADLOCK FALSE
