SPECIFICATION Spec
CONSTANTS
    Symbols = {1, 2, 3}
    Exchange <- MCExchange
    HttpCallers = {h}
    Operators = {}
    Script = script
    CoverNum = 1
    CoverDen = 2
    MaxFaults = 1
    LastDate = 3
    Traded <- MCTraded
INVARIANTS TypeOK ActiveAttested NoSilentHole CleanRangeIsReady
PROPERTIES LossIsBounded RefreshConfirmed
VIEW MCView
