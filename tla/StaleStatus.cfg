SPECIFICATION Spec
CONSTANTS
    Symbols = {1, 2, 3}
    Exchange <- MCExchange
    HttpCallers = {h}
    Operators = {o}
    Script = script
    CoverNum = 1
    CoverDen = 2
    MaxFaults = 0
    LastDate = 0
    Traded <- MCTraded
INVARIANT InactiveWasMissing
