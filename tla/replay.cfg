SPECIFICATION MCSpec
CONSTANTS
    Symbols = {btc}
    MaxOrders = 2
    Prices = {2, 3}
    Quantities = {1}
    Capital = 5
    Fee = 1
    Slip = 0
    Callers = {c1, c2}
    Placed <- MCPlaced
    TickTime <- MCTickTime
    CandleTime <- MCCandleTime
    StartTime = 1
    EndTime = 4
    Controllers = {c1, c2}
    MaxMoves = 2
    MaxLoops = 2
    Speeds = {1, 2}
    MaxTime = 5
    Sizers <- MCSizers
    SizingContexts <- MCSizingContexts
INVARIANTS
    MCTypeOK
    SessionIsHonest
    ReplayIsFaithful
PROPERTIES
    ReplaySettles
CHECK_DEADLOCK FALSE
