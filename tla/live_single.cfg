SPECIFICATION FairSpec
CONSTANTS
    Symbols = {btc}
    MaxOrders = 3
    Prices = {1, 2}
    Capital = 4
    Fee = 0
    Streams = 1
    MaxOpenPositions = 2
    MaxOrderValue = 8
    ApiTasks = {}
    ModQuantities = {}
    Faults = {"partial"}
INVARIANTS
    TypeOK
    PositionsFollowBroker
    NeverShort
    BooksBalance
PROPERTIES
    FillReachesPortfolio
CHECK_DEADLOCK FALSE
