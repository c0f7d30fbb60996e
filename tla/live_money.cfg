SPECIFICATION Spec
CONSTANTS
    Symbols = {btc}
    MaxOrders = 2
    Prices = {1, 2}
    Capital = 4
    Fee = 1
    Streams = 2
    MaxOpenPositions = 2
    MaxOrderValue = 4
    ApiTasks = {api}
    ModQuantities = {}
    Faults = {"timer", "cancel_error", "persist_error", "stop"}
INVARIANTS
    CashNeverNegative
    CashIsSumOfFills
    RiskRejectedNeverSent
PROPERTIES
    ImplementsLedger
CHECK_DEADLOCK FALSE
