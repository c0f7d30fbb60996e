SPECIFICATION FairSpec
CONSTANTS
    Symbols = {btc}
    MaxOrders = 1
    Prices = {1, 2}
    Capital = 2
    Fee = 0
    Streams = 1
    MaxOpenPositions = 1
    MaxOrderValue = 8
    ApiTasks = {api}
    ModQuantities = {3}
    Faults = {"timer", "partial", "kill", "no_average", "submit_error", "poll_error", "cancel_error", "positions_error", "persist_error", "stop"}
INVARIANTS
    FillIsReal
    LostFillHasCause
PROPERTIES
    ExecutionTerminates
CHECK_DEADLOCK FALSE
