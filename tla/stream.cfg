SPECIFICATION Spec
CONSTANTS
    MaxSockets = 3
    MaxMessages = 2
    MaxRetries = 2
    Monitored = TRUE
    Symbols = {btc}
INVARIANTS
    TypeOK
    StopLeavesNothing
    NothingLost
PROPERTIES
    NeverHangs
CHECK_DEADLOCK FALSE
