SPECIFICATION Spec
CONSTANTS
    MaxSockets = 2
    MaxMessages = 1
    MaxRetries = 1
    Monitored = TRUE
    Symbols = {}
PROPERTIES
    DropIsNoticed
CHECK_DEADLOCK FALSE
