SPECIFICATION Spec
CONSTANTS
    Steady = {s1}
    Movers = {m1}
    MaxEvents = 3
    MaxMoves = 2
    Symbols = {btc, eth}
    Handlers = {h1}
    QueueSize = 2
    MaxRouted = 4
    Tasks = {t1, t2}
    None = None
    MaxCalls = 3
    MaxList = 2
    Qty = 2
    Files = 2
    Registries = 2
    MaxPluginCalls = 4
INVARIANTS
    TypeOK
    EventsReachHandlers
    AccountsAgree
    AnswersMatchVenue
PROPERTIES
    PlatformSettles
CHECK_DEADLOCK FALSE
