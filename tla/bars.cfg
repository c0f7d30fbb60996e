SPECIFICATION Spec
CONSTANTS
    NoValue = NoValue
    Tasks = {t1, t2}
    Ticks <- MCTicks
    Starts = {0, 2, 5}
    Length = 3
    Day = 4
    Session = {0, 1, 2}
    MaxCandles = 3
    MaxCalls = 5
    One = 24
    SizeCandles <- MCSizeCandles
    SizeConfigurations <- MCSizeConfigurations
    FixedSize = 24
    Period = 2
    Multiplier = 1
    Percentage = 50
    Window = 3
    Low = 24
    High = 60
    MaxSizeCandles = 4
    Asked <- MCAsked
    Submitted <- MCSubmitted
    BrickTypes = {"traditional", "atr", "percentage"}
    Prices = {1, 4, 5}
    Sizes = {0, 1, 2}
    MaxBricks = 4
    Operations = {"reset", "restart", "stage", "restore"}
    StageCount = 3
    MaxEdges = 2
    RetryCount = 1
    MaxRuns = 1
INVARIANTS
    TypeOK
    CandlesTellTicks
    ComputedAsDefined
    WorksAsConfigured
    BricksTellMarket
CHECK_DEADLOCK FALSE
