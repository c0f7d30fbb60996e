SPECIFICATION Spec
CONSTANTS
    NoValue = NoValue
    MaxInputs = 5
    MaxBricks = 6
    Capital = 1000
    Fee = 7
    Slip = 5
    MaxRaises = 1
    MaxResults = 3
    Iterations = 2
    MaxMarks = 4
    MaxCopies = 3
    Period = 3
    TrendLength = 2
    Buffer = 12
    Inputs <- EngineInputs
    Bricks <- RunBricks
    Setups <- RunSetups
    Tasks <- TaskSet
    Score <- ScoreOf
INVARIANTS
    TypeOK
    TradingIsHonest
    ResearchIsHonest
    ResultsAreFaithful
PROPERTIES
    ResearchSettles
CHECK_DEADLOCK FALSE
