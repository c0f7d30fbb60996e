SPECIFICATION Spec
CONSTANTS
    Prices = {2, 3}
    Sizes = {1}
    MaxBricks = 5
    Operations = {"stage"}
INVARIANTS
    BricksStayInMarket
CHECK_DEADLOCK FALSE
