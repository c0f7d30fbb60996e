SPECIFICATION Spec
CONSTANTS
    Symbols = {btc}
    MaxOrders = 2
    Prices = {2, 3}
    Quantities = {0, 1, 2}
    Capital = 7
    Fee = 1
    Slip = 1
INVARIANTS
    TypeOK
    BooksAgree
    QuotesAreHonoured
PROPERTIES
    EndedIsFinal
    EveryChangeReported
CHECK_DEADLOCK FALSE
