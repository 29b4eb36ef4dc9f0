\* One order, under any symbol, looked up, listed and modified in every way.
SPECIFICATION Spec
CONSTANTS
    none = none
    invalid = invalid
    None = none
    Invalid = invalid
    Codes <- SymbolCodes
    Names <- SymbolNames
    Adjust <- SomeAdjust
    Home = "US"
    MaxOrders = 1
INVARIANTS
    BookInv
    QuotedIsTraded
    CheckedIsTraded
    PlacedIsListed
