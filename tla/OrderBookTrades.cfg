SPECIFICATION Spec
CONSTANTS
    MAX_TICKS = 2
    UNIT = 2
    Symbols = {y1}
    CAPACITY = 3
    Prices <- MixedPrices
    Quantities <- ParsedQuantities
    MaxOrders = 4
    Nil = Nil
INVARIANTS
    ExecutionsAreJustified
    QuantityConserved
    RestingNeverGrows
PROPERTIES
    EveryTradeFillsAnOrder
    ExhaustionIsPermanent
    ImplementsPriceTimeBook
CHECK_DEADLOCK FALSE
