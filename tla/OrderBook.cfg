SPECIFICATION Spec
CONSTANTS
    MAX_TICKS = 2
    UNIT = 2
    Symbols = {y1, y2}
    CAPACITY = 3
    Prices = {0, 2, 4}
    Quantities = {1, 2}
    MaxOrders = 4
    Nil = Nil
SYMMETRY SymbolSymmetry
INVARIANTS
    TypeOK
    PoolPartition
    LevelsAreFifo
    IndexMatchesLevels
    UncrossedBetweenCalls
    AggressorIsFront
CHECK_DEADLOCK FALSE
