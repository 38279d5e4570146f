SPECIFICATION Spec
CONSTANTS
    NaN = NaN
    Symbols = {y1}
    Prices = {1, 2}
    Quantities = {0, 1}
    MaxExecs = 3
INVARIANT AverageIsANumber
CHECK_DEADLOCK FALSE
