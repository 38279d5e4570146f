SPECIFICATION RSpec
CONSTANTS
    NaN = NaN
    Symbols = {y1, y2}
    Prices = {1, 3}
    Quantities = {1, 2}
    MaxExecs = 4
    TickPrices = {2, 5}
    SurfaceTable <- Smile
    DefaultVol = 20
SYMMETRY SymbolSymmetry
INVARIANTS
    PnlAccountsForCash
    AverageIsBracketed
    ReportValuesTheAccount
    LongBookRiskAddsUp
