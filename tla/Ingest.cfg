SPECIFICATION Spec
CONSTANTS
    SYMBOL_BYTES = 4
    ID_BYTES = 4
    PRICE_BYTES = 3
    INT_RANGE = 1024
    Code <- CodeTable
    NUL = NUL
    LF = LF
    NoFile = NoFile
    Names <- TableNames
    Prices = {0, 23}
    UNIT = 2
    Quantities = {12}
    BUFFER = 13
    MaxGenerated = 2
    ForeignFiles <- SomeForeignFiles
    ForeignSymbols <- SomeForeignSymbols
    InstrumentFiles <- SomeInstrumentFiles
    SurfaceFiles <- SomeSurfaceFiles
    Numbers = {"0.01", "1"}
    Dates = {"2024-01-19"}
    ShortTexts = {"", "x"}
    Nullopt = Nullopt
    Throws = Throws
    Unread = Unread
    NaN = NaN
    DefaultVol = 20
INVARIANTS
    FullyLoadedBeforeThreads
    SurfaceAnswersFromTheFile
    
    ReplayFollowsGenerator
    QuotesFindTheBook
    ValuedByOwnTicks
PROPERTIES
    ReplayEnds
CHECK_DEADLOCK FALSE
