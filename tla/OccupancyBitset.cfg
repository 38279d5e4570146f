SPECIFICATION Spec
CONSTANTS
    W = 4
    MAX_TICKS = 10
INVARIANTS
    ScansFindTheNextTick
