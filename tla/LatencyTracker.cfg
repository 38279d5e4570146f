SPECIFICATION Spec
CONSTANTS
    BUCKETS = 2
    Samples <- SomeSamples
    MaxRecords = 3
    MaxResets = 2
    MaxWalks = 1
    Percentiles = {5000, 9900}
    Infinity = 99
INVARIANTS
    
    PercentileComesFromASample
    ExtremesCoverFresh
    ExactWithoutOverlap
CHECK_DEADLOCK FALSE
