SPECIFICATION BusyFeedSpec
CONSTANTS
    TickBound = 2
    ExecBound = 2
    MaxExecs = 4
INVARIANTS
    ExecutionsAccounted
    ReportIsFinal
PROPERTIES
    WaitingIsApplied
    
CHECK_DEADLOCK FALSE
