SPECIFICATION BusyFeedSpec
CONSTANTS
    TickBound = 1
    ExecBound = 2
    MaxExecs = 1
PROPERTIES
    StopEndsTheFeed
CHECK_DEADLOCK FALSE
