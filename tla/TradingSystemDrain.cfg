SPECIFICATION Spec
CONSTANTS
    TickBound = 1
    ExecBound = 2
    MaxExecs = 4
INVARIANTS
    DrainedBeforeReport
CHECK_DEADLOCK FALSE
