SPECIFICATION FairSpec
CONSTANT Clients = {c1, c2, c3}
INVARIANTS
    StopIsComplete
PROPERTIES
    StopTerminates
CHECK_DEADLOCK FALSE
