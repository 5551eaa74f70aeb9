SPECIFICATION FairSpec
CONSTANTS
    r1 = r1
    r2 = r2
    r3 = r3
    None = None
    Requests = {r1, r2, r3}
    MaxPending = 2
    MaxSpawns = 5
    MaxFaults = 1
INVARIANTS OneChild Accounted WarmBeforeRecall
PROPERTIES Recovers
CHECK_DEADLOCK FALSE
