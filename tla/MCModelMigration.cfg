SPECIFICATION MigrationSpec
CONSTANTS
    Processes = {"s1", "s2"}
    Pages = {"n1"}
    Width <- MCWidth
    Odd = "odd"
    DefaultModel = "bge"
    Unset = Unset
    MaxStarts = 2
    MaxPages = 1
INVARIANT NoLateVectors
CHECK_DEADLOCK FALSE
