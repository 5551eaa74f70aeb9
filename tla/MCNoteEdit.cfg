SPECIFICATION Spec
CONSTANTS
    w1 = w1
    w2 = w2
    w3 = w3
    Writers = {w1, w2}
    NoOwner = NoOwner
    Timeout = 2
    HoldLimit = 3
    MaxCrashes = 0
    Tools = {"write", "append", "patch"}
    MaxFaults = 1
SYMMETRY WriterSymmetry
INVARIANT IndexAgrees
PROPERTIES Linearizable
