SPECIFICATION FairSpec
CONSTANTS
    w1 = w1
    w2 = w2
    w3 = w3
    Writers = {w1, w2}
    NoOwner = NoOwner
    Timeout = 1
    HoldLimit = 2
    MaxCrashes = 1
    Tools = {"append"}
    MaxFaults = 0
INVARIANT OverlapNeedsMisfire
PROPERTIES LinearizableUntilMisfire WaitEnds
