SPECIFICATION Spec
CONSTANTS
    Prepares = {1}
    MaxPending = 2
    MaxBlocks = 2
    Calls = {c1, c2}
    MaxActivity = 3
    MaxTurns = 2
    NoRevision = NoRevision
INVARIANTS PromptIsCurrent WorkerIsOwned
PROPERTIES PreparedIsComplete PrepareReturns RemindersAreDue WorkersEnd
CHECK_DEADLOCK FALSE
