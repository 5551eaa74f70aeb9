SPECIFICATION EverySpec
CONSTANTS
    a = a
    b = b
    c = c
    x = x
    y = y
    z = z
    s1 = s1
    s2 = s2
    None = None
    Notes = {a, b, c}
    Basenames = {x, y, z}
    Base <- MCBase
    Vaults <- MCVaults
    Servers = {s1, s2}
    Edits = {"e"}
    NewLinks = {None, a}
    Ops = {"append", "rename", "safe", "cascade"}
    MaxRefactors = 2
    MaxFaults = 1
    Processes = {s1, s2}
    Pages = {"n"}
    Width <- MCWidth
    Odd = "odd"
    DefaultModel = "bge"
    Unset = Unset
    MaxStarts = 2
    MaxPages = 1
    Thresholds = {1, 2, 3}
    Guard = 1
    Zones = {2}
    EveryTurns = 2
    Full = 3
    MaxCompacts = 1
    MaxInstead = 1
    Sessions = {s1, s2}
    Layers = {1, 2}
    NoFile = NoFile
    MaxPolls = 2
    MaxLayerEdits = 1
    Rules = {"d", "l"}
    OwnRules = {"l"}
    Compilers = {s1, s2}
    NotThere = NotThere
    MaxChoices = 1
    MaxCompiles = 3
    HookRuns = {s1, s2}
    Plan <- MCPlan
    Offer <- MCOffer
    Kept = {"route"}
    Cap = 1
    MaxRuns = 3
    Hooks = {s1, s2}
    Hits = {"n"}
    Interval = 2
    MaxTurns = 4
    NoState = NoState
SYMMETRY Alike
INVARIANTS NothingLost BystandersAgree QuietMirrors PathLinksLead TagIsHonest RosterBelongs RulesStand RecallIsOnce ShownIsRecorded
PROPERTIES SessionIsReminded NoUpdateLost ReminderIsDue
CHECK_DEADLOCK FALSE
