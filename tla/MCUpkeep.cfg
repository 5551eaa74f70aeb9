SPECIFICATION Spec
CONSTANTS
    Cards = {"k1", "k2"}
    Stem <- MCStem
    Scope <- MCScope
    Homes = {}
    Stock <- MCStock
    InlineDays = 1
    Rotators = {"r1", "r2"}
    Windows = {"w1", "w2"}
    Ours = {"a", "b"}
    Theirs = {"z"}
    Note <- MCNote
    Union = {}
    Claimants = {"p", "q", "r"}
    Writers = {"p", "q"}
    Searches = {1, 2, 3}
    Texts = {"o", "n", "u"}
    None = "none"
    Order <- MCOrder
    Whole = {"command"}
    Versions = {1, 2}
    Runs = {"r1", "r2"}
    MaxTxn = 3
    MaxEdits = 1
    Packages = {1, 2}
    Vaults = {3, 4}
    Scripts = {"hook"}
    MaxSetups = 2
    MaxOwnEdits = 1
    Absent = Absent
INVARIANTS RotationKeeps NothingLostInSilence OneAtWork SkipsAreCountedOnce ExchangeIsExact AllOrNothing DoneOrUndone
PROPERTIES OwnersWorkStands
CHECK_DEADLOCK FALSE
