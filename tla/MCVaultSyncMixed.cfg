SPECIFICATION MixedSpec
CONSTANTS
    a = a
    b = b
    c = c
    x = x
    y = y
    z = z
    u = u
    None = None
    Links <- LinksOf
    Notes = {a, b}
    Texts = {x, z, u}
    Unparsable = {u}
    Bodyless = {z}
    Servers = {"s"}
    Hooks = {"h"}
    MaxEdits = 1
    MaxWrites = 0
    MaxFaults = 1
    Rebuild = TRUE
INVARIANTS MarkedIsRebuilt
PROPERTIES RepairLeavesNoDrift Settles
