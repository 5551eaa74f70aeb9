SPECIFICATION Spec
CONSTANTS
    a = a
    b = b
    c = c
    x = x
    y = y
    z = z
    u = u
    None = None
    Links <- LinksOf
    Notes = {a, b, c}
    Texts = {y, z, u}
    Unparsable = {u}
    Bodyless = {z}
    Servers = {"s"}
    Hooks = {}
    MaxEdits = 2
    MaxWrites = 1
    MaxFaults = 0
    Rebuild = FALSE
INVARIANTS QuietSyncMirrors IndexFollowsRows
