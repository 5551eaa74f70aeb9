SPECIFICATION FairSpec
CONSTANTS
    a = a
    b = b
    c = c
    x = x
    y = y
    z = z
    u = u
    None = None
    Links <- LinksOf
    Notes = {a, b}
    Texts = {x, z}
    Unparsable = {}
    Bodyless = {}
    Servers = {"s"}
    Hooks = {}
    MaxEdits = 1
    MaxWrites = 0
    MaxFaults = 1
    Rebuild = FALSE
PROPERTIES GraphSettles
