SPECIFICATION Spec
CONSTANTS
    a = a
    b = b
    c = c
    x = x
    y = y
    z = z
    s1 = s1
    s2 = s2
    e1 = e1
    None = None
    Notes = {a, b, c}
    Basenames = {x, y, z}
    Base <- BaseOf
    Vaults <- Short
    Servers = {s1, s2}
    Edits = {e1}
    NewLinks = {None, a}
    Ops = {"rename"}
    MaxRefactors = 1
    MaxFaults = 0
SYMMETRY Alike
INVARIANT LinksLead
CHECK_DEADLOCK FALSE
