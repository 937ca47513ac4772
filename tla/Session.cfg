CONSTANTS
    Desc = {d1, d2, d3}
    Body = {b1, b2, b3}
    Mob = {m1}
    Person = {p1, p2}
    Rare = {}
    None = None
SPECIFICATION Spec
SYMMETRY Symmetric
INVARIANT LinksAgree
INVARIANT Defined
INVARIANT DeadLinksHeld
