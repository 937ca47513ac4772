CONSTANTS
    Desc = {d1, d2}
    Body = {b1, b2}
    Mob = {m1}
    Person = {p1}
    Rare = {"linkaccount"}
    None = None
SPECIFICATION Spec
INVARIANT NothingFreedInTheWorld
