CONSTANTS
    Desc = {d1, d2}
    Body = {b1, b2}
    Mob = {m1}
    Person = {p1}
    Rare = {"blank name", "dc", "switch", "snoop", "linkaccount"}
    None = None
SPECIFICATION Spec
INVARIANTS OneBody DescPlays
PROPERTIES ClosingEnds LinkLossEnds
CHECK_DEADLOCK FALSE
