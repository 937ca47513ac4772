CONSTANTS
    Conn = {c1, c2}
    MaxAge = 3
    Rare = {"namesake"}
    MaxRare = 1
    None = None
SPECIFICATION Spec
SYMMETRY Symmetric
CHECK_DEADLOCK FALSE
INVARIANT NothingInherited
