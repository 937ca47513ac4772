CONSTANTS
    Conn = {c1, c2}
    MaxAge = 3
    Rare = {"twin", "namesake", "orphan", "unlisted", "undo", "snapshot", "pretender", "bare"}
    MaxRare = 1
    None = None
SPECIFICATION Spec
SYMMETRY Symmetric
CHECK_DEADLOCK FALSE
 
 
 
INVARIANT StartsAgain
INVARIANT StaysDeleted
 
