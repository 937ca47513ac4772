SPECIFICATION TurnsSpec
CONSTANTS
    c1 = c1  c2 = c2  c3 = c3
    Char <- MCChar
    Mystic <- MCMystic
    Frail <- MCMystic
    None = None
SYMMETRY MCSymmetry
INVARIANTS
    ListSound
    TargetsExist
    NobodyTurnsToTheDead
    
PROPERTY OnlyTheVoidStrays
