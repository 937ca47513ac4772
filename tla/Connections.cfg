SPECIFICATION FairSpec
CONSTANTS
    d1 = d1  d2 = d2
    b1 = b1  b2 = b2
    Desc <- MCDesc
    Buffer <- MCBuffer
    Small = 1
    Large = 2
    MaxText = 3
    Own = Own
    None = None
INVARIANTS
    BuffersOnce
    PrivateOutput
    WalkSafe
PROPERTIES
    TextSent
