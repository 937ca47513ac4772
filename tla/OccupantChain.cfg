SPECIFICATION ChainSpec
CONSTANTS
    c1 = c1  c2 = c2  c3 = c3
    r1 = r1  r2 = r2
    Char <- MCChar
    Room <- MCRoom
    NOWHERE = NOWHERE
    Closed = Closed
    Null = Null
INVARIANTS
    AbsentMeansUnlinked
    LinkedWhereItStands
    NoFreedOccupant
    PointersAgree
PROPERTIES
    OrderIsStable
    ImplementsLocation
