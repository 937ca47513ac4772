SPECIFICATION PulseSpec
CONSTANTS
    c1 = c1  c2 = c2  c3 = c3
    Char <- MCChar
    Cycle <- MCCycle
    Priority <- MCPriority
    None = None
    Wild = Wild
INVARIANTS
    NeverFrozen
    ListSound
PROPERTIES
    FirstComeFirstServed
    PassedOverMovesUp
    
CHECK_DEADLOCK FALSE
