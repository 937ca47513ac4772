SPECIFICATION Spec
CONSTANTS
    Char = {a1, a2}
    Room = {r1}
    MaxCharacters = 3
    MaxAffects = 2
    None = None
SYMMETRY Symmetric
INVARIANTS
    RegistrySound
    ListMatches
PROPERTY WalkSound
