SPECIFICATION ObjSpec
CONSTANTS
    pc = pc
    mob = mob
    r1 = r1
    r2 = r2
    lamp = lamp
    pouch = pouch
    corpse = corpse
    Char = {pc, mob}
    Room = {r1, r2}
    NOWHERE = NOWHERE
    Closed = Closed
    Null = Null
    Obj = {lamp, pouch, corpse}
    Corpse = {corpse}
    Bag = {pouch}
    Lamp = {lamp}
    Eternal = {}
    Bladed = {corpse}
    Fits <- MCFits
    Own <- MCOwn
    Player = {pc}
    MaxItems = 1
    MaxWeight = 3
    MaxDrift = 1
    MaxWrong = 1
SYMMETRY RoomSymmetry
INVARIANTS
    HeldOnce
    ItemsCounted
    WeightsAddUp
    LampsLight
CHECK_DEADLOCK FALSE
