------------------------------ MODULE MCObjects ------------------------------
(* A player, a mobile, two rooms; a lamp, a pouch worn as a belt, one corpse. *)
EXTENDS Objects, TLC

CONSTANTS pc, mob, r1, r2, lamp, pouch, corpse

MCFits == {<<lamp, "light">>, <<lamp, "belt">>, <<pouch, "waist">>}
MCOwn == [o \in Obj |-> IF o = corpse THEN 5 ELSE 1]
RoomSymmetry == Permutations(Room)
=============================================================================
