------------------------------ MODULE Location ------------------------------
(***************************************************************************)
(* What the location system of src/src/entity/placement.cpp promises to   *)
(* the rest of the server: every character stands in at most one room, and *)
(* only three things ever change that -- a character is placed, a          *)
(* character is removed, or a whole room's occupants are carried to        *)
(* another room (the ferries).  Occupant chains, location fields and       *)
(* render windows are the private business of the implementation           *)
(* (Placement), which is proved to refine this specification.              *)
(***************************************************************************)
CONSTANTS
    Char,       \* characters, players and mobiles alike
    Room,       \* ids of the rooms that exist
    NOWHERE     \* the location of a character that is in no room

VARIABLE where  \* where[c]: the room c stands in, or NOWHERE

Init == where = [c \in Char |-> NOWHERE]

Place(c, r) ==
    /\ where[c] = NOWHERE
    /\ where' = [where EXCEPT ![c] = r]

Remove(c) ==
    /\ where[c] # NOWHERE
    /\ where' = [where EXCEPT ![c] = NOWHERE]

CarryAll(from, to) ==
    where' = [c \in Char |-> IF where[c] = from THEN to ELSE where[c]]

Next ==
    \/ \E c \in Char, r \in Room : Place(c, r)
    \/ \E c \in Char : Remove(c)
    \/ \E from, to \in Room : CarryAll(from, to)

Spec == Init /\ [][Next]_where
=============================================================================
