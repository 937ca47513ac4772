----------------------------- MODULE CombatTurns -----------------------------
(***************************************************************************)
(* CombatList with a count of the turns that char_from_room's loop has     *)
(* taken since the running function began: a history variable, which no    *)
(* step reads.                                                             *)
(***************************************************************************)
EXTENDS CombatList

\* The characters of the memory the server has.
ASSUME CharAssumption == IsFiniteSet(Char) /\ Char # {}

VARIABLE turns

turnsVars == <<vars, turns>>

TurnsInit == Init /\ turns = 0

\* The loop takes a turn: c still fights somebody.
Turning == \E c \in Char : Due("leave_room", c) /\ fighting[c] # None

TurnsNext ==
    /\ Next
    /\ turns' = IF agenda' = <<>> THEN 0 ELSE IF Turning THEN turns + 1 ELSE turns

TurnsSpec == TurnsInit /\ [][TurnsNext]_turnsVars

-----------------------------------------------------------------------------
\* char_from_room's loop ends by itself, whoever fights c, is stopped and turns
\* to another in it: every turn costs c an attacker, so there are fewer turns
\* than characters.  The limit of 100 turns, after which the code reports that it
\* could not stop the fight and goes on, is never what ends it.
LeavingCostsAttackers == turns < Cardinality(Char)
=============================================================================
