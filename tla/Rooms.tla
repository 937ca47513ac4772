------------------------------- MODULE Rooms --------------------------------
(***************************************************************************)
(* What the modules of the location system share: the two sentinels.       *)
(***************************************************************************)
EXTENDS Entities

CONSTANTS
    NOWHERE,        \* the sentinel of the location field
    Closed          \* the cursor state of a character no render window spoofs

ASSUME RoomAssumption == /\ NOWHERE \notin Room
                         /\ Closed \notin Room \cup {NOWHERE}

Place == Room \cup {NOWHERE}
=============================================================================
