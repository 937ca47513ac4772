------------------------------ MODULE Placement -----------------------------
(***************************************************************************)
(* The LocationSystem: src/src/entity/placement.cpp, with the character    *)
(* births and deaths that feed it.  A character's location is stored       *)
(* twice: in its own field (char_data::ls_location_id_) and as membership  *)
(* of a room's occupant chain (room_data::ls_first_occupant_ linked by     *)
(* char_data::ls_next_in_room_).  The banner of placement.cpp, lines       *)
(* 64-114, says how the two must agree; ScopedRenderLocation makes them    *)
(* disagree on purpose while it is open.                                   *)
(*                                                                         *)
(* A chain is a sequence here, head first; OccupantChain adds the pointers.*)
(* The counts of light and of zone power the same functions keep decide    *)
(* nothing here and are left out.                                          *)
(***************************************************************************)
EXTENDS Chains, Rooms

VARIABLES
    live,           \* allocated characters: created and not yet freed
    loc,            \* loc[c]: the location field of c
    chain,          \* chain[r]: the occupants linked from world[r], head first
    cursor          \* cursor[c]: location saved by the window open on c, or Closed

vars == <<live, loc, chain, cursor>>

TypeOK ==
    /\ live \subseteq Char
    /\ loc \in [Char -> Place]
    /\ chain \in [Room -> Seq(Char)]
    /\ cursor \in [Char -> Place \cup {Closed}]

-----------------------------------------------------------------------------
Linked(c, r) == c \in Members(chain[r])

-----------------------------------------------------------------------------
Init ==
    /\ live = {}
    /\ loc = [c \in Char |-> NOWHERE]
    /\ chain = [r \in Room |-> <<>>]
    /\ cursor = [c \in Char |-> Closed]

\* A character is allocated (read_mobile, or a player record loaded at login);
\* clear_char() leaves its location NOWHERE.
Create(c) ==
    /\ c \notin live
    /\ live' = live \cup {c}
    /\ loc' = [loc EXCEPT ![c] = NOWHERE]
    /\ UNCHANGED <<chain, cursor>>

\* char_to_room(c, r).  Every caller passes a character it has just created
\* or just taken out of its room.  NOWHERE writes the field and links nothing.
CharToRoom(c, r) ==
    /\ c \in live
    /\ cursor[c] = Closed
    /\ loc[c] = NOWHERE
    /\ loc' = [loc EXCEPT ![c] = r]
    /\ chain' = IF r = NOWHERE THEN chain
                ELSE [chain EXCEPT ![r] = Append(@, c)]
    /\ UNCHANGED <<live, cursor>>

\* Mutant: the last occupant takes the place of the one that leaves.
DetachBySwap(c) ==
    IF loc[c] = NOWHERE \/ ~ Linked(c, loc[c])
    THEN UNCHANGED <<loc, chain>>
    ELSE \E i \in 1..Len(chain[loc[c]]) :
            /\ FoundAt(chain[loc[c]], c, i)
            /\ chain' = [chain EXCEPT ![loc[c]] = UnlinkedBySwap(@, i)]
            /\ loc' = [loc EXCEPT ![c] = NOWHERE]

\* detach_char_from_room(c): a character that is already nowhere, or that the
\* search does not meet in the chain its field names, is left as it is.
DetachCharFromRoom(c) ==
    IF loc[c] = NOWHERE \/ ~ Linked(c, loc[c])
    THEN UNCHANGED <<loc, chain>>
    ELSE \E i \in 1..Len(chain[loc[c]]) :
            /\ FoundAt(chain[loc[c]], c, i)
            /\ chain' = [chain EXCEPT ![loc[c]] = Unlinked(@, i)]
            /\ loc' = [loc EXCEPT ![c] = NOWHERE]

\* char_from_room(c), as every relocation calls it before char_to_room.
CharFromRoom(c) ==
    /\ c \in live
    /\ cursor[c] = Closed
    /\ DetachCharFromRoom(c)
    /\ UNCHANGED <<live, cursor>>

\* Mutant: free_char() without leaving the room first.
ExtractCharStillLinked(c) ==
    /\ c \in live
    /\ cursor[c] = Closed
    /\ live' = live \ {c}
    /\ UNCHANGED <<loc, chain, cursor>>

\* extract_char(c, -1) as far as location goes: the field alone decides
\* whether c is taken out of a chain before free_char() releases it.
ExtractChar(c) ==
    /\ c \in live
    /\ cursor[c] = Closed
    /\ IF loc[c] # NOWHERE THEN DetachCharFromRoom(c)
                           ELSE UNCHANGED <<loc, chain>>
    /\ live' = live \ {c}
    /\ UNCHANGED cursor

\* Mutant: the merged chain keeps its old fields.
RelocateWithoutRestamp(from, to) ==
    /\ from # to
    /\ \A c \in Char : cursor[c] = Closed
    /\ chain' = [chain EXCEPT ![to] = chain[from] \o chain[to], ![from] = <<>>]
    /\ UNCHANGED <<live, loc, cursor>>

\* Mutant: the passengers replace who stood at the landing.
RelocateOverwriting(from, to) ==
    /\ from # to
    /\ \A c \in Char : cursor[c] = Closed
    /\ chain' = [chain EXCEPT ![to] = chain[from], ![from] = <<>>]
    /\ loc' = [c \in Char |-> IF Linked(c, from) THEN to ELSE loc[c]]
    /\ UNCHANGED <<live, cursor>>

\* relocate_all_occupants(from, to): the from-chain is spliced in front of the
\* to-chain and the field of every member of the merged chain is re-stamped.
RelocateAllOccupants(from, to) ==
    /\ from # to
    /\ \A c \in Char : cursor[c] = Closed
    /\ LET merged == chain[from] \o chain[to]
       IN  /\ chain' = [chain EXCEPT ![to] = merged, ![from] = <<>>]
           /\ loc' = [c \in Char |-> IF c \in Members(merged) THEN to ELSE loc[c]]
    /\ UNCHANGED <<live, cursor>>

-----------------------------------------------------------------------------
(* ScopedRenderLocation: a window spoofs the location field of one         *)
(* character while a message is rendered as if from another room.          *)

\* Mutant: the constructor and retarget() before the refusal was added.
NeverRefuse(saved, room) == FALSE

WouldBreakTheAbsenceInvariant(saved, room) == room = NOWHERE /\ saved # NOWHERE

Spoof(c, saved, room) ==
    loc' = IF WouldBreakTheAbsenceInvariant(saved, room) THEN loc
           ELSE [loc EXCEPT ![c] = room]

OpenCursor(c, room) ==
    /\ c \in live
    /\ cursor[c] = Closed
    /\ cursor' = [cursor EXCEPT ![c] = loc[c]]
    /\ Spoof(c, loc[c], room)
    /\ UNCHANGED <<live, chain>>

Retarget(c, room) ==
    /\ cursor[c] # Closed
    /\ Spoof(c, cursor[c], room)
    /\ UNCHANGED <<live, chain, cursor>>

\* restore(), explicit or from the destructor.
Restore(c) ==
    /\ cursor[c] # Closed
    /\ loc' = [loc EXCEPT ![c] = cursor[c]]
    /\ cursor' = [cursor EXCEPT ![c] = Closed]
    /\ UNCHANGED <<live, chain>>

-----------------------------------------------------------------------------
Next ==
    \/ \E c \in Char : Create(c) \/ CharFromRoom(c) \/ ExtractChar(c) \/ Restore(c)
    \/ \E c \in Char, r \in Place : CharToRoom(c, r) \/ OpenCursor(c, r) \/ Retarget(c, r)
    \/ \E from, to \in Room : RelocateAllOccupants(from, to)

Spec == Init /\ [][Next]_vars

-----------------------------------------------------------------------------
(* The location invariant, one operator per sentence of the banner.        *)

\* The room c really is in: what the field says, or what the window saved.
TrueLocation(c) == IF cursor[c] = Closed THEN loc[c] ELSE cursor[c]

\* A character whose field says NOWHERE is linked into no room's chain, even
\* inside a render window; every absence guard and teardown path relies on it
\* (placement.cpp 76-77, 99-106).
AbsentMeansUnlinked ==
    \A c \in Char, r \in Room : loc[c] = NOWHERE => ~ Linked(c, r)

\* Outside a window, a character whose field names a room is linked into that
\* room's chain and into no other (placement.cpp 78-80); inside one, the same
\* holds of the location the window will put back.
LinkedWhereItStands ==
    \A c \in Char, r \in Room : Linked(c, r) <=> TrueLocation(c) = r

\* No chain meets a character twice: a walk along next_in_room visits every
\* occupant once and ends (char_to_room's append, relocate's splice).
NoDuplicateLink == \A r \in Room : Distinct(chain[r])

\* Freed memory is unreachable: no room's chain holds a character that
\* extract_char has released (handler.cpp 578-588, census B's D5).
NoFreedOccupant == \A r \in Room : Members(chain[r]) \subseteq live

\* A window belongs to a live character and never hides a linked one behind
\* NOWHERE: what the refusal in the constructor and in retarget() is for
\* (placement.cpp 406-420).
WindowsAreSound ==
    \A c \in Char : cursor[c] # Closed =>
        /\ c \in live
        /\ cursor[c] # NOWHERE => loc[c] # NOWHERE

\* The inductive strengthening the proofs use.
IInv == /\ TypeOK
        /\ LinkedWhereItStands
        /\ NoDuplicateLink
        /\ NoFreedOccupant
        /\ WindowsAreSound

\* Occupants that stay together stay in order, whoever else comes, leaves or is
\* carried in beside them: "2.orc" keeps naming the same orc
\* (get_char_room counts along the chain), and a ferry keeps its passengers in
\* the order they boarded (handler.h 464-480).
OrderIsStable ==
    [][\A r, s \in Room : \A c, d \in Members(chain'[s]) :
          Before(chain[r], c, d) => Before(chain'[s], c, d)]_vars

-----------------------------------------------------------------------------
(* What the rest of the server may believe.                                *)

Where == [c \in Char |-> IF \E r \in Room : Linked(c, r)
                         THEN CHOOSE r \in Room : Linked(c, r) ELSE NOWHERE]

Abstract == INSTANCE Location WITH where <- Where

\* Every step of the implementation is one placement, one removal, one
\* ferrying, or changes nobody's place.
ImplementsLocation == Abstract!Spec
=============================================================================
