---------------------------- MODULE OccupantChain ---------------------------
(***************************************************************************)
(* The occupant chains of placement.cpp with their pointers: every room    *)
(* has a head (ls_first_occupant_), every character one forward link       *)
(* (ls_next_in_room_) and no back link, so each operation walks from a     *)
(* head to the link it rewrites.  A link that one operation leaves behind  *)
(* is followed by the next.                                                *)
(*                                                                         *)
(* Every operation of Placement is taken together with what the code does  *)
(* to the pointers for it.  The pointer half reads pointers and location   *)
(* fields only, never the sequence, and has no guard: it cannot keep the   *)
(* operation from happening, and PointersAgree says that it never strays.  *)
(***************************************************************************)
EXTENDS Placement

CONSTANT Null           \* the null pointer

ASSUME NullAssumption == Null \notin Char

Ptr == Char \cup {Null}

VARIABLES
    head,               \* head[r]: world[r].ls_first_occupant_
    next                \* next[c]: c->ls_next_in_room_

ptrs == <<head, next>>

allVars == <<live, loc, chain, cursor, head, next>>

PtrInit ==
    /\ head = [r \in Room |-> Null]
    /\ next = [c \in Char |-> Null]

\* A set that holds the head of r and, with an occupant, the one its link names.
Saturated(S, r) ==
    /\ head[r] \in S \cup {Null}
    /\ \A c \in S : next[c] \in S \cup {Null}

\* The occupants a walk from the head of r meets.
Met(r) == {c \in Char : \A S \in SUBSET Char : Saturated(S, r) => c \in S}

\* Where a walk of r stops: at the occupant whose link is null.
TailOf(r) == CHOOSE c \in Met(r) : next[c] = Null

\* The occupants of r whose link is c.
Predecessors(c, r) == {p \in Met(r) : next[p] = c}

ClearLink(c) ==
    /\ next' = [next EXCEPT ![c] = Null]
    /\ UNCHANGED head

\* Mutant: the newcomer is linked in front.
LinkAtHead(c, r) ==
    IF r = NOWHERE THEN UNCHANGED ptrs
    ELSE /\ head' = [head EXCEPT ![r] = c]
         /\ next' = [next EXCEPT ![c] = head[r]]

LinkAtTail(c, r) ==
    IF r = NOWHERE THEN UNCHANGED ptrs
    ELSE IF head[r] = Null
    THEN /\ head' = [head EXCEPT ![r] = c]
         /\ next' = [next EXCEPT ![c] = Null]
    ELSE /\ next' = [next EXCEPT ![TailOf(r)] = c, ![c] = Null]
         /\ UNCHANGED head

Unlink(c) ==
    LET r == loc[c] IN
    IF r = NOWHERE THEN UNCHANGED ptrs
    ELSE IF head[r] = c
    THEN /\ head' = [head EXCEPT ![r] = next[c]]
         /\ next' = [next EXCEPT ![c] = Null]
    ELSE IF Predecessors(c, r) = {} THEN UNCHANGED ptrs
    ELSE /\ next' = [next EXCEPT ![CHOOSE p \in Predecessors(c, r) : TRUE] = next[c],
                                 ![c] = Null]
         /\ UNCHANGED head

\* The first walk of relocate_all_occupants ends on the tail of the from-chain,
\* whose link takes the to-chain; then the two heads.
Splice(from, to) ==
    IF head[from] = Null THEN UNCHANGED ptrs
    ELSE /\ next' = [next EXCEPT ![TailOf(from)] = head[to]]
         /\ head' = [head EXCEPT ![to] = head[from], ![from] = Null]

-----------------------------------------------------------------------------
ChainInit == Init /\ PtrInit

ChainNext ==
    \/ \E c \in Char :
          \/ Create(c) /\ ClearLink(c)
          \/ CharFromRoom(c) /\ Unlink(c)
          \/ ExtractChar(c) /\ IF loc[c] # NOWHERE THEN Unlink(c) ELSE UNCHANGED ptrs
          \/ Restore(c) /\ UNCHANGED ptrs
    \/ \E c \in Char, r \in Place :
          \/ CharToRoom(c, r) /\ LinkAtTail(c, r)
          \/ (OpenCursor(c, r) \/ Retarget(c, r)) /\ UNCHANGED ptrs
    \/ \E from, to \in Room : RelocateAllOccupants(from, to) /\ Splice(from, to)

ChainSpec == ChainInit /\ [][ChainNext]_allVars

-----------------------------------------------------------------------------
PtrTypeOK ==
    /\ head \in [Room -> Ptr]
    /\ next \in [Char -> Ptr]

\* s is what a walk from the head of r meets, up to the null pointer that ends it.
IsWalk(s, r) ==
    /\ head[r] = IF s = <<>> THEN Null ELSE s[1]
    /\ \A i \in 1..Len(s) : next[s[i]] = IF i = Len(s) THEN Null ELSE s[i + 1]

\* However characters come, go, die and are ferried, a walk along next_in_room
\* from the head of a room meets its occupants, each once, in their order, and
\* ends: no operation leaves a link behind that a later one follows into another
\* room, into a cycle or into freed memory.
PointersAgree == \A r \in Room : IsWalk(chain[r], r)
=============================================================================
