------------------------- MODULE OccupantChainProofs ------------------------
(***************************************************************************)
(* The occupant chains, for any set of characters and rooms: first as the  *)
(* sequences of Placement, then as the pointers that hold them.            *)
(*                                                                         *)
(* Placement: the location invariant, the order of the chains and the      *)
(* refinement of Location.  The inductive invariant is IInv:               *)
(* AbsentMeansUnlinked alone is not inductive, because what a character    *)
(* returns to when its window closes is the location the window saved, so  *)
(* the chains are tied to TrueLocation instead of to the field.            *)
(*                                                                         *)
(* OccupantChain: the pointers follow the sequences.  Each pointer         *)
(* operation is shown to turn the walk of the old sequence into the walk   *)
(* of the new one and to leave the walks of all other rooms alone: rooms   *)
(* share no occupant (LinkedWhereItStands), so a link rewritten for one    *)
(* room lies on no other room's walk.                                      *)
(***************************************************************************)
EXTENDS OccupantChain, ChainLemmas, WellFoundedInduction

(***************************************************************************)
(* The location invariant.                                                 *)
(***************************************************************************)

\* The two outcomes of detach_char_from_room when no window is open on c:
\* nothing to do, or c leaves the one chain it is linked into.
LEMMA DetachOutcome ==
    ASSUME IInv, NEW c \in Char, cursor[c] = Closed, DetachCharFromRoom(c)
    PROVE  \/ loc[c] = NOWHERE /\ UNCHANGED <<loc, chain>>
           \/ /\ loc[c] \in Room
              /\ loc' = [loc EXCEPT ![c] = NOWHERE]
              /\ chain' \in [Room -> Seq(Char)]
              /\ \A r \in Room : /\ Members(chain'[r]) = Members(chain[r]) \ {c}
                                 /\ Distinct(chain'[r])
<1>1. CASE loc[c] = NOWHERE
  BY <1>1 DEF DetachCharFromRoom
<1>2. CASE loc[c] # NOWHERE
  <2> DEFINE h == loc[c]
  <2>1. h \in Room /\ chain[h] \in Seq(Char)
    BY <1>2 DEF IInv, TypeOK, Place
  <2>2. Linked(c, h)
    BY <2>1 DEF IInv, LinkedWhereItStands, TrueLocation
  <2>3. PICK i \in 1..Len(chain[h]) :
           /\ FoundAt(chain[h], c, i)
           /\ chain' = [chain EXCEPT ![h] = Unlinked(@, i)]
           /\ loc' = [loc EXCEPT ![c] = NOWHERE]
    BY <1>2, <2>2 DEF DetachCharFromRoom
  <2>4. /\ Unlinked(chain[h], i) \in Seq(Char)
        /\ Members(Unlinked(chain[h], i)) = Members(chain[h]) \ {c}
        /\ Distinct(Unlinked(chain[h], i))
    <3>1. Distinct(chain[h])
      BY <2>1 DEF IInv, NoDuplicateLink
    <3>2. chain[h][i] = c
      BY <2>3 DEF FoundAt
    <3> QED
      BY <2>1, <3>1, <3>2, UnlinkedMembers
  <2>5. chain \in [Room -> Seq(Char)]
    BY DEF IInv, TypeOK
  <2>6. chain' \in [Room -> Seq(Char)] /\ chain'[h] = Unlinked(chain[h], i)
    BY <2>1, <2>3, <2>4, <2>5
  <2>7. ASSUME NEW r \in Room, r # h
        PROVE  /\ Members(chain'[r]) = Members(chain[r]) \ {c}
               /\ Distinct(chain'[r])
    <3>1. chain'[r] = chain[r]
      BY <2>3, <2>5, <2>7
    <3>2. c \notin Members(chain[r])
      BY <2>7, <2>1 DEF IInv, LinkedWhereItStands, TrueLocation, Linked
    <3> QED
      BY <3>1, <3>2 DEF IInv, NoDuplicateLink
  <2> QED
    BY <2>1, <2>3, <2>4, <2>6, <2>7
<1> QED
  BY <1>1, <1>2

LEMMA InitInvariant == Init => IInv
<1> SUFFICES ASSUME Init PROVE IInv
  OBVIOUS
<1>1. TypeOK
  BY DEF Init, TypeOK, Place
<1>2. \A r \in Room : Members(chain[r]) = {} /\ Distinct(chain[r])
  BY DEF Init, Members, Distinct
<1>3. LinkedWhereItStands
  BY <1>2, RoomAssumption DEF Init, LinkedWhereItStands, TrueLocation, Linked
<1>4. WindowsAreSound
  BY DEF Init, WindowsAreSound
<1> QED
  BY <1>1, <1>2, <1>3, <1>4 DEF IInv, NoDuplicateLink, NoFreedOccupant

LEMMA CreateStep ==
    ASSUME IInv, NEW c \in Char, Create(c)
    PROVE  IInv'
<1> USE DEF IInv, Create
<1>1. TypeOK'
  BY DEF TypeOK, Place
<1>2. \A r \in Room : ~ Linked(c, r)
  BY DEF NoFreedOccupant, Linked
<1>3. cursor[c] = Closed
  BY DEF WindowsAreSound
<1>4. loc \in [Char -> Place]
  BY DEF TypeOK
<1>5. LinkedWhereItStands'
  <2>1. ASSUME NEW d \in Char, NEW r \in Room
        PROVE  (Linked(d, r) <=> TrueLocation(d) = r)'
    <3>1. Linked(d, r)' <=> Linked(d, r)
      BY DEF Linked
    <3>2. CASE d = c
      BY <3>1, <3>2, <1>2, <1>3, <1>4, RoomAssumption DEF TrueLocation
    <3>3. CASE d # c
      BY <3>1, <3>3, <1>4 DEF TrueLocation, LinkedWhereItStands
    <3> QED
      BY <3>2, <3>3
  <2> QED
    BY <2>1 DEF LinkedWhereItStands
<1>6. NoDuplicateLink' /\ NoFreedOccupant'
  BY DEF NoDuplicateLink, NoFreedOccupant
<1>7. WindowsAreSound'
  BY <1>3, <1>4 DEF WindowsAreSound
<1> QED
  BY <1>1, <1>5, <1>6, <1>7

LEMMA CharToRoomStep ==
    ASSUME IInv, NEW c \in Char, NEW r \in Place, CharToRoom(c, r)
    PROVE  IInv'
<1> USE DEF CharToRoom
<1>0. TypeOK /\ LinkedWhereItStands /\ NoDuplicateLink /\ NoFreedOccupant /\ WindowsAreSound
  BY DEF IInv
<1>1. /\ loc \in [Char -> Place] /\ chain \in [Room -> Seq(Char)]
      /\ loc' = [loc EXCEPT ![c] = r]
  BY <1>0 DEF TypeOK
<1>2. \A q \in Room : c \notin Members(chain[q])
  BY <1>0, RoomAssumption DEF LinkedWhereItStands, TrueLocation, Linked
<1>3. /\ chain' \in [Room -> Seq(Char)]
      /\ \A q \in Room : /\ Members(chain'[q]) = Members(chain[q]) \cup (IF q = r THEN {c} ELSE {})
                         /\ Distinct(chain'[q])
  <2>1. CASE r = NOWHERE
    BY <2>1, <1>0, <1>1, RoomAssumption DEF NoDuplicateLink
  <2>2. CASE r \in Room
    <3>1. chain' = [chain EXCEPT ![r] = Append(@, c)]
      BY <2>2, RoomAssumption
    <3>2. /\ Append(chain[r], c) \in Seq(Char)
          /\ Members(Append(chain[r], c)) = Members(chain[r]) \cup {c}
          /\ Distinct(Append(chain[r], c))
      <4>1. chain[r] \in Seq(Char) /\ Distinct(chain[r])
        BY <2>2, <1>0, <1>1 DEF NoDuplicateLink
      <4> QED
        BY <4>1, <2>2, <1>2, AppendMembers
    <3> QED
      BY <2>2, <3>1, <3>2, <1>0, <1>1 DEF NoDuplicateLink
  <2> QED
    BY <2>1, <2>2 DEF Place
<1>4. TypeOK'
  BY <1>0, <1>1, <1>3 DEF TypeOK
<1>5. LinkedWhereItStands'
  <2>1. ASSUME NEW d \in Char, NEW q \in Room
        PROVE  (Linked(d, q) <=> TrueLocation(d) = q)'
    <3>1. CASE d = c
      BY <3>1, <1>1, <1>2, <1>3 DEF Linked, TrueLocation
    <3>2. CASE d # c
      BY <3>2, <1>0, <1>1, <1>3 DEF Linked, TrueLocation, LinkedWhereItStands
    <3> QED
      BY <3>1, <3>2
  <2> QED
    BY <2>1 DEF LinkedWhereItStands
<1>6. NoDuplicateLink' /\ NoFreedOccupant'
  BY <1>0, <1>3 DEF NoDuplicateLink, NoFreedOccupant
<1>7. WindowsAreSound'
  BY <1>0, <1>1 DEF WindowsAreSound
<1> QED
  BY <1>4, <1>5, <1>6, <1>7 DEF IInv

\* What a detach leaves behind, whether or not the character is then freed.
LEMMA DetachStep ==
    ASSUME IInv, NEW c \in Char, cursor[c] = Closed, DetachCharFromRoom(c),
           UNCHANGED cursor
    PROVE  /\ loc' \in [Char -> Place] /\ chain' \in [Room -> Seq(Char)]
           /\ LinkedWhereItStands' /\ NoDuplicateLink'
           /\ \A r \in Room : Members(chain'[r]) \subseteq live \ {c}
           /\ \A d \in Char \ {c} : loc'[d] = loc[d]
<1>0. TypeOK /\ LinkedWhereItStands /\ NoDuplicateLink /\ NoFreedOccupant
  BY DEF IInv
<1>1. CASE loc[c] = NOWHERE /\ UNCHANGED <<loc, chain>>
  <2>1. \A r \in Room : c \notin Members(chain[r])
    BY <1>0, <1>1, RoomAssumption DEF LinkedWhereItStands, TrueLocation, Linked
  <2>2. LinkedWhereItStands'
    BY <1>0, <1>1 DEF LinkedWhereItStands, TrueLocation, Linked
  <2> QED
    BY <1>0, <1>1, <2>1, <2>2 DEF TypeOK, NoDuplicateLink, NoFreedOccupant
<1>2. CASE /\ loc[c] \in Room
           /\ loc' = [loc EXCEPT ![c] = NOWHERE]
           /\ chain' \in [Room -> Seq(Char)]
           /\ \A r \in Room : /\ Members(chain'[r]) = Members(chain[r]) \ {c}
                              /\ Distinct(chain'[r])
  <2>1. loc \in [Char -> Place]
    BY <1>0 DEF TypeOK
  <2>2. loc' \in [Char -> Place] /\ loc'[c] = NOWHERE /\ \A d \in Char \ {c} : loc'[d] = loc[d]
    BY <1>2, <2>1 DEF Place
  <2>3. LinkedWhereItStands'
    <3>1. ASSUME NEW d \in Char, NEW r \in Room
          PROVE  (Linked(d, r) <=> TrueLocation(d) = r)'
      <4>1. CASE d = c
        BY <4>1, <1>2, <2>2, RoomAssumption DEF Linked, TrueLocation
      <4>2. CASE d # c
        BY <4>2, <1>0, <1>2, <2>2 DEF Linked, TrueLocation, LinkedWhereItStands
      <4> QED
        BY <4>1, <4>2
    <3> QED
      BY <3>1 DEF LinkedWhereItStands
  <2> QED
    BY <1>0, <1>2, <2>2, <2>3 DEF NoDuplicateLink, NoFreedOccupant
<1> QED
  BY <1>1, <1>2, DetachOutcome

LEMMA CharFromRoomStep ==
    ASSUME IInv, NEW c \in Char, CharFromRoom(c)
    PROVE  IInv'
<1>1. /\ loc' \in [Char -> Place] /\ chain' \in [Room -> Seq(Char)]
      /\ LinkedWhereItStands' /\ NoDuplicateLink'
      /\ \A r \in Room : Members(chain'[r]) \subseteq live \ {c}
      /\ \A d \in Char \ {c} : loc'[d] = loc[d]
  BY DetachStep DEF CharFromRoom
<1>2. NoFreedOccupant' /\ TypeOK'
  BY <1>1 DEF CharFromRoom, NoFreedOccupant, IInv, TypeOK
<1>3. WindowsAreSound'
  BY <1>1 DEF CharFromRoom, WindowsAreSound, IInv
<1> QED
  BY <1>1, <1>2, <1>3 DEF IInv

LEMMA ExtractCharStep ==
    ASSUME IInv, NEW c \in Char, ExtractChar(c)
    PROVE  IInv'
<1>1. DetachCharFromRoom(c)
  BY DEF ExtractChar, DetachCharFromRoom
<1>2. /\ loc' \in [Char -> Place] /\ chain' \in [Room -> Seq(Char)]
      /\ LinkedWhereItStands' /\ NoDuplicateLink'
      /\ \A r \in Room : Members(chain'[r]) \subseteq live \ {c}
      /\ \A d \in Char \ {c} : loc'[d] = loc[d]
  BY <1>1, DetachStep DEF ExtractChar
<1>3. NoFreedOccupant' /\ TypeOK'
  BY <1>2 DEF ExtractChar, NoFreedOccupant, IInv, TypeOK
<1>4. WindowsAreSound'
  BY <1>2 DEF ExtractChar, WindowsAreSound, IInv
<1> QED
  BY <1>2, <1>3, <1>4 DEF IInv

LEMMA RelocateStep ==
    ASSUME IInv, NEW from \in Room, NEW to \in Room, RelocateAllOccupants(from, to)
    PROVE  IInv'
<1> DEFINE merged == chain[from] \o chain[to]
<1>0. TypeOK /\ LinkedWhereItStands /\ NoDuplicateLink /\ NoFreedOccupant
  BY DEF IInv
<1>1. /\ from # to /\ \A c \in Char : cursor[c] = Closed
      /\ chain' = [chain EXCEPT ![to] = merged, ![from] = <<>>]
      /\ loc' = [c \in Char |-> IF c \in Members(merged) THEN to ELSE loc[c]]
      /\ live' = live /\ cursor' = cursor
  BY DEF RelocateAllOccupants
<1>2. loc \in [Char -> Place] /\ chain \in [Room -> Seq(Char)]
  BY <1>0 DEF TypeOK
<1>3. \A c \in Char, r \in Room : c \in Members(chain[r]) <=> loc[c] = r
  BY <1>0, <1>1 DEF LinkedWhereItStands, TrueLocation, Linked
<1>4. Members(chain[from]) \cap Members(chain[to]) = {}
  <2>1. \A r \in Room : Members(chain[r]) \subseteq Char
    BY <1>2, ElementOfSeq DEF Members
  <2> QED
    BY <2>1, <1>1, <1>3
<1>5. /\ merged \in Seq(Char)
      /\ Members(merged) = Members(chain[from]) \cup Members(chain[to])
      /\ Distinct(merged)
  BY <1>0, <1>2, <1>4, ConcatMembers DEF NoDuplicateLink
<1>6. Members(<<>>) = {} /\ Distinct(<<>>) /\ <<>> \in Seq(Char)
  BY DEF Members, Distinct
<1> HIDE DEF merged
<1>7. /\ chain' \in [Room -> Seq(Char)]
      /\ \A r \in Room : chain'[r] = IF r = to THEN merged
                                     ELSE IF r = from THEN <<>> ELSE chain[r]
  BY <1>1, <1>2, <1>5, <1>6
<1>8. loc' \in [Char -> Place]
  BY <1>1, <1>2 DEF Place
<1>9. TypeOK'
  BY <1>0, <1>1, <1>7, <1>8 DEF TypeOK
<1>10. LinkedWhereItStands'
  <2>1. ASSUME NEW c \in Char, NEW r \in Room
        PROVE  (c \in Members(chain[r]) <=> loc[c] = r)'
    <3>1. CASE c \in Members(merged)
      <4>1. loc'[c] = to
        BY <3>1, <1>1
      <4>2. \A q \in Room \ {from, to} : c \notin Members(chain[q])
        BY <3>1, <1>3, <1>5
      <4> QED
        BY <3>1, <4>1, <4>2, <1>1, <1>6, <1>7
    <3>2. CASE c \notin Members(merged)
      <4>1. loc'[c] = loc[c] /\ loc[c] # from /\ loc[c] # to
        BY <3>2, <1>1, <1>3, <1>5
      <4> QED
        BY <3>2, <4>1, <1>3, <1>6, <1>7
    <3> QED
      BY <3>1, <3>2
  <2> QED
    BY <2>1, <1>1 DEF LinkedWhereItStands, TrueLocation, Linked
<1>11. NoDuplicateLink'
  BY <1>0, <1>5, <1>6, <1>7 DEF NoDuplicateLink
<1>12. NoFreedOccupant'
  BY <1>0, <1>1, <1>5, <1>6, <1>7 DEF NoFreedOccupant
<1>13. WindowsAreSound'
  BY <1>1 DEF WindowsAreSound
<1> QED
  BY <1>9, <1>10, <1>11, <1>12, <1>13 DEF IInv

\* A window step writes the field of its own character alone, keeps its true
\* location, and never hides a linked character behind NOWHERE.
LEMMA WindowStep ==
    ASSUME IInv, NEW c \in Char, NEW r \in Place,
           OpenCursor(c, r) \/ Retarget(c, r) \/ Restore(c)
    PROVE  IInv'
<1>0. TypeOK /\ LinkedWhereItStands /\ NoDuplicateLink /\ NoFreedOccupant /\ WindowsAreSound
  BY DEF IInv
<1>1. live' = live /\ chain' = chain
  BY DEF OpenCursor, Retarget, Restore
<1>2. loc \in [Char -> Place] /\ cursor \in [Char -> Place \cup {Closed}]
  BY <1>0 DEF TypeOK
<1>3. loc' \in [Char -> Place] /\ cursor' \in [Char -> Place \cup {Closed}]
  BY <1>2 DEF OpenCursor, Retarget, Restore, Spoof
<1>4. \A d \in Char : TrueLocation(d)' = TrueLocation(d)
  BY <1>2, RoomAssumption DEF OpenCursor, Retarget, Restore, Spoof, TrueLocation, Place
<1>5. TypeOK'
  BY <1>0, <1>1, <1>3 DEF TypeOK
<1>6. LinkedWhereItStands'
  BY <1>0, <1>1, <1>4 DEF LinkedWhereItStands, Linked
<1>7. NoDuplicateLink' /\ NoFreedOccupant'
  BY <1>0, <1>1 DEF NoDuplicateLink, NoFreedOccupant
<1>8. WindowsAreSound'
  <2>1. CASE OpenCursor(c, r)
    BY <2>1, <1>0, <1>2 DEF OpenCursor, Spoof, WouldBreakTheAbsenceInvariant, WindowsAreSound
  <2>2. CASE Retarget(c, r)
    BY <2>2, <1>0, <1>2 DEF Retarget, Spoof, WouldBreakTheAbsenceInvariant, WindowsAreSound
  <2>3. CASE Restore(c)
    BY <2>3, <1>0, <1>2 DEF Restore, WindowsAreSound
  <2> QED
    BY <2>1, <2>2, <2>3
<1> QED
  BY <1>5, <1>6, <1>7, <1>8 DEF IInv

LEMMA NextInvariant == IInv /\ [Next]_vars => IInv'
<1> SUFFICES ASSUME IInv, [Next]_vars PROVE IInv'
  OBVIOUS
<1>1. CASE UNCHANGED vars
  BY <1>1 DEF vars, IInv, TypeOK, LinkedWhereItStands, NoDuplicateLink,
       NoFreedOccupant, WindowsAreSound, TrueLocation, Linked
<1>2. CASE Next
  <2>1. NOWHERE \in Place
    BY DEF Place
  <2> QED
    BY <1>2, <2>1, CreateStep, CharToRoomStep, CharFromRoomStep, ExtractCharStep,
       RelocateStep, WindowStep DEF Next
<1> QED
  BY <1>1, <1>2

\* Type correctness.
THEOREM TypeCorrect == Spec => []TypeOK
<1>1. IInv => TypeOK
  BY DEF IInv
<1> QED
  BY InitInvariant, NextInvariant, <1>1, PTL DEF Spec

\* The inductive invariant holds in every reachable state.
THEOREM Invariance == Spec => []IInv
<1> QED
  BY InitInvariant, NextInvariant, PTL DEF Spec

\* The first half of the banner's invariant, which holds inside render windows
\* too: a character whose field says NOWHERE is in no chain.
THEOREM AbsenceTheorem == Spec => []AbsentMeansUnlinked
<1>1. IInv => AbsentMeansUnlinked
  <2> SUFFICES ASSUME IInv, NEW c \in Char, NEW r \in Room, loc[c] = NOWHERE
               PROVE  ~ Linked(c, r)
    BY DEF AbsentMeansUnlinked
  <2>1. TrueLocation(c) = NOWHERE
    BY DEF IInv, WindowsAreSound, TrueLocation
  <2> QED
    BY <2>1, RoomAssumption DEF IInv, LinkedWhereItStands
<1> QED
  BY Invariance, <1>1, PTL

\* The second half, with the freed-memory and duplicate-link consequences.
THEOREM LinkedTheorem ==
    Spec => [](LinkedWhereItStands /\ NoDuplicateLink /\ NoFreedOccupant)
<1>1. IInv => LinkedWhereItStands /\ NoDuplicateLink /\ NoFreedOccupant
  BY DEF IInv
<1> QED
  BY Invariance, <1>1, PTL

\* Freed memory is unreachable through the chains: whatever order of moves,
\* windows and deaths, no room's chain holds a released character.
THEOREM NoFreedOccupantTheorem == Spec => []NoFreedOccupant
<1>1. IInv => NoFreedOccupant
  BY DEF IInv
<1> QED
  BY Invariance, <1>1, PTL

(***************************************************************************)
(* The order of the chains.                                                *)
(***************************************************************************)

\* A character that leaves leaves the others of its chain in their order.
LEMMA DetachOrder ==
    ASSUME IInv, NEW c \in Char, DetachCharFromRoom(c),
           NEW r \in Room, NEW a, NEW b, a # c, b # c, Before(chain[r], a, b)
    PROVE  Before(chain'[r], a, b)
<1> DEFINE h == loc[c]
<1>1. chain \in [Room -> Seq(Char)] /\ (h = NOWHERE \/ h \in Room)
  BY DEF IInv, TypeOK, Place
<1>2. CASE UNCHANGED <<loc, chain>>
  BY <1>2
<1>3. CASE h # NOWHERE /\ Linked(c, h)
  <2>1. PICK i \in 1..Len(chain[h]) :
           /\ FoundAt(chain[h], c, i)
           /\ chain' = [chain EXCEPT ![h] = Unlinked(@, i)]
    BY <1>3 DEF DetachCharFromRoom
  <2>2. chain[h][i] = c
    BY <2>1 DEF FoundAt
  <2>3. CASE r = h
    <3>1. Before(Unlinked(chain[h], i), a, b)
      BY <1>1, <1>3, <2>2, <2>3, UnlinkedOrder
    <3> QED
      BY <3>1, <1>1, <2>1, <2>3
  <2>4. CASE r # h
    BY <1>1, <2>1, <2>4
  <2> QED
    BY <2>3, <2>4
<1> QED
  BY <1>2, <1>3 DEF DetachCharFromRoom

\* A relocation moves both chains into one without reordering either.
LEMMA RelocateOrder ==
    ASSUME IInv, NEW from \in Room, NEW to \in Room, RelocateAllOccupants(from, to),
           NEW r \in Room, NEW s \in Room, NEW a, NEW b,
           a \in Members(chain'[s]), b \in Members(chain'[s]), Before(chain[r], a, b)
    PROVE  Before(chain'[s], a, b)
<1> DEFINE merged == chain[from] \o chain[to]
<1>0. chain \in [Room -> Seq(Char)] /\ LinkedWhereItStands /\ IInv'
  BY RelocateStep DEF IInv, TypeOK
<1>1. from # to /\ chain' = [chain EXCEPT ![to] = merged, ![from] = <<>>]
  BY DEF RelocateAllOccupants
<1>2. a \in Members(chain[r]) /\ b \in Members(chain[r])
  BY <1>0, BeforeMembers
<1>3. a \in Char
  BY <1>0, <1>2, ElementOfSeq DEF Members
<1>4. \A q \in Room : a \in Members(chain[q]) => q = r
  BY <1>0, <1>2, <1>3 DEF LinkedWhereItStands, Linked
<1>5. CASE s = from
  BY <1>5, <1>0, <1>1 DEF Members
<1>6. CASE s = to
  <2>1. chain'[s] = merged
    BY <1>6, <1>0, <1>1
  <2>2. r = from \/ r = to
    <3>1. a \in Members(chain[from]) \cup Members(chain[to])
      BY <2>1, <1>0, ConcatMembersOnly
    <3> QED
      BY <3>1, <1>4
  <2> QED
    BY <2>1, <2>2, <1>0, ConcatOrder
<1>7. CASE s # from /\ s # to
  <2>1. chain'[s] = chain[s]
    BY <1>7, <1>0, <1>1
  <2> QED
    BY <2>1, <1>4
<1> QED
  BY <1>5, <1>6, <1>7

\* No step of the server puts two occupants that stay together into another
\* order, in whichever room they then are.
LEMMA StepOrder ==
    ASSUME IInv, [Next]_vars,
           NEW r \in Room, NEW s \in Room,
           NEW a \in Members(chain'[s]), NEW b \in Members(chain'[s]),
           Before(chain[r], a, b)
    PROVE  Before(chain'[s], a, b)
<1>0. chain \in [Room -> Seq(Char)] /\ LinkedWhereItStands
  BY DEF IInv, TypeOK
<1>1. a \in Members(chain[r]) /\ b \in Members(chain[r])
  BY <1>0, BeforeMembers
<1>2. a \in Char /\ b \in Char
  BY <1>0, <1>1, ElementOfSeq DEF Members
<1>3. \A q \in Room : a \in Members(chain[q]) => q = r
  BY <1>0, <1>1, <1>2 DEF LinkedWhereItStands, Linked
<1>4. CASE chain' = chain
  BY <1>3, <1>4
<1>5. ASSUME NEW c \in Char, cursor[c] = Closed, DetachCharFromRoom(c)
      PROVE  Before(chain'[s], a, b)
  <2>1. CASE loc[c] = NOWHERE /\ UNCHANGED <<loc, chain>>
    BY <2>1, <1>4
  <2>2. CASE \A q \in Room : Members(chain'[q]) = Members(chain[q]) \ {c}
    BY <2>2, <1>3, <1>5, DetachOrder
  <2> QED
    BY <2>1, <2>2, <1>5, DetachOutcome
<1>6. ASSUME NEW c \in Char, NEW q \in Place, CharToRoom(c, q)
      PROVE  Before(chain'[s], a, b)
  <2>1. CASE q = NOWHERE
    BY <2>1, <1>4, <1>6 DEF CharToRoom
  <2>2. CASE q \in Room
    <3>1. /\ q # NOWHERE /\ cursor[c] = Closed /\ loc[c] = NOWHERE
          /\ chain' = [chain EXCEPT ![q] = Append(@, c)]
      BY <2>2, <1>6, RoomAssumption DEF CharToRoom
    <3>2. a # c
      BY <3>1, <1>0, <1>1, RoomAssumption DEF LinkedWhereItStands, TrueLocation, Linked
    <3>3. a \in Members(chain[s])
      <4>1. CASE s = q
        BY <4>1, <3>1, <3>2, <1>0, AppendMembersOnly
      <4>2. CASE s # q
        BY <4>2, <3>1, <1>0
      <4> QED
        BY <4>1, <4>2
    <3>4. s = r
      BY <3>3, <1>3
    <3> QED
      BY <3>1, <3>4, <1>0, AppendOrder
  <2> QED
    BY <2>1, <2>2 DEF Place
<1> QED
  BY <1>4, <1>5, <1>6, RelocateOrder
     DEF Next, vars, Create, CharFromRoom, ExtractChar, Restore, OpenCursor, Retarget

\* Occupants that stay together stay in order: "2.orc" keeps naming the same
\* orc, and a ferry keeps its passengers in the order they boarded.
THEOREM OrderTheorem == Spec => OrderIsStable
<1>1. ASSUME IInv, [Next]_vars
      PROVE  [\A r, s \in Room : \A c, d \in Members(chain'[s]) :
                Before(chain[r], c, d) => Before(chain'[s], c, d)]_vars
  BY <1>1, StepOrder
<1> QED
  BY <1>1, Invariance, PTL DEF Spec, OrderIsStable

(***************************************************************************)
(* Refinement of Location.                                                 *)
(***************************************************************************)

\* The abstract location is the true one: the chains determine it.
LEMMA WhereIsTrueLocation ==
    IInv => /\ Where = [c \in Char |-> TrueLocation(c)]
            /\ \A c \in Char : TrueLocation(c) \in Place
<1> SUFFICES ASSUME IInv
             PROVE  /\ Where = [c \in Char |-> TrueLocation(c)]
                    /\ \A c \in Char : TrueLocation(c) \in Place
  OBVIOUS
<1>1. \A c \in Char : TrueLocation(c) \in Place
  BY DEF IInv, TypeOK, TrueLocation
<1>2. ASSUME NEW c \in Char
      PROVE  (IF \E r \in Room : Linked(c, r)
              THEN CHOOSE r \in Room : Linked(c, r) ELSE NOWHERE) = TrueLocation(c)
  <2>1. \A r \in Room : Linked(c, r) <=> TrueLocation(c) = r
    BY DEF IInv, LinkedWhereItStands
  <2>2. CASE TrueLocation(c) = NOWHERE
    BY <2>1, <2>2, RoomAssumption
  <2>3. CASE TrueLocation(c) \in Room
    BY <2>1, <2>3
  <2> QED
    BY <1>1, <2>2, <2>3 DEF Place
<1> QED
  BY <1>1, <1>2 DEF Where

LEMMA InitRefines == Init => Abstract!Init
<1> SUFFICES ASSUME Init PROVE Abstract!Init
  OBVIOUS
<1>1. IInv
  BY InitInvariant
<1>2. \A c \in Char : TrueLocation(c) = NOWHERE
  BY DEF Init, TrueLocation
<1> QED
  BY <1>1, <1>2, WhereIsTrueLocation DEF Abstract!Init

\* Every step is one abstract step or leaves every abstract location alone.
LEMMA StepRefines == IInv /\ IInv' /\ [Next]_vars => [Abstract!Next]_Where
<1> SUFFICES ASSUME IInv, IInv', [Next]_vars
             PROVE  [Abstract!Next]_Where
  OBVIOUS
<1>1. /\ Where = [d \in Char |-> TrueLocation(d)]
      /\ \A c \in Char : TrueLocation(c) \in Place
  BY WhereIsTrueLocation
<1>2. (IInv => /\ Where = [c \in Char |-> TrueLocation(c)]
              /\ \A c \in Char : TrueLocation(c) \in Place)'
  BY WhereIsTrueLocation, PTL
<1>3. Where' = [d \in Char |-> TrueLocation(d)']
  BY <1>2
<1>4. loc \in [Char -> Place] /\ cursor \in [Char -> Place \cup {Closed}]
  BY DEF IInv, TypeOK
<1>5. ASSUME NEW c \in Char, cursor[c] = Closed, DetachCharFromRoom(c), UNCHANGED cursor
      PROVE  [Abstract!Next]_Where
  <2>1. CASE UNCHANGED <<loc, chain>>
    BY <2>1, <1>5 DEF Where, Linked
  <2>2. CASE loc[c] \in Room /\ loc' = [loc EXCEPT ![c] = NOWHERE]
    <3>1. Where[c] # NOWHERE /\ Where' = [Where EXCEPT ![c] = NOWHERE]
      BY <2>2, <1>1, <1>3, <1>4, <1>5, RoomAssumption DEF TrueLocation
    <3>2. Abstract!Remove(c)
      BY <3>1 DEF Abstract!Remove
    <3> QED
      BY <3>2 DEF Abstract!Next
  <2> QED
    BY <2>1, <2>2, <1>5, DetachOutcome
<1>6. ASSUME NEW c \in Char, Create(c)
      PROVE  [Abstract!Next]_Where
  BY <1>6 DEF Create, Where, Linked
<1>7. ASSUME NEW c \in Char, NEW r \in Place, CharToRoom(c, r)
      PROVE  [Abstract!Next]_Where
  <2>1. CASE r = NOWHERE
    BY <1>7, <2>1 DEF CharToRoom, Where, Linked
  <2>2. CASE r \in Room
    <3>1. Where[c] = NOWHERE /\ Where' = [Where EXCEPT ![c] = r]
      BY <1>7, <1>1, <1>3, <1>4 DEF CharToRoom, TrueLocation
    <3>2. Abstract!Place(c, r)
      BY <3>1 DEF Abstract!Place
    <3> QED
      BY <2>2, <3>2 DEF Abstract!Next
  <2> QED
    BY <2>1, <2>2 DEF Place
<1>8. ASSUME NEW from \in Room, NEW to \in Room, RelocateAllOccupants(from, to)
      PROVE  [Abstract!Next]_Where
  <2> DEFINE merged == chain[from] \o chain[to]
  <2>1. /\ \A c \in Char : cursor[c] = Closed /\ cursor'[c] = Closed
        /\ loc' = [c \in Char |-> IF c \in Members(merged) THEN to ELSE loc[c]]
    BY <1>8 DEF RelocateAllOccupants
  <2>2. \A c \in Char : c \in Members(merged) <=> loc[c] = from \/ loc[c] = to
    <3>1. \A c \in Char, r \in Room : c \in Members(chain[r]) <=> loc[c] = r
      BY <2>1 DEF IInv, LinkedWhereItStands, TrueLocation, Linked
    <3>2. from # to /\ Distinct(chain[from]) /\ Distinct(chain[to])
          /\ chain[from] \in Seq(Char) /\ chain[to] \in Seq(Char)
      BY <1>8 DEF RelocateAllOccupants, IInv, NoDuplicateLink, TypeOK
    <3>3. Members(chain[from]) \cap Members(chain[to]) = {}
      <4>1. Members(chain[from]) \subseteq Char
        BY <3>2, ElementOfSeq DEF Members
      <4> QED
        BY <4>1, <3>1, <3>2
    <3>4. Members(merged) = Members(chain[from]) \cup Members(chain[to])
      BY <3>2, <3>3, ConcatMembers
    <3> QED
      BY <3>1, <3>4
  <2> HIDE DEF merged
  <2>3. Where' = [c \in Char |-> IF Where[c] = from THEN to ELSE Where[c]]
    BY <1>1, <1>3, <2>1, <2>2 DEF TrueLocation
  <2>4. Abstract!CarryAll(from, to)
    BY <2>3 DEF Abstract!CarryAll
  <2> QED
    BY <2>4 DEF Abstract!Next
<1>9. ASSUME NEW c \in Char, NEW r \in Place,
             OpenCursor(c, r) \/ Retarget(c, r) \/ Restore(c)
      PROVE  [Abstract!Next]_Where
  BY <1>9 DEF OpenCursor, Retarget, Restore, Where, Linked
<1>10. ASSUME NEW c \in Char, CharFromRoom(c)
       PROVE  [Abstract!Next]_Where
  BY <1>10, <1>5 DEF CharFromRoom
<1>11. ASSUME NEW c \in Char, ExtractChar(c)
       PROVE  [Abstract!Next]_Where
  BY <1>11, <1>5 DEF ExtractChar, DetachCharFromRoom
<1>12. CASE UNCHANGED vars
  BY <1>12 DEF vars, Where, Linked
<1>13. NOWHERE \in Place
  BY DEF Place
<1> QED
  BY <1>6, <1>7, <1>8, <1>9, <1>10, <1>11, <1>12, <1>13 DEF Next

\* placement.cpp implements Location: whatever chains, fields and windows do,
\* a character is placed, removed or carried along with its room, and nothing
\* else ever changes where it stands.
THEOREM Refinement == Spec => ImplementsLocation
<1>1. Spec => []IInv
  BY Invariance
<1> QED
  BY <1>1, InitRefines, StepRefines, PTL DEF Spec, ImplementsLocation, Abstract!Spec

(***************************************************************************)
(* The pointers.                                                           *)
(***************************************************************************)

\* What the induction carries: the location invariant and the agreement.
ChainInv == IInv /\ PtrTypeOK /\ PointersAgree

(***************************************************************************)
(* What a walk meets.                                                      *)
(***************************************************************************)

\* Every set of naturals that is not empty has a least element.
LEMMA LeastNatural ==
    ASSUME NEW T \in SUBSET Nat, T # {}
    PROVE  \E x \in T : \A y \in T : x <= y
<1> DEFINE R == OpToRel(<, Nat)
<1>1. IsWellFoundedOn(R, Nat)
  BY NatLessThanWellFounded
<1>2. \A y, x \in Nat : y < x => <<y, x>> \in R
  BY DEF OpToRel
<1> HIDE DEF R
<1>3. PICK x \in T : \A y \in T : ~ (<<y, x>> \in R)
  BY <1>1, WFMin
<1>4. \A y \in T : ~ (y < x)
  BY <1>2, <1>3, Zenon
<1> QED
  BY <1>4

\* A chain is a duplicate-free sequence of characters, and no two share one.
LEMMA ChainFacts ==
    ASSUME IInv, NEW r \in Room
    PROVE  /\ chain[r] \in Seq(Char) /\ Len(chain[r]) \in Nat
           /\ \A i \in 1..Len(chain[r]) : chain[r][i] \in Char
           /\ Members(chain[r]) \subseteq Char
           /\ Distinct(chain[r])
           /\ \A q \in Room : q # r => Members(chain[q]) \cap Members(chain[r]) = {}
<1>1. chain[r] \in Seq(Char)
  BY DEF IInv, TypeOK
<1>2. Len(chain[r]) \in Nat /\ \A i \in 1..Len(chain[r]) : chain[r][i] \in Char
  BY <1>1, ElementOfSeq
<1>3. Members(chain[r]) \subseteq Char
  BY <1>2 DEF Members
<1>4. \A q \in Room : q # r => Members(chain[q]) \cap Members(chain[r]) = {}
  BY <1>3 DEF IInv, LinkedWhereItStands, Linked
<1> QED
  BY <1>1, <1>2, <1>3, <1>4 DEF IInv, NoDuplicateLink

\* A walk meets the members of the chain and nobody else.
LEMMA MetMembers ==
    ASSUME ChainInv, NEW r \in Room
    PROVE  Met(r) = Members(chain[r])
<1> DEFINE s == chain[r]
<1>1. IsWalk(s, r)
  BY DEF ChainInv, PointersAgree
<1>2. s \in Seq(Char) /\ Len(s) \in Nat /\ Members(s) \subseteq Char
  BY ChainFacts DEF ChainInv
<1> HIDE DEF s
<1>3. Saturated(Members(s), r)
  <2>1. head[r] \in Members(s) \cup {Null}
    BY <1>1, <1>2, EmptySeq DEF IsWalk, Members
  <2>2. ASSUME NEW i \in 1..Len(s)
        PROVE  next[s[i]] \in Members(s) \cup {Null}
    <3>1. CASE i = Len(s)
      BY <3>1, <1>1 DEF IsWalk
    <3>2. CASE i # Len(s)
      <4>1. i + 1 \in 1..Len(s) /\ next[s[i]] = s[i + 1]
        BY <3>2, <1>1, <1>2 DEF IsWalk
      <4> QED
        BY <4>1 DEF Members
    <3> QED
      BY <3>1, <3>2
  <2> QED
    BY <2>1, <2>2 DEF Saturated, Members
<1>4. ASSUME NEW S \in SUBSET Char, Saturated(S, r), NEW k \in 1..Len(s), s[k] \notin S
      PROVE  FALSE
  <2> DEFINE T == {i \in 1..Len(s) : s[i] \notin S}
  <2>1. T \in SUBSET Nat /\ T # {}
    BY <1>2, <1>4
  <2>2. PICK m \in T : \A j \in T : m <= j
    BY <2>1, LeastNatural
  <2>3. m \in 1..Len(s) /\ s[m] \notin S /\ s[m] \in Char
    BY <2>2, <1>2, ElementOfSeq
  <2>4. CASE m = 1
    <3>1. head[r] = s[1]
      BY <2>3, <2>4, <1>1, <1>2, EmptySeq DEF IsWalk
    <3> QED
      BY <3>1, <2>3, <2>4, <1>4, NullAssumption DEF Saturated
  <2>5. CASE m # 1
    <3>1. m - 1 \in 1..Len(s) /\ m - 1 # Len(s) /\ (m - 1) + 1 = m
      BY <2>3, <2>5, <1>2
    <3>2. s[m - 1] \in S
      BY <3>1, <2>2, <2>3
    <3>3. next[s[m - 1]] = s[m]
      BY <3>1, <1>1 DEF IsWalk
    <3> QED
      BY <3>2, <3>3, <2>3, <1>4, NullAssumption DEF Saturated
  <2> QED
    BY <2>4, <2>5
<1>5. ASSUME NEW c \in Members(s), NEW S \in SUBSET Char, Saturated(S, r)
      PROVE  c \in S
  BY <1>4, <1>5 DEF Members
<1>6. Met(r) \subseteq Members(s)
  BY <1>2, <1>3 DEF Met
<1>7. Members(s) \subseteq Met(r)
  BY <1>2, <1>5 DEF Met
<1> QED
  BY <1>6, <1>7 DEF s

\* A walk stops at the last occupant of the chain.
LEMMA TailIsLast ==
    ASSUME ChainInv, NEW r \in Room, chain[r] # <<>>
    PROVE  /\ Len(chain[r]) \in 1..Len(chain[r])
           /\ TailOf(r) = chain[r][Len(chain[r])]
<1> DEFINE s == chain[r]
<1>1. IsWalk(s, r)
  BY DEF ChainInv, PointersAgree
<1>2. /\ s \in Seq(Char) /\ Len(s) \in Nat
      /\ \A i \in 1..Len(s) : s[i] \in Char
  BY ChainFacts DEF ChainInv
<1>3. s # <<>> /\ Met(r) = Members(s)
  BY MetMembers
<1> HIDE DEF s
<1>4. Len(s) \in 1..Len(s)
  BY <1>2, <1>3, EmptySeq
<1>5. s[Len(s)] \in Met(r) /\ next[s[Len(s)]] = Null
  BY <1>1, <1>3, <1>4 DEF IsWalk, Members
<1>6. ASSUME NEW c \in Met(r), next[c] = Null
      PROVE  c = s[Len(s)]
  <2>1. PICK i \in 1..Len(s) : c = s[i]
    BY <1>3 DEF Members
  <2>2. CASE i # Len(s)
    <3>1. next[c] = s[i + 1] /\ i + 1 \in 1..Len(s)
      BY <2>1, <2>2, <1>1, <1>2 DEF IsWalk
    <3> QED
      BY <3>1, <1>6, <1>2, NullAssumption
  <2> QED
    BY <2>1, <2>2
<1> QED
  BY <1>4, <1>5, <1>6 DEF TailOf, s

\* A room whose chain, head and occupants' links are left alone is walked as
\* before.
LEMMA OtherRoom ==
    ASSUME PointersAgree, NEW r \in Room, chain'[r] = chain[r], head'[r] = head[r],
           \A c \in Members(chain[r]) : next'[c] = next[c]
    PROVE  IsWalk(chain[r], r)'
<1>1. IsWalk(chain[r], r)
  BY DEF PointersAgree
<1>2. \A i \in 1..Len(chain[r]) : next'[chain[r][i]] = next[chain[r][i]]
  BY DEF Members
<1> QED
  BY <1>1, <1>2 DEF IsWalk

(***************************************************************************)
(* The operations.                                                         *)
(***************************************************************************)

LEMMA ClearLinkAgrees ==
    ASSUME ChainInv, NEW c \in Char, Create(c), ClearLink(c)
    PROVE  PointersAgree'
<1>1. \A r \in Room : c \notin Members(chain[r])
  BY DEF ChainInv, IInv, NoFreedOccupant, Create
<1>2. PtrTypeOK /\ PointersAgree
  BY DEF ChainInv
<1>3. ASSUME NEW r \in Room
      PROVE  IsWalk(chain[r], r)'
  <2>1. chain'[r] = chain[r] /\ head'[r] = head[r]
    BY DEF Create, ClearLink
  <2>2. \A d \in Members(chain[r]) : next'[d] = next[d]
    BY <1>1, <1>2 DEF ClearLink, PtrTypeOK
  <2> QED
    BY <1>2, <2>1, <2>2, OtherRoom
<1> QED
  BY <1>3 DEF PointersAgree

LEMMA LinkAtTailAgrees ==
    ASSUME ChainInv, NEW c \in Char, NEW r \in Place, CharToRoom(c, r), LinkAtTail(c, r)
    PROVE  PointersAgree'
<1>1. PtrTypeOK /\ PointersAgree /\ IInv
  BY DEF ChainInv
<1>2. CASE r = NOWHERE
  BY <1>1, <1>2 DEF CharToRoom, LinkAtTail, ptrs, PointersAgree, IsWalk
<1>3. CASE r # NOWHERE
  <2> DEFINE s == chain[r]
             n == Len(s)
  <2>1. r \in Room
    BY <1>3 DEF Place
  <2>2. \A q \in Room : c \notin Members(chain[q])
    BY <1>1, RoomAssumption DEF IInv, LinkedWhereItStands, TrueLocation, Linked, CharToRoom
  <2>3. /\ s \in Seq(Char) /\ n \in Nat /\ Distinct(s)
        /\ \A i \in 1..n : s[i] \in Char
        /\ \A q \in Room : q # r => Members(chain[q]) \cap Members(s) = {}
    BY <1>1, <2>1, ChainFacts
  <2>4. IsWalk(s, r)
    BY <1>1, <2>1 DEF PointersAgree
  <2>5. /\ chain' = [chain EXCEPT ![r] = Append(s, c)]
        /\ chain \in [Room -> Seq(Char)]
    BY <1>1, <1>3, <2>1 DEF CharToRoom, IInv, TypeOK
  <2>6. s # <<>> => n \in 1..n /\ TailOf(r) = s[n] /\ s[n] \in Members(s)
    BY <2>1, TailIsLast DEF Members
  <2>7. s = <<>> <=> head[r] = Null
    BY <2>3, <2>4, EmptySeq, NullAssumption DEF IsWalk
  <2>8. \A i \in 1..n : s[i] # c
    BY <2>1, <2>2 DEF Members
  <2>9. ASSUME NEW q \in Room, q # r
        PROVE  IsWalk(chain[q], q)'
    <3>1. chain'[q] = chain[q]
      BY <2>5, <2>9
    <3>2. head'[q] = head[q]
      BY <1>1, <1>3, <2>9 DEF LinkAtTail, PtrTypeOK
    <3>3. \A d \in Members(chain[q]) : next'[d] = next[d]
      <4>1. ASSUME NEW d \in Members(chain[q])
            PROVE  d \in Char /\ d # c /\ (s # <<>> => d # TailOf(r))
        BY <2>1, <2>2, <2>3, <2>6, <2>9, <1>1, ChainFacts
      <4> QED
        BY <4>1, <2>7, <1>1, <1>3 DEF LinkAtTail, PtrTypeOK
    <3> QED
      BY <3>1, <3>2, <3>3, <1>1, OtherRoom
  <2> DEFINE t == Append(s, c)
  <2>10. /\ Len(t) = n + 1 /\ t # <<>>
         /\ \A i \in 1..n : t[i] = s[i]
         /\ t[n + 1] = c
    BY <2>3
  <2>11. chain'[r] = t
    BY <2>1, <2>5
  <2> HIDE DEF s, t
  <2>12. /\ head'[r] = t[1]
         /\ \A i \in 1..Len(t) : next'[t[i]] = IF i = Len(t) THEN Null ELSE t[i + 1]
    <3>1. CASE s = <<>>
      <4>1. head'[r] = c /\ next'[c] = Null
        BY <3>1, <1>1, <1>3, <2>1, <2>7 DEF LinkAtTail, PtrTypeOK
      <4>2. n = 0
        BY <3>1 DEF s
      <4> QED
        BY <4>1, <4>2, <2>10
    <3>2. CASE s # <<>>
      <4>1. head'[r] = head[r] /\ head[r] = s[1] /\ t[1] = s[1] /\ n \in 1..n
        BY <3>2, <1>3, <2>3, <2>4, <2>6, <2>7, <2>10 DEF LinkAtTail, IsWalk
      <4>2. next' = [next EXCEPT ![s[n]] = c, ![c] = Null]
        BY <3>2, <1>3, <2>6, <2>7 DEF LinkAtTail
      <4>3. next'[c] = Null /\ next'[s[n]] = c
        BY <4>1, <4>2, <1>1, <2>3, <2>8 DEF PtrTypeOK
      <4>4. ASSUME NEW i \in 1..n, i # n
            PROVE  next'[s[i]] = s[i + 1] /\ i + 1 \in 1..n
        <5>1. s[i] # s[n] /\ s[i] # c
          BY <4>1, <4>4, <2>3, <2>8 DEF Distinct
        <5>2. next'[s[i]] = next[s[i]]
          BY <4>2, <5>1, <1>1, <2>3 DEF PtrTypeOK
        <5> QED
          BY <5>2, <4>4, <2>3, <2>4 DEF IsWalk
      <4>5. ASSUME NEW i \in 1..(n + 1)
            PROVE  next'[t[i]] = IF i = n + 1 THEN Null ELSE t[i + 1]
        BY <4>1, <4>3, <4>4, <2>3, <2>10
      <4> QED
        BY <4>1, <4>5, <2>10
    <3> QED
      BY <3>1, <3>2
  <2> QED
    <3>1. IsWalk(chain[r], r)'
      BY <2>10, <2>11, <2>12 DEF IsWalk
    <3> QED
      BY <2>9, <3>1 DEF PointersAgree
<1> QED
  BY <1>2, <1>3

\* The places of what is left when a place is taken out.
LEMMA UnlinkedElements ==
    ASSUME NEW S, NEW s \in Seq(S), NEW k \in 1..Len(s)
    PROVE  /\ Unlinked(s, k) \in Seq(S)
           /\ Len(Unlinked(s, k)) = Len(s) - 1
           /\ \A j \in 1..(Len(s) - 1) :
                 Unlinked(s, k)[j] = IF j < k THEN s[j] ELSE s[j + 1]
<1>1. Len(s) \in Nat /\ Len(s) - 1 \in Nat
  OBVIOUS
<1>2. \A j \in 1..(Len(s) - 1) : (IF j < k THEN s[j] ELSE s[j + 1]) \in S
  BY <1>1, ElementOfSeq
<1>3. Unlinked(s, k) \in [1..(Len(s) - 1) -> S]
  BY <1>2 DEF Unlinked
<1>4. Unlinked(s, k) \in Seq(S) /\ Len(Unlinked(s, k)) = Len(s) - 1
  BY <1>1, <1>3
<1> QED
  BY <1>4 DEF Unlinked

\* c is taken out of its chain, or there is nothing to take out.
LEMMA UnlinkAgrees ==
    ASSUME ChainInv, NEW c \in Char, cursor[c] = Closed, DetachCharFromRoom(c), Unlink(c)
    PROVE  PointersAgree'
<1>1. PtrTypeOK /\ PointersAgree /\ IInv
  BY DEF ChainInv
<1>2. CASE loc[c] = NOWHERE
  BY <1>1, <1>2 DEF DetachCharFromRoom, Unlink, ptrs, PointersAgree, IsWalk
<1>3. CASE loc[c] # NOWHERE
  <2>1. PICK r \in Room : r = loc[c]
    BY <1>1, <1>3 DEF IInv, TypeOK, Place
  <2> DEFINE s == chain[r]
             n == Len(s)
  <2>2. c \in Members(s) /\ Linked(c, r)
    BY <1>1, <2>1 DEF IInv, LinkedWhereItStands, TrueLocation, Linked
  <2>3. PICK k \in 1..n : s[k] = c /\ chain' = [chain EXCEPT ![r] = Unlinked(s, k)]
    BY <1>3, <2>1, <2>2 DEF DetachCharFromRoom, FoundAt
  <2>4. /\ s \in Seq(Char) /\ n \in Nat /\ Distinct(s)
        /\ \A i \in 1..n : s[i] \in Char
        /\ \A q \in Room : q # r => Members(chain[q]) \cap Members(s) = {}
    BY <1>1, <2>1, ChainFacts
  <2>5. /\ head[r] = s[1]
        /\ \A i \in 1..n : next[s[i]] = IF i = n THEN Null ELSE s[i + 1]
    BY <1>1, <2>1, <2>3, <2>4, EmptySeq DEF PointersAgree, IsWalk
  <2>6. chain \in [Room -> Seq(Char)]
    BY <1>1 DEF IInv, TypeOK
  <2> DEFINE u == Unlinked(s, k)
  <2>7. /\ chain'[r] = u
        /\ \A q \in Room : q # r => chain'[q] = chain[q]
    BY <2>1, <2>3, <2>6
  <2>8. /\ Len(u) = n - 1
        /\ u = <<>> <=> n = 1
        /\ \A j \in 1..(n - 1) : u[j] = IF j < k THEN s[j] ELSE s[j + 1]
    <3>1. u \in Seq(Char) /\ Len(u) = n - 1
      BY <2>3, <2>4, UnlinkedElements
    <3>2. \A j \in 1..(n - 1) : u[j] = IF j < k THEN s[j] ELSE s[j + 1]
      BY <2>3, <2>4, UnlinkedElements
    <3>3. u = <<>> <=> Len(u) = 0
      BY <3>1, EmptySeq
    <3> HIDE DEF u
    <3> QED
      BY <3>1, <3>2, <3>3, <2>3, <2>4
  <2>9. Predecessors(c, r) = {s[i] : i \in {j \in 1..n : j + 1 = k}}
    <3>1. Met(r) = Members(s)
      BY <2>1, MetMembers
    <3>2. ASSUME NEW i \in 1..n
          PROVE  next[s[i]] = c <=> i + 1 = k
      <4>1. CASE i = n
        BY <4>1, <2>3, <2>4, <2>5, NullAssumption
      <4>2. CASE i # n
        <5>1. i + 1 \in 1..n /\ next[s[i]] = s[i + 1]
          BY <4>2, <2>4, <2>5
        <5> QED
          BY <5>1, <2>3, <2>4 DEF Distinct
      <4> QED
        BY <4>1, <4>2
    <3> QED
      BY <3>1, <3>2 DEF Predecessors, Members
  <2>10. head[r] = c <=> k = 1
    BY <2>3, <2>4, <2>5 DEF Distinct
  <2>11. next[c] = IF k = n THEN Null ELSE s[k + 1]
    BY <2>3, <2>5
  <2>12. k # 1 => /\ k - 1 \in 1..n
                  /\ next' = [next EXCEPT ![s[k - 1]] = next[c], ![c] = Null]
                  /\ head' = head
    <3>1. SUFFICES ASSUME k # 1
                   PROVE  /\ k - 1 \in 1..n
                          /\ next' = [next EXCEPT ![s[k - 1]] = next[c], ![c] = Null]
                          /\ head' = head
      OBVIOUS
    <3>2. k - 1 \in 1..n /\ {j \in 1..n : j + 1 = k} = {k - 1}
      BY <2>3, <2>4, <3>1
    <3>3. Predecessors(c, r) = {s[k - 1]}
      BY <2>9, <3>2
    <3>4. (CHOOSE p \in Predecessors(c, r) : TRUE) = s[k - 1]
      BY <3>3
    <3> QED
      BY <1>3, <2>1, <2>10, <3>1, <3>2, <3>3, <3>4 DEF Unlink
  <2>13. k = 1 => /\ head' = [head EXCEPT ![r] = next[c]]
                  /\ next' = [next EXCEPT ![c] = Null]
    BY <1>3, <2>1, <2>10 DEF Unlink
  <2>14. ASSUME NEW q \in Room, q # r
         PROVE  IsWalk(chain[q], q)'
    <3>1. head'[q] = head[q]
      BY <1>1, <2>1, <2>12, <2>13, <2>14 DEF PtrTypeOK
    <3>2. \A d \in Members(chain[q]) : next'[d] = next[d]
      <4>1. ASSUME NEW d \in Members(chain[q])
            PROVE  d \in Char /\ d # c /\ (k # 1 => d # s[k - 1])
        <5>1. d \in Char /\ d \notin Members(s)
          BY <1>1, <2>4, <2>14, ChainFacts
        <5> QED
          BY <5>1, <2>2, <2>12 DEF Members
      <4> QED
        BY <4>1, <1>1, <2>12, <2>13 DEF PtrTypeOK
    <3> QED
      BY <3>1, <3>2, <1>1, <2>7, <2>14, OtherRoom
  <2> HIDE DEF s, u
  <2>15. head'[r] = IF n = 1 THEN Null ELSE u[1]
    <3>1. CASE k = 1
      BY <3>1, <1>1, <2>1, <2>4, <2>8, <2>11, <2>13 DEF PtrTypeOK
    <3>2. CASE k # 1
      <4>1. 1 \in 1..(n - 1) /\ 1 < k /\ n # 1
        BY <3>2, <2>3, <2>4
      <4>2. u[1] = s[1]
        BY <4>1, <2>8
      <4> QED
        BY <3>2, <4>1, <4>2, <2>5, <2>12
    <3> QED
      BY <3>1, <3>2
  <2>16. ASSUME NEW j \in 1..(n - 1)
         PROVE  next'[u[j]] = IF j = n - 1 THEN Null ELSE u[j + 1]
    <3>1. CASE j < k - 1
      <4>1. /\ j \in 1..n /\ j + 1 \in 1..(n - 1) /\ j # n /\ j # n - 1
            /\ j < k /\ j + 1 < k /\ k - 1 \in 1..n /\ k # 1 /\ j # k /\ j # k - 1
        BY <3>1, <2>3, <2>4
      <4>a. u[j] = s[j] /\ u[j + 1] = s[j + 1]
        BY <4>1, <2>8
      <4>b. s[j] # c /\ s[j] # s[k - 1]
        BY <4>1, <2>3, <2>4 DEF Distinct
      <4>2. next'[s[j]] = next[s[j]]
        BY <4>1, <4>b, <1>1, <2>4, <2>12 DEF PtrTypeOK
      <4> QED
        BY <4>1, <4>a, <4>2, <2>5
    <3>2. CASE j = k - 1
      <4>1. /\ k # 1 /\ j < k /\ k - 1 \in 1..n /\ k - 1 # k
            /\ j # n - 1 => j + 1 \in 1..(n - 1) /\ ~ (j + 1 < k) /\ (j + 1) + 1 = k + 1
        BY <3>2, <2>3, <2>4
      <4>2. u[j] = s[k - 1] /\ (j # n - 1 => u[j + 1] = s[k + 1])
        BY <3>2, <4>1, <2>8
      <4>3. s[k - 1] # c /\ s[k - 1] \in Char
        BY <4>1, <2>3, <2>4 DEF Distinct
      <4>4. next'[u[j]] = next[c]
        BY <4>1, <4>2, <4>3, <1>1, <2>12 DEF PtrTypeOK
      <4>5. k = n <=> j = n - 1
        BY <3>2, <2>3, <2>4
      <4> QED
        BY <4>2, <4>4, <4>5, <2>11
    <3>3. CASE j > k - 1
      <4>1. /\ j + 1 \in 1..n /\ ~ (j < k) /\ j + 1 # k /\ j + 1 # k - 1
            /\ k # 1 => k - 1 \in 1..n
            /\ j # n - 1 => j + 1 \in 1..(n - 1) /\ ~ (j + 1 < k)
            /\ j + 1 = n <=> j = n - 1
        BY <3>3, <2>3, <2>4
      <4>2. u[j] = s[j + 1] /\ (j # n - 1 => u[j + 1] = s[(j + 1) + 1])
        BY <4>1, <2>8
      <4>3. s[j + 1] # c /\ (k # 1 => s[j + 1] # s[k - 1]) /\ s[j + 1] \in Char
        BY <4>1, <2>3, <2>4 DEF Distinct
      <4>4. next'[s[j + 1]] = next[s[j + 1]]
        BY <4>3, <1>1, <2>12, <2>13 DEF PtrTypeOK
      <4> QED
        BY <4>1, <4>2, <4>4, <2>5
    <3> QED
      BY <3>1, <3>2, <3>3, <2>3, <2>4
  <2>17. IsWalk(chain[r], r)'
    BY <2>4, <2>7, <2>8, <2>15, <2>16 DEF IsWalk
  <2> QED
    BY <2>14, <2>17 DEF PointersAgree
<1> QED
  BY <1>2, <1>3

\* What one chain in front of another is, link by link.
LEMMA JoinedChains ==
    ASSUME NEW s \in Seq(Char), NEW t \in Seq(Char)
    PROVE  /\ Len(s \o t) = Len(s) + Len(t)
           /\ \A i \in 1..(Len(s) + Len(t)) : (s \o t)[i] = IF i <= Len(s) THEN s[i] ELSE t[i - Len(s)]
  BY ConcatProperties

\* The occupants of one room are linked in front of those of another.
LEMMA SpliceAgrees ==
    ASSUME ChainInv, NEW from \in Room, NEW to \in Room,
           RelocateAllOccupants(from, to), Splice(from, to)
    PROVE  PointersAgree'
<1> DEFINE s == chain[from]
           t == chain[to]
           m == s \o t
           n == Len(s)
<1>1. PtrTypeOK /\ PointersAgree /\ IInv
  BY DEF ChainInv
<1>2. /\ from # to
      /\ chain' = [chain EXCEPT ![to] = m, ![from] = <<>>]
      /\ chain \in [Room -> Seq(Char)]
  BY <1>1 DEF RelocateAllOccupants, IInv, TypeOK
<1>3. /\ s \in Seq(Char) /\ n \in Nat /\ Distinct(s) /\ Members(s) \subseteq Char
      /\ \A i \in 1..n : s[i] \in Char
      /\ \A q \in Room : q # from => Members(chain[q]) \cap Members(s) = {}
  BY <1>1, ChainFacts
<1>4. t \in Seq(Char) /\ Len(t) \in Nat /\ Members(t) \subseteq Char
  BY <1>1, ChainFacts
<1>5. chain'[to] = m /\ chain'[from] = <<>> /\ \A q \in Room \ {from, to} : chain'[q] = chain[q]
  BY <1>2
<1>6. IsWalk(s, from) /\ IsWalk(t, to)
  BY <1>1 DEF PointersAgree
<1>7. s = <<>> <=> head[from] = Null
  BY <1>3, <1>6, EmptySeq, NullAssumption DEF IsWalk
<1>8. CASE s = <<>>
  <2>1. UNCHANGED ptrs
    BY <1>7, <1>8 DEF Splice
  <2>2. m = t
    BY <1>4, <1>8
  <2>3. IsWalk(chain[from], from)'
    BY <1>5, <1>7, <1>8, <2>1 DEF IsWalk, ptrs
  <2>4. ASSUME NEW q \in Room, q # from
        PROVE  IsWalk(chain[q], q)'
    <3>1. chain'[q] = chain[q]
      BY <1>5, <2>2, <2>4
    <3> QED
      BY <3>1, <1>1, <2>1, OtherRoom DEF ptrs
  <2> QED
    BY <2>3, <2>4 DEF PointersAgree
<1>9. CASE s # <<>>
  <2>1. n \in 1..n /\ TailOf(from) = s[n]
    BY <1>9, TailIsLast
  <2>2. /\ next' = [next EXCEPT ![s[n]] = head[to]]
        /\ head' = [head EXCEPT ![to] = head[from], ![from] = Null]
    BY <1>7, <1>9, <2>1 DEF Splice
  <2>3. head'[to] = head[from] /\ head'[from] = Null /\ \A q \in Room \ {from, to} : head'[q] = head[q]
    BY <1>1, <1>2, <2>2 DEF PtrTypeOK
  <2>4. next'[s[n]] = head[to] /\ \A d \in Char : d # s[n] => next'[d] = next[d]
    BY <1>1, <1>3, <2>1, <2>2 DEF PtrTypeOK
  <2>5. \A q \in Room \ {from} : \A d \in Members(chain[q]) : next'[d] = next[d]
    <3>1. ASSUME NEW q \in Room \ {from}, NEW d \in Members(chain[q])
          PROVE  d \in Char /\ d # s[n]
      <4>1. s[n] \in Members(s)
        BY <2>1 DEF Members
      <4>2. Members(chain[q]) \subseteq Char
        BY <1>1, ChainFacts
      <4> QED
        BY <4>1, <4>2, <1>3
    <3> QED
      BY <3>1, <2>4
  <2>6. IsWalk(chain[from], from)'
    BY <1>5, <2>3 DEF IsWalk
  <2>7. ASSUME NEW q \in Room, q # from, q # to
        PROVE  IsWalk(chain[q], q)'
    BY <1>1, <1>5, <2>3, <2>5, <2>7, OtherRoom
  <2>8. /\ Len(m) = n + Len(t)
        /\ \A i \in 1..(n + Len(t)) : m[i] = IF i <= n THEN s[i] ELSE t[i - n]
    BY <1>3, <1>4, JoinedChains
  <2>9. /\ head[from] = s[1]
        /\ \A i \in 1..n : next[s[i]] = IF i = n THEN Null ELSE s[i + 1]
    BY <1>6, <1>9 DEF IsWalk
  <2>10. /\ head[to] = IF Len(t) = 0 THEN Null ELSE t[1]
         /\ \A i \in 1..Len(t) : next[t[i]] = IF i = Len(t) THEN Null ELSE t[i + 1]
    BY <1>4, <1>6, EmptySeq DEF IsWalk
  <2>11. \A i \in 1..Len(t) : next'[t[i]] = next[t[i]]
    BY <1>2, <2>5 DEF Members
  <2> HIDE DEF s, t, m
  <2>12. ASSUME NEW i \in 1..(n + Len(t))
         PROVE  next'[m[i]] = IF i = n + Len(t) THEN Null ELSE m[i + 1]
    <3>1. CASE i < n
      <4>1. i \in 1..n /\ i + 1 \in 1..(n + Len(t)) /\ i + 1 <= n /\ i # n /\ i # n + Len(t)
        BY <3>1, <1>3, <1>4
      <4>2. m[i] = s[i] /\ m[i + 1] = s[i + 1]
        BY <4>1, <2>8
      <4>3. s[i] # s[n] /\ s[i] \in Char
        BY <4>1, <2>1, <1>3 DEF Distinct
      <4> QED
        BY <4>1, <4>2, <4>3, <2>4, <2>9
    <3>2. CASE i = n
      <4>1. m[i] = s[n]
        BY <3>2, <2>8
      <4>2. CASE Len(t) = 0
        BY <3>2, <4>1, <4>2, <1>3, <2>4, <2>10
      <4>3. CASE Len(t) # 0
        <5>1. n + 1 \in 1..(n + Len(t)) /\ ~ (n + 1 <= n) /\ (n + 1) - n = 1 /\ n # n + Len(t)
          BY <4>3, <1>3, <1>4
        <5>2. m[n + 1] = t[1]
          BY <5>1, <2>8
        <5> QED
          BY <3>2, <4>1, <4>3, <5>1, <5>2, <2>4, <2>10
      <4> QED
        BY <4>2, <4>3
    <3>3. CASE i > n
      <4>1. i - n \in 1..Len(t) /\ ~ (i <= n) /\ (i = n + Len(t) <=> i - n = Len(t))
        BY <3>3, <1>3, <1>4
      <4>2. m[i] = t[i - n]
        BY <4>1, <2>8
      <4>3. i # n + Len(t) => m[i + 1] = t[(i - n) + 1]
        <5>1. SUFFICES ASSUME i # n + Len(t) PROVE m[i + 1] = t[(i - n) + 1]
          OBVIOUS
        <5>2. i + 1 \in 1..(n + Len(t)) /\ ~ (i + 1 <= n) /\ (i + 1) - n = (i - n) + 1
          BY <3>3, <5>1, <1>3, <1>4
        <5> QED
          BY <5>2, <2>8
      <4> QED
        BY <4>1, <4>2, <4>3, <2>10, <2>11
    <3> QED
      BY <3>1, <3>2, <3>3, <1>3, <1>4
  <2>13. m # <<>> /\ m[1] = s[1]
    BY <2>1, <2>8, <1>3, <1>4
  <2>14. IsWalk(chain[to], to)'
    BY <1>5, <2>3, <2>8, <2>9, <2>12, <2>13 DEF IsWalk
  <2> QED
    BY <2>6, <2>7, <2>14 DEF PointersAgree
<1> QED
  BY <1>8, <1>9

(***************************************************************************)
(* The induction.                                                          *)
(***************************************************************************)

LEMMA ChainInitInvariant == ChainInit => ChainInv
<1> SUFFICES ASSUME ChainInit PROVE ChainInv
  OBVIOUS
<1>1. PtrTypeOK
  BY DEF ChainInit, PtrInit, PtrTypeOK, Ptr
<1>2. PointersAgree
  BY DEF ChainInit, Init, PtrInit, PointersAgree, IsWalk
<1> QED
  BY <1>1, <1>2, InitInvariant DEF ChainInit, ChainInv

\* Heads and links stay pointers to characters.
LEMMA PtrTypesKept ==
    ASSUME ChainInv, ChainNext
    PROVE  PtrTypeOK'
<1>1. PtrTypeOK /\ Null \in Ptr /\ Char \subseteq Ptr
  BY DEF ChainInv, Ptr
<1>2. CASE UNCHANGED ptrs
  BY <1>1, <1>2 DEF ptrs, PtrTypeOK
<1>3. ASSUME NEW c \in Char, ClearLink(c)
      PROVE  PtrTypeOK'
  BY <1>1, <1>3 DEF ClearLink, PtrTypeOK
<1>4. ASSUME NEW c \in Char, Unlink(c)
      PROVE  PtrTypeOK'
  BY <1>1, <1>4 DEF Unlink, ptrs, PtrTypeOK
<1>5. ASSUME NEW c \in Char, NEW r \in Place, LinkAtTail(c, r)
      PROVE  PtrTypeOK'
  BY <1>1, <1>5 DEF LinkAtTail, ptrs, PtrTypeOK
<1>6. ASSUME NEW from \in Room, NEW to \in Room, Splice(from, to)
      PROVE  PtrTypeOK'
  BY <1>1, <1>6 DEF Splice, ptrs, PtrTypeOK
<1> QED
  BY <1>2, <1>3, <1>4, <1>5, <1>6 DEF ChainNext

\* Every step is one of Placement's, whatever happens to the pointers.
LEMMA StepOfPlacement == ChainNext => Next
BY DEF ChainNext, Next

LEMMA ChainNextInvariant == ChainInv /\ [ChainNext]_allVars => ChainInv'
<1> SUFFICES ASSUME ChainInv, [ChainNext]_allVars PROVE ChainInv'
  OBVIOUS
<1>1. CASE UNCHANGED allVars
  <2>1. UNCHANGED vars /\ UNCHANGED ptrs
    BY <1>1 DEF allVars, vars, ptrs
  <2>2. IInv'
    BY <2>1, NextInvariant DEF ChainInv
  <2> QED
    BY <1>1, <2>2 DEF ChainInv, allVars, PtrTypeOK, PointersAgree, IsWalk
<1>2. CASE ChainNext
  <2>1. IInv'
    BY <1>2, StepOfPlacement, NextInvariant DEF ChainInv
  <2>2. PtrTypeOK'
    BY <1>2, PtrTypesKept
  <2>3. ASSUME UNCHANGED chain, UNCHANGED ptrs
        PROVE  PointersAgree'
    BY <2>3 DEF ChainInv, ptrs, PointersAgree, IsWalk
  <2>4. ASSUME NEW c \in Char, CharFromRoom(c), Unlink(c)
        PROVE  PointersAgree'
    BY <2>4, UnlinkAgrees DEF CharFromRoom
  <2>5. ASSUME NEW c \in Char, ExtractChar(c),
               IF loc[c] # NOWHERE THEN Unlink(c) ELSE UNCHANGED ptrs
        PROVE  PointersAgree'
    <3>1. CASE loc[c] = NOWHERE
      BY <2>3, <2>5, <3>1 DEF ExtractChar
    <3>2. CASE loc[c] # NOWHERE
      BY <2>5, <3>2, UnlinkAgrees DEF ExtractChar
    <3> QED
      BY <3>1, <3>2
  <2>6. ASSUME NEW c \in Char, NEW r \in Place, UNCHANGED ptrs,
               Restore(c) \/ OpenCursor(c, r) \/ Retarget(c, r)
        PROVE  PointersAgree'
    BY <2>3, <2>6 DEF Restore, OpenCursor, Retarget
  <2>7. NOWHERE \in Place
    BY DEF Place
  <2>8. PointersAgree'
    BY <1>2, <2>4, <2>5, <2>6, <2>7, ClearLinkAgrees, LinkAtTailAgrees, SpliceAgrees DEF ChainNext
  <2> QED
    BY <2>1, <2>2, <2>8 DEF ChainInv
<1> QED
  BY <1>1, <1>2

\* Every walk of every room is the room's sequence of occupants, forever.
THEOREM WalksAreChains == ChainSpec => []PointersAgree
<1>1. ChainInv => PointersAgree
  BY DEF ChainInv
<1> QED
  BY ChainInitInvariant, ChainNextInvariant, <1>1, PTL DEF ChainSpec

\* With its pointers the location system is still the one of Placement, whose
\* theorems therefore hold of it.
LEMMA ChainIsPlacement == ChainSpec => Spec
<1>1. ChainInit => Init
  BY DEF ChainInit
<1>2. [ChainNext]_allVars => [Next]_vars
  BY StepOfPlacement DEF allVars, vars
<1> QED
  BY <1>1, <1>2, PTL DEF ChainSpec, Spec

\* A walk along the pointers of a room meets every living character that
\* stands there, by its field or behind a window, and nobody else.
THEOREM WalksMeetOccupants ==
    ChainSpec => [](\A r \in Room : Met(r) = {c \in live : TrueLocation(c) = r})
<1>1. ChainInv => \A r \in Room : Met(r) = {c \in live : TrueLocation(c) = r}
  <2> SUFFICES ASSUME ChainInv, NEW r \in Room
               PROVE  Met(r) = {c \in live : TrueLocation(c) = r}
    OBVIOUS
  <2>1. Met(r) = Members(chain[r])
    BY MetMembers
  <2>2. Members(chain[r]) \subseteq live /\ live \subseteq Char
    BY DEF ChainInv, IInv, NoFreedOccupant, TypeOK
  <2>3. \A c \in Char : c \in Members(chain[r]) <=> TrueLocation(c) = r
    BY DEF ChainInv, IInv, LinkedWhereItStands, Linked
  <2> QED
    BY <2>1, <2>2, <2>3
<1> QED
  BY ChainInitInvariant, ChainNextInvariant, <1>1, PTL DEF ChainSpec
=============================================================================
