---------------------------- MODULE EntityProofs ----------------------------
(***************************************************************************)
(* Proofs about what belongs to a character, for any number of characters, *)
(* rooms, slots, affects and objects.                                      *)
(*                                                                         *)
(* Affects: what the registry and affected_list say of each other, and     *)
(* that a walk meets whom its entries were made for and forgets nobody it  *)
(* should come to again.                                                   *)
(*                                                                         *)
(* Objects: that each is in one place and points back to it, that the      *)
(* counts are the lengths of the lists, and that no room is darker than    *)
(* its lamps.  A command is a composition of the primitives, so the lemmas *)
(* are about states in the middle of one: what each primitive changes (its *)
(* frame), that it leaves every object accounted for (Placed), and that it *)
(* leaves the counts and the lights right (Sound).                         *)
(***************************************************************************)
EXTENDS Affects, Objects, TLAPS, WellFoundedInduction, FiniteSetTheorems

-----------------------------------------------------------------------------
(* The inductive invariant: a free address has no affects left, so that    *)
(* who gets it begins with none and is listed with the first.              *)

FreeIsUnaffected == \A c \in Char : stage[c] = "free" => affects[c] = 0

IInv == TypeOK /\ RegistrySound /\ ListMatches /\ FreeIsUnaffected

LEMMA ZeroSlot == 0 \in Slot
  BY MaxCharactersAssumption DEF Slot

\* Any nonempty set of slots has a least one.
LEMMA LeastSlot ==
    ASSUME NEW S \in SUBSET Slot, S # {}
    PROVE  Min(S) \in S
<1> DEFINE R == OpToRel(<, Nat)
<1>1. S \subseteq Nat
  BY MaxCharactersAssumption DEF Slot
<1>2. IsWellFoundedOn(R, Nat)
  BY NatLessThanWellFounded
<1>3. \A t, s \in Nat : t < s => <<t, s>> \in R
  BY DEF OpToRel
<1> HIDE DEF R
<1>4. PICK s \in S : \A t \in S : ~ (<<t, s>> \in R)
  BY <1>1, <1>2, WFMin
<1>5. \A t \in S : ~ (t < s)
  BY <1>1, <1>3, <1>4, Zenon
<1>6. \A t \in S : s =< t
  BY <1>1, <1>5
<1> QED
  BY <1>6 DEF Min

\* The slot a new character gets is free.
LEMMA NextSlotIsFree ==
    ASSUME FreeSlots # {}
    PROVE  NextSlot \in FreeSlots
<1> DEFINE ahead == {s \in FreeSlots : s > last}
<1>1. CASE ahead # {}
  <2>1. Min(ahead) \in ahead
    BY <1>1, LeastSlot DEF FreeSlots
  <2> QED
    BY <1>1, <2>1 DEF NextSlot
<1>2. CASE ahead = {}
  <2>1. Min(FreeSlots) \in FreeSlots
    BY LeastSlot DEF FreeSlots
  <2> QED
    BY <1>2, <2>1 DEF NextSlot
<1> QED
  BY <1>1, <1>2

\* Registering a character keeps the registry sound and takes nobody's slot.
LEMMA RegisterSound ==
    ASSUME TypeOK, RegistrySound, NEW c \in Char, NEW as \in Stage \ {"free"}, Register(c, as)
    PROVE  /\ stage' \in [Char -> Stage]
           /\ number' \in [Char -> Slot]
           /\ owner' \in [Slot -> Char \cup {None}]
           /\ last' \in Slot
           /\ RegistrySound'
<1>1. NextSlot \in Slot /\ owner[NextSlot] = None
  BY NextSlotIsFree DEF Register, FreeSlots
<1>2. /\ stage[c] = "free"
      /\ stage' = [stage EXCEPT ![c] = as]
      /\ number' = [number EXCEPT ![c] = NextSlot]
      /\ owner' = [owner EXCEPT ![NextSlot] = c]
      /\ last' = NextSlot
  BY DEF Register
<1> HIDE DEF NextSlot
<1>3. /\ stage' \in [Char -> Stage]
      /\ number' \in [Char -> Slot]
      /\ owner' \in [Slot -> Char \cup {None}]
      /\ last' \in Slot
  BY <1>1, <1>2 DEF TypeOK
<1>4. ASSUME NEW s \in Slot, owner'[s] # None
      PROVE  owner'[s] \in Live' /\ number'[owner'[s]] = s
  <2>1. CASE s = NextSlot
    BY <1>1, <1>2, <2>1 DEF TypeOK, Live
  <2>2. CASE s # NextSlot
    <3>1. owner'[s] = owner[s] /\ owner[s] \in Live /\ number[owner[s]] = s
      BY <1>2, <1>4, <2>2 DEF TypeOK, RegistrySound
    <3>2. owner[s] \in Char /\ owner[s] # c
      BY <1>2, <3>1 DEF Live
    <3> QED
      BY <1>2, <3>1, <3>2 DEF TypeOK, Live
  <2> QED
    BY <2>1, <2>2
<1>5. ASSUME NEW d \in Live', number'[d] # 0
      PROVE  owner'[number'[d]] = d
  <2>1. CASE d = c
    BY <1>1, <1>2, <2>1 DEF TypeOK
  <2>2. CASE d # c
    <3>1. d \in Live /\ number'[d] = number[d] /\ number[d] \in Slot
      BY <1>2, <1>5, <2>2 DEF TypeOK, Live
    <3>2. owner[number[d]] = d /\ d # None
      BY <1>5, <3>1, NoneAssumption DEF RegistrySound, Live
    <3> QED
      BY <1>1, <1>2, <3>1, <3>2 DEF TypeOK
  <2> QED
    BY <2>1, <2>2
<1> QED
  BY <1>3, <1>4, <1>5 DEF RegistrySound

\* A freed character leaves a sound registry: nobody else had its slot, but for
\* slot 0.
LEMMA FreeSound ==
    ASSUME TypeOK, RegistrySound, NEW c \in Live,
           stage' = [stage EXCEPT ![c] = "free"],
           owner' = [owner EXCEPT ![number[c]] = None],
           number' = [number EXCEPT ![c] = 0]
    PROVE  RegistrySound'
<1>1. c \in Char /\ number[c] \in Slot
  BY DEF TypeOK, Live
<1>2. ASSUME NEW s \in Slot, owner'[s] # None
      PROVE  owner'[s] \in Live' /\ number'[owner'[s]] = s
  <2>1. s # number[c] /\ owner'[s] = owner[s]
    BY <1>1, <1>2 DEF TypeOK
  <2>2. owner[s] \in Live /\ number[owner[s]] = s
    BY <1>2, <2>1 DEF RegistrySound
  <2>3. owner[s] \in Char /\ owner[s] # c
    BY <2>1, <2>2 DEF Live
  <2> QED
    BY <2>1, <2>2, <2>3 DEF TypeOK, Live
<1>3. ASSUME NEW d \in Live', number'[d] # 0
      PROVE  owner'[number'[d]] = d
  <2>1. d \in Live /\ d # c /\ number'[d] = number[d]
    BY <1>1 DEF TypeOK, Live
  <2>2. owner[number[d]] = d /\ number[d] \in Slot
    BY <1>3, <2>1 DEF RegistrySound, TypeOK, Live
  <2>3. number[c] # number[d]
    BY <1>3, <2>1, <2>2 DEF RegistrySound
  <2> QED
    BY <1>1, <2>1, <2>2, <2>3 DEF TypeOK
<1> QED
  BY <1>2, <1>3 DEF RegistrySound

\* The first affect lists a bearer that is not listed; no other does.
LEMMA FirstListedSound ==
    ASSUME TypeOK, NEW c \in Live
    PROVE  FirstListed(c, number[c]) \in [Entry -> Nat]
  BY DEF FirstListed, TypeOK, Live, Entry

LEMMA UnlistedType ==
    ASSUME TypeOK, NEW c \in Char
    PROVE  Unlisted(c) \in [Entry -> Nat]
  BY DEF Unlisted, TypeOK

-----------------------------------------------------------------------------
(* The invariant, one part at a time.                                      *)

LEMMA InitInvariant == Init => IInv
<1> SUFFICES ASSUME Init
             PROVE  IInv
  OBVIOUS
<1>1. TypeOK
  BY ZeroSlot, MaxAffectsAssumption DEF Init, TypeOK, Stage
<1>2. RegistrySound
  BY <1>1 DEF Init, RegistrySound, Live
<1>3. ListMatches
  BY <1>1 DEF Init, ListMatches, NodesNameTheAffected, PassingRoomsListed, Entry
<1> QED
  BY <1>1, <1>2, <1>3 DEF IInv, FreeIsUnaffected, Init

LEMMA TypeStep ==
    ASSUME TypeOK, RegistrySound, [Next]_vars
    PROVE  TypeOK'
<1>1. CASE UNCHANGED vars
  BY <1>1 DEF TypeOK, vars, registry, list, walk
<1>2. CASE BeginTick
  BY <1>2 DEF BeginTick, TypeOK, registry, list
<1>3. CASE EndUpdate
  BY <1>3 DEF EndUpdate, TypeOK, registry, list
<1>4. CASE Rehash
  BY <1>4 DEF Rehash, TypeOK, registry, walk
<1>5. CASE ScratchChar
  BY <1>5 DEF ScratchChar, TypeOK, list, walk
<1>6. ASSUME NEW c \in Char, NEW s \in Slot, UpdateChar(c, s) \/ DropEntry(c, s)
      PROVE  TypeOK'
  <2>1. <<c, s>> \in Entry
    BY DEF Entry
  <2>2. dueChars' \in [Entry -> Nat]
    <3>1. dueChars[<<c, s>>] > 0 /\ dueChars' = [dueChars EXCEPT ![<<c, s>>] = @ - 1]
      BY <1>6 DEF UpdateChar, DropEntry, Turn
    <3> QED
      BY <2>1, <3>1 DEF TypeOK
  <2>3. charNodes' \in [Entry -> Nat]
    <3>1. \/ charNodes' = charNodes
          \/ charNodes' = [charNodes EXCEPT ![<<c, s>>] = IF @ > 0 THEN @ - 1 ELSE 0]
      BY <1>6 DEF UpdateChar, DropEntry
    <3> QED
      BY <2>1, <3>1 DEF TypeOK
  <2>4. at' \in Char \cup Room \cup {None}
    BY <1>6 DEF UpdateChar, DropEntry, TypeOK
  <2> QED
    BY <1>6, <2>2, <2>3, <2>4 DEF UpdateChar, DropEntry, Turn, TypeOK, registry
<1>7. ASSUME NEW r \in Room, UpdateRoom(r) \/ AffectToRoom(r) \/ AffectRemoveRoom(r)
      PROVE  TypeOK'
  BY <1>7, MaxAffectsAssumption DEF UpdateRoom, AffectToRoom, AffectRemoveRoom, TypeOK,
         registry, list, walk
<1>8. ASSUME NEW c \in Char, AffectToChar(c)
      PROVE  TypeOK'
  <2>1. charNodes' \in [Entry -> Nat]
    BY <1>8, FirstListedSound DEF AffectToChar
  <2>2. affects' \in [Char -> 0..MaxAffects]
    BY <1>8, MaxAffectsAssumption DEF AffectToChar, TypeOK
  <2> QED
    BY <1>8, <2>1, <2>2 DEF AffectToChar, TypeOK, registry, walk
<1>9. ASSUME NEW c \in Char, AffectRemove(c)
      PROVE  TypeOK'
  <2>1. charNodes' \in [Entry -> Nat]
    BY <1>9, UnlistedType DEF AffectRemove, TypeOK
  <2>2. affects' \in [Char -> 0..MaxAffects]
    BY <1>9, MaxAffectsAssumption DEF AffectRemove, TypeOK
  <2> QED
    BY <1>9, <2>1, <2>2 DEF AffectRemove, TypeOK, registry, walk
<1>10. ASSUME NEW c \in Char, NEW fast \in BOOLEAN, LoadMobile(c, fast)
       PROVE  TypeOK'
  <2>1. Register(c, "mobile") /\ NextSlot \in Slot
    BY <1>10, NextSlotIsFree DEF LoadMobile, Register, FreeSlots
  <2>2. stage' \in [Char -> Stage] /\ number' \in [Char -> Slot]
        /\ owner' \in [Slot -> Char \cup {None}] /\ last' \in Slot
    BY <2>1, RegisterSound DEF Stage
  <2>3. charNodes' \in [Entry -> Nat] /\ affects' \in [Char -> 0..MaxAffects]
    BY <1>10, <2>1, MaxAffectsAssumption DEF LoadMobile, TypeOK, Entry
  <2> QED
    BY <1>10, <2>2, <2>3 DEF LoadMobile, TypeOK, walk
<1>11. ASSUME NEW c \in Char, NewPlayer(c)
       PROVE  TypeOK'
  <2>1. stage' \in [Char -> Stage] /\ number' \in [Char -> Slot]
        /\ owner' \in [Slot -> Char \cup {None}] /\ last' \in Slot
    BY <1>11, RegisterSound DEF NewPlayer, Stage
  <2> QED
    BY <1>11, <2>1 DEF NewPlayer, TypeOK, list, walk
<1>12. ASSUME NEW c \in Char, EnterGame(c) \/ BackToMenu(c)
       PROVE  TypeOK'
  BY <1>12 DEF EnterGame, BackToMenu, TypeOK, Stage, list, walk
<1>13. ASSUME NEW c \in Char, Strip(c)
       PROVE  charNodes' \in [Entry -> Nat] /\ affects' \in [Char -> 0..MaxAffects]
  BY <1>13, UnlistedType, MaxAffectsAssumption DEF Strip, TypeOK
<1>14. ASSUME NEW c \in Char, DieAndReturn(c)
       PROVE  TypeOK'
  BY <1>13, <1>14 DEF DieAndReturn, TypeOK, registry, walk
<1>15. ASSUME NEW c \in Char, FreeChar(c)
       PROVE  TypeOK'
  <2>1. /\ stage' \in [Char -> Stage]
        /\ number' \in [Char -> Slot]
        /\ owner' \in [Slot -> Char \cup {None}]
    BY <1>15, ZeroSlot DEF FreeChar, TypeOK, Stage
  <2> QED
    BY <1>13, <1>15, <2>1 DEF FreeChar, TypeOK, walk
<1> QED
  BY <1>1, <1>2, <1>3, <1>4, <1>5, <1>6, <1>7, <1>8, <1>9, <1>10, <1>11,
     <1>12, <1>14, <1>15 DEF Next

LEMMA RegistryStep ==
    ASSUME TypeOK, RegistrySound, [Next]_vars
    PROVE  RegistrySound'
<1>1. CASE UNCHANGED registry
  BY <1>1 DEF RegistrySound, Live, registry
<1>2. CASE ScratchChar
  BY <1>2 DEF ScratchChar, RegistrySound, Live, TypeOK
<1>3. ASSUME NEW c \in Char, Register(c, "mobile") \/ Register(c, "menu")
      PROVE  RegistrySound'
  BY <1>3, RegisterSound DEF Stage
<1>4. ASSUME NEW c \in Char, EnterGame(c) \/ BackToMenu(c)
      PROVE  RegistrySound'
  BY <1>4 DEF EnterGame, BackToMenu, RegistrySound, Live, TypeOK
<1>5. ASSUME NEW c \in Char, FreeChar(c)
      PROVE  RegistrySound'
  BY <1>5, FreeSound DEF FreeChar
<1>6. UNCHANGED registry \/ ScratchChar
        \/ \E c \in Char : \/ Register(c, "mobile") \/ Register(c, "menu")
                           \/ EnterGame(c) \/ BackToMenu(c) \/ FreeChar(c)
  BY DEF Next, BeginTick, EndUpdate, Rehash, UpdateChar, DropEntry, Turn, UpdateRoom, AffectToRoom,
         AffectRemoveRoom, AffectToChar, AffectRemove, LoadMobile, NewPlayer, DieAndReturn, vars
<1> QED
  BY <1>1, <1>2, <1>3, <1>4, <1>5, <1>6

\* Without affects left at free addresses, a new character starts with none.
LEMMA UnaffectedStep ==
    ASSUME TypeOK, FreeIsUnaffected, [Next]_vars
    PROVE  FreeIsUnaffected'
<1>1. CASE UNCHANGED <<stage, affects>>
  BY <1>1 DEF FreeIsUnaffected
<1>2. ASSUME NEW c \in Char, AffectToChar(c) \/ AffectRemove(c)
      PROVE  FreeIsUnaffected'
  BY <1>2 DEF AffectToChar, AffectRemove, FreeIsUnaffected, TypeOK, registry, Live
<1>3. ASSUME NEW c \in Char, NEW fast \in BOOLEAN, LoadMobile(c, fast)
      PROVE  FreeIsUnaffected'
  BY <1>3 DEF LoadMobile, Register, FreeIsUnaffected, TypeOK
<1>4. ASSUME NEW c \in Char, NewPlayer(c) \/ EnterGame(c) \/ BackToMenu(c)
      PROVE  FreeIsUnaffected'
  BY <1>4 DEF NewPlayer, Register, EnterGame, BackToMenu, FreeIsUnaffected, TypeOK, list
<1>5. ASSUME NEW c \in Char, DieAndReturn(c) \/ FreeChar(c)
      PROVE  FreeIsUnaffected'
  BY <1>5 DEF DieAndReturn, FreeChar, Strip, FreeIsUnaffected, TypeOK, registry
<1>6. \/ UNCHANGED <<stage, affects>>
      \/ \E c \in Char, fast \in BOOLEAN : LoadMobile(c, fast)
      \/ \E c \in Char : \/ AffectToChar(c) \/ AffectRemove(c) \/ NewPlayer(c) \/ EnterGame(c)
                         \/ BackToMenu(c) \/ DieAndReturn(c) \/ FreeChar(c)
  BY DEF Next, BeginTick, EndUpdate, Rehash, ScratchChar, UpdateChar, DropEntry, Turn, UpdateRoom,
         AffectToRoom, AffectRemoveRoom, vars, registry, list
<1> QED
  BY <1>1, <1>2, <1>3, <1>4, <1>5, <1>6

\* A node that stays, of a character that is left as it was, still names it.
LEMMA NodesKept ==
    ASSUME NodesNameTheAffected,
           \A e \in Entry : charNodes'[e] > 0 =>
               /\ charNodes'[e] = charNodes[e]
               /\ stage'[e[1]] # "free" /\ affects'[e[1]] > 0 /\ number'[e[1]] = number[e[1]]
    PROVE  NodesNameTheAffected'
<1> SUFFICES ASSUME NEW e \in Entry, charNodes'[e] > 0
             PROVE  /\ e[1] \in Live' /\ affects'[e[1]] > 0 /\ number'[e[1]] = e[2]
                    /\ charNodes'[e] = 1
  BY DEF NodesNameTheAffected
<1>1. charNodes[e] > 0 /\ charNodes'[e] = charNodes[e]
  OBVIOUS
<1>2. number[e[1]] = e[2] /\ charNodes[e] = 1
  BY <1>1 DEF NodesNameTheAffected
<1> QED
  BY <1>1, <1>2 DEF Entry, Live

LEMMA NodesStep ==
    ASSUME IInv, [Next]_vars
    PROVE  NodesNameTheAffected'
<1> USE DEF IInv, ListMatches
<1>1. CASE UNCHANGED <<stage, number, affects, charNodes>>
  BY <1>1 DEF NodesNameTheAffected, Live
<1>2. CASE Rehash
  BY <1>2 DEF Rehash, NodesNameTheAffected, Live, World, registry
<1>3. ASSUME NEW c \in Char, NEW s \in Slot, DropEntry(c, s)
      PROVE  NodesNameTheAffected'
  <2>1. <<c, s>> \in Entry
    BY DEF Entry
  <2>2. charNodes' = [charNodes EXCEPT ![<<c, s>>] = IF @ > 0 THEN @ - 1 ELSE 0]
    BY <1>3 DEF DropEntry
  <2>3. charNodes[<<c, s>>] = 0 \/ charNodes[<<c, s>>] = 1
    BY <2>1 DEF NodesNameTheAffected, TypeOK
  <2>4. \A e \in Entry : charNodes'[e] > 0 => charNodes'[e] = charNodes[e]
    BY <2>1, <2>2, <2>3 DEF TypeOK
  <2> QED
    BY <1>3, <2>4, NodesKept DEF DropEntry, Turn, registry, NodesNameTheAffected, Live
<1>4. ASSUME NEW c \in Char, AffectToChar(c)
      PROVE  NodesNameTheAffected'
  <2> DEFINE n == <<c, number[c]>>
  <2>1. /\ c \in Live /\ affects' = [affects EXCEPT ![c] = @ + 1]
        /\ charNodes' = FirstListed(c, number[c])
        /\ UNCHANGED <<stage, number>>
    BY <1>4 DEF AffectToChar, registry
  <2>2. CASE affects[c] = 0
    <3>1. n \in Entry /\ charNodes' = [charNodes EXCEPT ![n] = @ + 1]
      BY <2>1, <2>2 DEF FirstListed, Entry, TypeOK
    <3>2. charNodes[n] = 0
      BY <2>2, <3>1 DEF NodesNameTheAffected, TypeOK
    <3> SUFFICES ASSUME NEW e \in Entry, charNodes'[e] > 0
                 PROVE  /\ e[1] \in Live' /\ affects'[e[1]] > 0 /\ number'[e[1]] = e[2]
                        /\ charNodes'[e] = 1
      BY DEF NodesNameTheAffected
    <3>3. CASE e = n
      BY <2>1, <2>2, <3>1, <3>2, <3>3 DEF TypeOK, Live
    <3>4. CASE e # n
      <4>1. charNodes'[e] = charNodes[e]
        BY <3>1, <3>4 DEF TypeOK
      <4>2. e[1] \in Live /\ affects[e[1]] > 0 /\ number[e[1]] = e[2] /\ charNodes[e] = 1
        BY <4>1 DEF NodesNameTheAffected
      <4> QED
        BY <2>1, <2>2, <4>1, <4>2 DEF TypeOK, Live
    <3> QED
      BY <3>3, <3>4
  <2>3. CASE affects[c] > 0
    <3>1. charNodes' = charNodes
      BY <2>1, <2>3 DEF FirstListed
    <3>2. \A d \in Char : affects[d] > 0 => affects'[d] > 0
      BY <2>1 DEF TypeOK
    <3> QED
      BY <2>1, <3>1, <3>2 DEF NodesNameTheAffected, Live
  <2> QED
    BY <2>1, <2>2, <2>3 DEF TypeOK, Live
<1>5. ASSUME NEW c \in Char, AffectRemove(c)
      PROVE  NodesNameTheAffected'
  <2>1. /\ affects' = [affects EXCEPT ![c] = @ - 1]
        /\ charNodes' = IF affects[c] = 1 THEN Unlisted(c) ELSE charNodes
        /\ UNCHANGED <<stage, number>>
    BY <1>5 DEF AffectRemove, registry
  <2>2. \A e \in Entry : charNodes'[e] > 0 =>
            charNodes'[e] = charNodes[e] /\ (e[1] = c => affects[c] # 1)
    BY <2>1 DEF Unlisted
  <2>3. \A e \in Entry : charNodes'[e] > 0 => stage[e[1]] # "free" /\ affects[e[1]] > 0
    BY <2>2 DEF NodesNameTheAffected, Live
  <2>4. \A e \in Entry : charNodes'[e] > 0 => affects'[e[1]] > 0
    BY <2>1, <2>2, <2>3 DEF TypeOK, Entry
  <2> QED
    BY <2>1, <2>2, <2>3, <2>4, NodesKept
<1>6. ASSUME NEW c \in Char, NEW fast \in BOOLEAN, LoadMobile(c, fast)
      PROVE  NodesNameTheAffected'
  <2>1. /\ stage[c] = "free" /\ NextSlot \in Slot
        /\ stage' = [stage EXCEPT ![c] = "mobile"]
        /\ number' = [number EXCEPT ![c] = NextSlot]
        /\ affects' = [affects EXCEPT ![c] = IF fast THEN 1 ELSE 0]
        /\ charNodes' = IF fast THEN [charNodes EXCEPT ![<<c, NextSlot>>] = @ + 1]
                                ELSE charNodes
    BY <1>6, NextSlotIsFree DEF LoadMobile, Register, FreeSlots
  <2> HIDE DEF NextSlot
  <2>2. <<c, NextSlot>> \in Entry
    BY <2>1 DEF Entry
  <2>3. \A e \in Entry : e[1] = c => charNodes[e] = 0
    BY <2>1 DEF NodesNameTheAffected, Live, TypeOK
  <2> SUFFICES ASSUME NEW e \in Entry, charNodes'[e] > 0
               PROVE  /\ e[1] \in Live' /\ affects'[e[1]] > 0 /\ number'[e[1]] = e[2]
                      /\ charNodes'[e] = 1
    BY DEF NodesNameTheAffected
  <2>4. CASE e[1] = c
    <3>1. fast /\ e = <<c, NextSlot>>
      BY <2>1, <2>2, <2>3, <2>4 DEF TypeOK, Entry
    <3> QED
      BY <2>1, <2>2, <2>3, <3>1 DEF TypeOK, Live
  <2>5. CASE e[1] # c
    <3>1. charNodes'[e] = charNodes[e]
      BY <2>1, <2>2, <2>5 DEF TypeOK
    <3>2. e[1] \in Live /\ affects[e[1]] > 0 /\ number[e[1]] = e[2] /\ charNodes[e] = 1
      BY <3>1 DEF NodesNameTheAffected
    <3> QED
      BY <2>1, <2>5, <3>1, <3>2 DEF TypeOK, Live
  <2> QED
    BY <2>4, <2>5
<1>7. ASSUME NEW c \in Char, NewPlayer(c)
      PROVE  NodesNameTheAffected'
  <2>1. /\ stage[c] = "free" /\ UNCHANGED <<affects, charNodes>>
        /\ stage' = [stage EXCEPT ![c] = "menu"]
        /\ number' = [number EXCEPT ![c] = NextSlot]
    BY <1>7 DEF NewPlayer, Register, list
  <2>2. \A e \in Entry : charNodes[e] > 0 => e[1] \in Live /\ e[1] # c /\ affects[e[1]] > 0
    BY <2>1 DEF NodesNameTheAffected, Live
  <2> QED
    BY <2>1, <2>2, NodesKept DEF TypeOK, Live
<1>8. ASSUME NEW c \in Char, EnterGame(c) \/ BackToMenu(c)
      PROVE  NodesNameTheAffected'
  <2>1. UNCHANGED <<number, affects, charNodes>> /\ Live' = Live
    BY <1>8 DEF EnterGame, BackToMenu, list, Live, TypeOK
  <2> QED
    BY <2>1 DEF NodesNameTheAffected
<1>9. ASSUME NEW c \in Char, DieAndReturn(c) \/ FreeChar(c)
      PROVE  NodesNameTheAffected'
  <2>1. /\ c \in Live
        /\ affects' = [affects EXCEPT ![c] = 0]
        /\ charNodes' = IF affects[c] > 0 THEN Unlisted(c) ELSE charNodes
        /\ \A d \in Char \ {c} : stage'[d] = stage[d] /\ number'[d] = number[d]
    BY <1>9 DEF DieAndReturn, FreeChar, Strip, registry, TypeOK, Live
  <2>2. \A e \in Entry : charNodes'[e] > 0 => charNodes'[e] = charNodes[e] /\ e[1] # c
    BY <2>1 DEF Unlisted, NodesNameTheAffected
  <2>3. \A e \in Entry : charNodes'[e] > 0 => e[1] \in Live /\ affects[e[1]] > 0
    BY <2>2 DEF NodesNameTheAffected
  <2> QED
    BY <2>1, <2>2, <2>3, NodesKept DEF TypeOK, Live
<1>10. \/ UNCHANGED <<stage, number, affects, charNodes>>
       \/ Rehash
       \/ \E c \in Char, s \in Slot : DropEntry(c, s)
       \/ \E c \in Char, fast \in BOOLEAN : LoadMobile(c, fast)
       \/ \E c \in Char : \/ AffectToChar(c) \/ AffectRemove(c) \/ NewPlayer(c) \/ EnterGame(c)
                          \/ BackToMenu(c) \/ DieAndReturn(c) \/ FreeChar(c)
  BY DEF Next, BeginTick, EndUpdate, ScratchChar, UpdateChar, Turn, UpdateRoom,
         AffectToRoom, AffectRemoveRoom, vars, registry, list
<1> QED
  BY <1>1, <1>2, <1>3, <1>4, <1>5, <1>6, <1>7, <1>8, <1>9, <1>10

LEMMA RoomsStep ==
    ASSUME TypeOK, PassingRoomsListed, [Next]_vars
    PROVE  PassingRoomsListed'
<1>1. CASE UNCHANGED <<passing, roomNodes>>
  BY <1>1 DEF PassingRoomsListed
<1>2. CASE Rehash
  BY <1>2 DEF Rehash, PassingRoomsListed
<1>3. ASSUME NEW r \in Room, AffectToRoom(r) \/ AffectRemoveRoom(r)
      PROVE  PassingRoomsListed'
  BY <1>3 DEF AffectToRoom, AffectRemoveRoom, PassingRoomsListed, TypeOK
<1>4. \/ UNCHANGED <<passing, roomNodes>>
      \/ Rehash
      \/ \E r \in Room : AffectToRoom(r) \/ AffectRemoveRoom(r)
  BY DEF Next, BeginTick, EndUpdate, ScratchChar, UpdateChar, DropEntry, Turn, UpdateRoom,
         AffectToChar, AffectRemove, LoadMobile, NewPlayer, EnterGame, BackToMenu, DieAndReturn,
         FreeChar, vars, list
<1> QED
  BY <1>1, <1>2, <1>3, <1>4

LEMMA NextInvariant == IInv /\ [Next]_vars => IInv'
<1> SUFFICES ASSUME IInv, [Next]_vars
             PROVE  IInv'
  OBVIOUS
<1>1. TypeOK /\ RegistrySound /\ PassingRoomsListed /\ FreeIsUnaffected
  BY DEF IInv, ListMatches
<1>2. TypeOK' /\ RegistrySound' /\ FreeIsUnaffected'
  BY <1>1, TypeStep, RegistryStep, UnaffectedStep
<1>3. NodesNameTheAffected' /\ PassingRoomsListed'
  BY <1>1, NodesStep, RoomsStep
<1> QED
  BY <1>2, <1>3 DEF IInv, ListMatches

-----------------------------------------------------------------------------
(* The walk.                                                               *)

LEMMA WalkMeetsTheNamed ==
    ASSUME IInv, [Next]_vars
    PROVE  UpdatesTheNamed
<1> SUFFICES ASSUME at' # at, at' \in Char
             PROVE  at' \in Live /\ affects[at'] > 0 /\ dueChars[<<at', number[at']>>] > 0
  BY DEF UpdatesTheNamed
<1>1. PICK c \in Char, s \in Slot : UpdateChar(c, s)
  BY KindsAssumption, NoneAssumption
     DEF Next, BeginTick, EndUpdate, Rehash, ScratchChar, DropEntry, UpdateRoom, AffectToRoom,
         AffectRemoveRoom, AffectToChar, AffectRemove, LoadMobile, NewPlayer, EnterGame, BackToMenu,
         DieAndReturn, FreeChar, vars, walk
<1>2. at' = c /\ owner[s] = c /\ affects[c] > 0 /\ dueChars[<<c, s>>] > 0
  BY <1>1 DEF UpdateChar, Turn, Resolves
<1>3. c \in Live /\ number[c] = s
  BY <1>2, NoneAssumption DEF IInv, RegistrySound
<1> QED
  BY <1>2, <1>3

\* A character that is affected and has a node is not forgotten.
LEMMA ForgottenOnly ==
    ASSUME IInv, [Next]_vars
    PROVE  ForgetsOnlyTheDispossessed
<1> SUFFICES ASSUME NEW c \in Char, Forgotten(c)', ~ Forgotten(c)
             PROVE  \/ Ticking /\ number[c] = 0 /\ owner[0] # c
                    \/ Idle /\ c \notin World
  BY DEF ForgetsOnlyTheDispossessed
<1>0. TypeOK /\ RegistrySound /\ NodesNameTheAffected /\ FreeIsUnaffected
  BY DEF IInv, ListMatches
<1>1. /\ stage'[c] # "free" /\ affects'[c] > 0
      /\ \A s \in Slot : charNodes'[<<c, s>>] = 0
  BY DEF Forgotten, Live
<1>2. \/ stage[c] = "free"
      \/ affects[c] = 0
      \/ \E s \in Slot : charNodes[<<c, s>>] > 0 /\ charNodes[<<c, s>>] \in Nat
  <2>1. \A s \in Slot : charNodes[<<c, s>>] \in Nat
    BY <1>0 DEF TypeOK, Entry
  <2>2. affects[c] \in Nat
    BY <1>0, MaxAffectsAssumption DEF TypeOK
  <2> QED
    BY <2>1, <2>2 DEF Forgotten, Live
<1>3. number[c] \in Slot /\ number'[c] \in Slot
  BY <1>0, TypeStep DEF TypeOK
<1>kept. ASSUME stage[c] # "free", affects[c] > 0,
             \A s \in Slot : charNodes'[<<c, s>>] >= charNodes[<<c, s>>]
      PROVE  FALSE
  <2>1. PICK s \in Slot : charNodes[<<c, s>>] > 0 /\ charNodes[<<c, s>>] \in Nat
    BY <1>2, <1>kept
  <2>2. charNodes'[<<c, s>>] = 0 /\ charNodes'[<<c, s>>] >= charNodes[<<c, s>>]
    BY <1>1, <1>kept
  <2> QED
    BY <2>1, <2>2
<1>types. \A s \in Slot : charNodes[<<c, s>>] \in Nat
  BY <1>0 DEF TypeOK, Entry
<1>4. CASE UNCHANGED <<stage, affects, charNodes>>
  <2>1. stage[c] # "free" /\ affects[c] > 0
    BY <1>1, <1>4
  <2>2. \A s \in Slot : charNodes'[<<c, s>>] >= charNodes[<<c, s>>]
    BY <1>4, <1>types
  <2> QED
    BY <1>kept, <2>1, <2>2
<1>5. CASE Rehash
  <2>1. c \notin World
    <3> SUFFICES ASSUME c \in World
                 PROVE  FALSE
      OBVIOUS
    <3>1. <<c, number[c]>> \in Entry /\ affects[c] > 0
      BY <1>1, <1>3, <1>5 DEF Rehash, Entry
    <3>2. charNodes'[<<c, number[c]>>] = 1
      BY <1>5, <3>1 DEF Rehash
    <3> QED
      BY <1>1, <1>3, <3>2
  <2> QED
    BY <1>5, <2>1 DEF Rehash
<1>6. ASSUME NEW d \in Char, NEW s \in Slot, DropEntry(d, s)
      PROVE  Ticking /\ number[c] = 0 /\ owner[0] # c
  <2>1. <<d, s>> \in Entry /\ dueChars[<<d, s>>] > 0
    BY <1>6 DEF DropEntry, Turn, Entry
  <2>2. /\ charNodes' = [charNodes EXCEPT ![<<d, s>>] = IF @ > 0 THEN @ - 1 ELSE 0]
        /\ ~ (owner[s] = d /\ affects[d] > 0)
        /\ stage' = stage /\ affects' = affects
    BY <1>6 DEF DropEntry, Turn, Resolves, registry
  <2>3. PICK t \in Slot : charNodes[<<c, t>>] > 0
    BY SMTT(20), <1>0, <1>1, <1>2, <2>2 DEF FreeIsUnaffected
  <2>4. <<c, t>> \in Entry
    BY DEF Entry
  <2>5. c = d /\ t = s
    BY <1>0, <1>1, <2>1, <2>2, <2>3, <2>4 DEF TypeOK
  <2>6. c \in Live /\ affects[c] > 0 /\ number[c] = s
    BY <1>0, <2>3, <2>4, <2>5 DEF NodesNameTheAffected
  <2>7. owner[s] # c
    BY <2>2, <2>5, <2>6
  <2>8. number[c] = 0
    BY <1>0, <2>6, <2>7 DEF RegistrySound
  <2> QED
    BY <2>1, <2>6, <2>7, <2>8 DEF Ticking
<1>7. ASSUME NEW d \in Char, AffectToChar(d)
      PROVE  FALSE
  <2>1. /\ d \in Live /\ affects' = [affects EXCEPT ![d] = @ + 1] /\ stage' = stage
        /\ charNodes' = FirstListed(d, number[d])
    BY <1>7 DEF AffectToChar, registry
  <2>2. number[d] \in Slot /\ <<d, number[d]>> \in Entry
    BY <1>0 DEF TypeOK, Entry
  <2>3. CASE c = d /\ affects[c] = 0
    BY <1>0, <1>1, <2>1, <2>2, <2>3 DEF FirstListed, TypeOK
  <2>4. CASE c # d \/ affects[c] # 0
    <3>1. stage[c] # "free" /\ affects[c] > 0
      BY <1>0, <1>1, <2>1, <2>4, MaxAffectsAssumption DEF TypeOK
    <3>2. \A s \in Slot : charNodes'[<<c, s>>] >= charNodes[<<c, s>>]
      <4>1. CASE c = d
        BY <1>types, <2>1, <2>4, <3>1, <4>1 DEF FirstListed
      <4>2. CASE c # d
        <5>1. \A s \in Slot : charNodes'[<<c, s>>] = charNodes[<<c, s>>]
          BY <1>0, <2>1, <2>2, <4>2 DEF FirstListed, TypeOK, Entry
        <5> QED
          BY <1>types, <5>1
      <4> QED
        BY <4>1, <4>2
    <3> QED
      BY <1>kept, <3>1, <3>2
  <2> QED
    BY <2>3, <2>4
<1>8. ASSUME NEW d \in Char, AffectRemove(d)
      PROVE  FALSE
  <2>1. /\ d \in Live /\ affects' = [affects EXCEPT ![d] = @ - 1] /\ stage' = stage
        /\ charNodes' = IF affects[d] = 1 THEN Unlisted(d) ELSE charNodes
    BY <1>8 DEF AffectRemove, registry
  <2>2. stage[c] # "free" /\ affects[c] > 0 /\ (c = d => affects[c] # 1)
    BY <1>0, <1>1, <2>1, MaxAffectsAssumption DEF TypeOK
  <2>3. \A s \in Slot : charNodes'[<<c, s>>] = charNodes[<<c, s>>]
    BY <2>1, <2>2 DEF Unlisted, Entry
  <2> QED
    BY <1>kept, <1>types, <2>2, <2>3
<1>9. ASSUME NEW d \in Char, DieAndReturn(d) \/ FreeChar(d)
      PROVE  FALSE
  <2>1. /\ affects' = [affects EXCEPT ![d] = 0]
        /\ charNodes' = IF affects[d] > 0 THEN Unlisted(d) ELSE charNodes
        /\ \A e \in Char \ {d} : stage'[e] = stage[e]
    BY <1>0, <1>9 DEF DieAndReturn, FreeChar, Strip, registry, TypeOK
  <2>2. c # d /\ stage[c] # "free" /\ affects[c] > 0
    BY <1>0, <1>1, <2>1 DEF TypeOK
  <2>3. \A s \in Slot : charNodes'[<<c, s>>] = charNodes[<<c, s>>]
    BY <2>1, <2>2 DEF Unlisted, Entry
  <2> QED
    BY <1>kept, <1>types, <2>2, <2>3
<1>10. ASSUME NEW d \in Char, NEW fast \in BOOLEAN, LoadMobile(d, fast)
       PROVE  FALSE
  <2>1. /\ stage[d] = "free" /\ NextSlot \in Slot
        /\ stage' = [stage EXCEPT ![d] = "mobile"]
        /\ affects' = [affects EXCEPT ![d] = IF fast THEN 1 ELSE 0]
        /\ charNodes' = IF fast THEN [charNodes EXCEPT ![<<d, NextSlot>>] = @ + 1]
                                ELSE charNodes
    BY <1>10, NextSlotIsFree DEF LoadMobile, Register, FreeSlots
  <2> HIDE DEF NextSlot
  <2>2. <<d, NextSlot>> \in Entry
    BY <2>1 DEF Entry
  <2>3. CASE c = d
    <3>1. fast /\ charNodes'[<<c, NextSlot>>] = charNodes[<<c, NextSlot>>] + 1
      BY <1>0, <1>1, <2>1, <2>2, <2>3 DEF TypeOK
    <3> QED
      BY <1>1, <1>types, <2>1, <3>1
  <2>4. CASE c # d
    <3>1. stage[c] # "free" /\ affects[c] > 0
      BY <1>0, <1>1, <2>1, <2>4 DEF TypeOK
    <3>2. \A s \in Slot : charNodes'[<<c, s>>] = charNodes[<<c, s>>]
      BY <1>0, <2>1, <2>2, <2>4 DEF TypeOK, Entry
    <3> QED
      BY <1>kept, <1>types, <3>1, <3>2
  <2> QED
    BY <2>3, <2>4
<1>11. ASSUME NEW d \in Char, NewPlayer(d) \/ EnterGame(d) \/ BackToMenu(d)
       PROVE  FALSE
  <2>1. UNCHANGED <<affects, charNodes>>
    BY <1>11 DEF NewPlayer, EnterGame, BackToMenu, list
  <2>2. stage'[c] # "free" => stage[c] # "free" \/ affects[c] = 0
    BY <1>0, <1>11 DEF NewPlayer, Register, EnterGame, BackToMenu, FreeIsUnaffected, TypeOK
  <2>3. stage[c] # "free" /\ affects[c] > 0
    BY <1>1, <2>1, <2>2
  <2> QED
    BY <1>kept, <1>types, <2>1, <2>3
<1>12. \/ UNCHANGED <<stage, affects, charNodes>>
       \/ Rehash
       \/ \E d \in Char, s \in Slot : DropEntry(d, s)
       \/ \E d \in Char, fast \in BOOLEAN : LoadMobile(d, fast)
       \/ \E d \in Char : \/ AffectToChar(d) \/ AffectRemove(d) \/ NewPlayer(d) \/ EnterGame(d)
                          \/ BackToMenu(d) \/ DieAndReturn(d) \/ FreeChar(d)
  BY DEF Next, BeginTick, EndUpdate, ScratchChar, UpdateChar, Turn, UpdateRoom,
         AffectToRoom, AffectRemoveRoom, vars, registry, list
<1> QED
  BY <1>4, <1>5, <1>6, <1>7, <1>8, <1>9, <1>10, <1>11, <1>12

-----------------------------------------------------------------------------
(* The theorems.                                                           *)

THEOREM SpecInvariant == Spec => []IInv
<1> QED
  BY InitInvariant, NextInvariant, PTL DEF Spec

\* Types of the registry, the affects, the list and the walk: the lengths that
\* entity_lifecycle.cpp and affect_update keep never leave their bounds.
THEOREM TypeCorrect == Spec => []TypeOK
<1>1. IInv => TypeOK
  BY DEF IInv
<1> QED
  BY <1>1, SpecInvariant, PTL

\* For any number of slots, whatever scratch characters free: register_npc_char
\* gives nobody's slot away, and number and slot agree for every number but 0.
THEOREM RegistryStaysSound == Spec => []RegistrySound
<1>1. IInv => RegistrySound
  BY DEF IInv
<1> QED
  BY <1>1, SpecInvariant, PTL

\* affected_list names nobody twice, nobody freed and nobody unaffected, and
\* every room with an affect that is to end.
THEOREM ListStaysMatched == Spec => []ListMatches
<1>1. IInv => ListMatches
  BY DEF IInv
<1> QED
  BY <1>1, SpecInvariant, PTL

\* affect_update begins only updates of the character an entry was made for,
\* and forgets nobody but who lost slot 0 to a scratch character.
THEOREM WalkStaysSound == Spec => WalkSound
<1>1. IInv /\ [Next]_vars => [UpdatesTheNamed /\ ForgetsOnlyTheDispossessed]_vars
  BY WalkMeetsTheNamed, ForgottenOnly
<1> QED
  BY <1>1, SpecInvariant, PTL DEF Spec, WalkSound

-----------------------------------------------------------------------------
(* Objects.  The state in the middle of a command: X are the objects in    *)
(* hand, allocated and nowhere; L are those whose list is right while      *)
(* their pointers are not yet; only characters of A may have anything.     *)

Fields(s) == DOMAIN s = {"live", "loc", "held", "worn", "in_room", "carried_by", "in_obj",
                         "lit", "weight", "light", "items", "load", "wrong"}

Typed(s) ==
    /\ s.live \subseteq Obj
    /\ s.loc \in [Char -> Place]
    /\ s.held \in [Holder -> SUBSET Obj]
    /\ s.worn \in [Char -> [WearSlot -> Obj \cup {Null}]]
    /\ s.in_room \in [Obj -> Place]
    /\ s.carried_by \in [Obj -> Char \cup {Null}]
    /\ s.in_obj \in [Obj -> Bag \cup Corpse \cup {Null}]
    /\ s.lit \in [Obj -> {-1, 0, 1}]
    /\ s.light \in [Room -> Int]
    /\ s.items \in [Char -> Int]

Upd(f, x, y) == [f EXCEPT ![x] = y]
PointSame(s, t, o) ==
    \A x \in Obj \ {o} : /\ t.in_room[x] = s.in_room[x]
                         /\ t.carried_by[x] = s.carried_by[x]
                         /\ t.in_obj[x] = s.in_obj[x]
RoomOf(h) == IF h \in Room THEN h ELSE NOWHERE
BearerOf(h) == IF h \in Char THEN h ELSE Null
ContainerOf(h) == IF h \in Obj THEN h ELSE Null

ListsTrue(s, X, L, A) ==
    \A h \in Holder : \A o \in s.held[h] :
        /\ o \in s.live \ X
        /\ s.in_room[o] = RoomOf(h)
        /\ o \notin L => s.carried_by[o] = BearerOf(h) /\ s.in_obj[o] = ContainerOf(h)
        /\ h \in Obj => h \in s.live
        /\ h \in Char => h \in A
        /\ \A g \in Holder : o \in s.held[g] => g = h

WornTrue(s, X, A) ==
    \A c \in Char, p \in WearSlot : s.worn[c][p] # Null =>
        /\ s.worn[c][p] \in s.live \ X
        /\ c \in A
        /\ s.carried_by[s.worn[c][p]] = c
        /\ s.in_room[s.worn[c][p]] = NOWHERE
        /\ s.in_obj[s.worn[c][p]] = Null
        /\ \A h \in Holder : s.worn[c][p] \notin s.held[h]
        /\ \A d \in Char, q \in WearSlot : s.worn[d][q] = s.worn[c][p] => d = c /\ q = p

NoneLost(s, X) ==
    \A o \in s.live \ X :
        \/ \E h \in Holder : o \in s.held[h]
        \/ \E c \in Char, p \in WearSlot : s.worn[c][p] = o

LooseEnds(s, X) ==
    /\ X \subseteq s.live
    /\ \A o \in Obj : o \in X \/ o \notin s.live => s.in_room[o] = NOWHERE /\ s.in_obj[o] = Null
    /\ \A o \in Obj : o \notin s.live => s.carried_by[o] = Null

Placed(s, X, L, A) ==
    /\ Fields(s) /\ Typed(s)
    /\ ListsTrue(s, X, L, A) /\ WornTrue(s, X, A) /\ NoneLost(s, X) /\ LooseEnds(s, X)

LEMMA Kinds ==
    /\ Bag \subseteq Obj /\ Corpse \subseteq Obj /\ Bag \subseteq Holder /\ Corpse \subseteq Holder
    /\ Room \subseteq Holder /\ Char \subseteq Holder /\ Holder \cap Obj = Bag \cup Corpse
    /\ Room \cap Char = {} /\ Room \cap Obj = {} /\ Char \cap Obj = {}
    /\ NOWHERE \notin Room /\ Null \notin Obj /\ Null \notin Char
  BY ObjAssumption, ObjKindsAssumption, KindsAssumption, RoomAssumption DEF Holder

-----------------------------------------------------------------------------
(* The ways an object goes from one place to another.                      *)

\* o, in hand, is put in the list at h; its pointers are right unless it is in M.
LEMMA Laid ==
    ASSUME NEW s, NEW t, NEW X, NEW L, NEW M, NEW A, Placed(s, X, L, A), L \subseteq M,
           NEW o \in X, NEW h \in Holder, h \in Char => h \in A, h \in Obj => h \in s.live,
           Fields(t), Typed(t), t.live = s.live, t.worn = s.worn,
           t.held = Upd(s.held, h, s.held[h] \cup {o}),
           t.in_room[o] = RoomOf(h),
           o \notin M => t.carried_by[o] = BearerOf(h) /\ t.in_obj[o] = ContainerOf(h),
           PointSame(s, t, o)
    PROVE  Placed(t, X \ {o}, M, A)
<1> USE DEF Placed, Upd, PointSame
<1>1. /\ s.held \in [Holder -> SUBSET Obj] /\ s.live \subseteq Obj
      /\ t.held \in [Holder -> SUBSET Obj] /\ o \in s.live /\ o \in Obj
  BY DEF Typed, LooseEnds
<1>2. /\ \A g \in Holder : o \notin s.held[g]
      /\ \A c \in Char, p \in WearSlot : s.worn[c][p] # o
  BY <1>1, Kinds DEF ListsTrue, WornTrue
<1>3. ListsTrue(t, X \ {o}, M, A)
  <2> SUFFICES ASSUME NEW g \in Holder, NEW x \in t.held[g]
               PROVE  /\ x \in t.live \ (X \ {o})
                      /\ t.in_room[x] = RoomOf(g)
                      /\ x \notin M => t.carried_by[x] = BearerOf(g) /\ t.in_obj[x] = ContainerOf(g)
                      /\ g \in Obj => g \in t.live
                      /\ g \in Char => g \in A
                      /\ \A e \in Holder : x \in t.held[e] => e = g
    BY DEF ListsTrue
  <2>1. CASE x = o
    <3>1. \A e \in Holder : o \in t.held[e] => e = h
      BY <1>1, <1>2
    <3> QED
      BY <1>1, <2>1, <3>1
  <2>2. CASE x # o
    <3>1. \A e \in Holder : x \in t.held[e] <=> x \in s.held[e]
      BY <1>1, <2>2
    <3> QED
      BY <1>1, <2>2, <3>1 DEF ListsTrue
  <2> QED
    BY <2>1, <2>2
<1>4. WornTrue(t, X \ {o}, A)
  <2> SUFFICES ASSUME NEW c \in Char, NEW p \in WearSlot, t.worn[c][p] # Null
               PROVE  /\ t.worn[c][p] \in t.live \ (X \ {o})
                      /\ c \in A
                      /\ t.carried_by[t.worn[c][p]] = c
                      /\ t.in_room[t.worn[c][p]] = NOWHERE
                      /\ t.in_obj[t.worn[c][p]] = Null
                      /\ \A g \in Holder : t.worn[c][p] \notin t.held[g]
                      /\ \A d \in Char, q \in WearSlot :
                            t.worn[d][q] = t.worn[c][p] => d = c /\ q = p
    BY DEF WornTrue
  <2>1. t.worn[c][p] # o /\ t.worn[c][p] \in Obj
    BY <1>1, <1>2 DEF WornTrue
  <2>2. \A g \in Holder : t.worn[c][p] \in t.held[g] <=> t.worn[c][p] \in s.held[g]
    BY <1>1, <2>1
  <2> QED
    BY <2>1, <2>2 DEF WornTrue
<1>5. NoneLost(t, X \ {o})
  <2> SUFFICES ASSUME NEW x \in t.live \ (X \ {o})
               PROVE  \/ \E g \in Holder : x \in t.held[g]
                      \/ \E c \in Char, p \in WearSlot : t.worn[c][p] = x
    BY DEF NoneLost
  <2>1. o \in t.held[h] /\ \A g \in Holder : s.held[g] \subseteq t.held[g]
    BY <1>1
  <2> QED
    BY <2>1 DEF NoneLost
<1>6. LooseEnds(t, X \ {o})
  BY <1>1 DEF LooseEnds
<1> QED
  BY <1>3, <1>4, <1>5, <1>6

\* o is taken from the list at h.
LEMMA Lifted ==
    ASSUME NEW s, NEW t, NEW X, NEW L, NEW A, Placed(s, X, L, A),
           NEW h \in Holder, NEW o \in s.held[h],
           Fields(t), Typed(t), t.live = s.live, t.worn = s.worn,
           t.held = Upd(s.held, h, s.held[h] \ {o}),
           t.in_room[o] = NOWHERE, t.in_obj[o] = Null,
           PointSame(s, t, o)
    PROVE  Placed(t, X \cup {o}, L, A)
<1> USE DEF Placed, Upd, PointSame
<1>1. /\ s.held \in [Holder -> SUBSET Obj] /\ s.live \subseteq Obj /\ o \in s.live
      /\ o \in Obj
  BY DEF Typed, ListsTrue
<1>2. \A g \in Holder : o \in s.held[g] => g = h
  BY DEF ListsTrue
<1>3. \A g \in Holder : t.held[g] = s.held[g] \ {o}
  BY <1>1, <1>2
<1>4. \A c \in Char, p \in WearSlot : s.worn[c][p] # o
  BY <1>1, Kinds DEF WornTrue
<1>5. ListsTrue(t, X \cup {o}, L, A)
  BY <1>1, <1>3 DEF ListsTrue
<1>6. WornTrue(t, X \cup {o}, A)
  BY <1>1, <1>3, <1>4 DEF WornTrue
<1>7. NoneLost(t, X \cup {o})
  BY <1>1, <1>3 DEF NoneLost
<1>8. LooseEnds(t, X \cup {o})
  BY <1>1 DEF LooseEnds
<1> QED
  BY <1>5, <1>6, <1>7, <1>8

\* o, in hand, is put on.
LEMMA Donned ==
    ASSUME NEW s, NEW t, NEW X, NEW L, NEW A, Placed(s, X, L, A), NEW o \in X,
           NEW c \in A, c \in Char, NEW p \in WearSlot, s.worn[c][p] = Null,
           Fields(t), Typed(t), t.live = s.live, t.held = s.held,
           t.worn = Upd(s.worn, c, Upd(s.worn[c], p, o)), t.carried_by[o] = c,
           t.in_room = s.in_room, t.in_obj = s.in_obj,
           \A x \in Obj \ {o} : t.carried_by[x] = s.carried_by[x]
    PROVE  Placed(t, X \ {o}, L, A)
<1> USE DEF Placed, Upd, PointSame
<1>1. /\ s.worn \in [Char -> [WearSlot -> Obj \cup {Null}]] /\ s.live \subseteq Obj
      /\ o \in s.live /\ o \in Obj /\ o # Null
  BY Kinds DEF Typed, LooseEnds
<1>2. \A d \in Char, q \in WearSlot :
        t.worn[d][q] = IF d = c /\ q = p THEN o ELSE s.worn[d][q]
  BY <1>1
<1>3. /\ \A g \in Holder : o \notin s.held[g]
      /\ \A d \in Char, q \in WearSlot : s.worn[d][q] # o
  BY <1>1 DEF ListsTrue, WornTrue
<1>4. ListsTrue(t, X \ {o}, L, A)
  <2>1. \A h \in Holder : \A x \in s.held[h] : x \in Obj \ {o}
    BY <1>3 DEF Typed
  <2> QED
    BY <2>1 DEF ListsTrue
<1>5. WornTrue(t, X \ {o}, A)
  <2> SUFFICES ASSUME NEW d \in Char, NEW q \in WearSlot, t.worn[d][q] # Null
               PROVE  /\ t.worn[d][q] \in t.live \ (X \ {o})
                      /\ d \in A
                      /\ t.carried_by[t.worn[d][q]] = d
                      /\ t.in_room[t.worn[d][q]] = NOWHERE
                      /\ t.in_obj[t.worn[d][q]] = Null
                      /\ \A h \in Holder : t.worn[d][q] \notin t.held[h]
                      /\ \A e \in Char, u \in WearSlot :
                            t.worn[e][u] = t.worn[d][q] => e = d /\ u = q
    BY DEF WornTrue
  <2>1. CASE d = c /\ q = p
    <3>1. t.worn[d][q] = o
      BY <1>2, <2>1
    <3>2. \A e \in Char, u \in WearSlot : t.worn[e][u] = o => e = d /\ u = q
      BY <1>2, <1>3, <2>1
    <3> QED
      BY <1>1, <1>3, <2>1, <3>1, <3>2 DEF LooseEnds
  <2>2. CASE ~ (d = c /\ q = p)
    <3>1. t.worn[d][q] = s.worn[d][q] /\ t.worn[d][q] # o
      BY <1>2, <1>3, <2>2
    <3>2. \A e \in Char, u \in WearSlot : t.worn[e][u] = t.worn[d][q] => e = d /\ u = q
      BY <1>2, <3>1 DEF WornTrue
    <3> QED
      BY <1>1, <3>1, <3>2 DEF WornTrue
  <2> QED
    BY <2>1, <2>2
<1>6. NoneLost(t, X \ {o})
  <2> SUFFICES ASSUME NEW x \in t.live \ (X \ {o})
               PROVE  \/ \E h \in Holder : x \in t.held[h]
                      \/ \E d \in Char, q \in WearSlot : t.worn[d][q] = x
    BY DEF NoneLost
  <2>1. CASE x = o
    BY <1>2, <2>1
  <2>2. CASE x # o
    <3>1. \/ \E h \in Holder : x \in s.held[h]
          \/ \E d \in Char, q \in WearSlot : s.worn[d][q] = x
      BY <2>2 DEF NoneLost
    <3>2. x # Null
      BY <1>1, Kinds
    <3>3. \A d \in Char, q \in WearSlot : s.worn[d][q] = x => t.worn[d][q] = x
      BY <1>2, <3>2
    <3> QED
      BY <3>1, <3>3
  <2> QED
    BY <2>1, <2>2
<1>7. LooseEnds(t, X \ {o})
  BY <1>1 DEF LooseEnds
<1> QED
  BY <1>4, <1>5, <1>6, <1>7

\* What is worn at p is taken off; it still points to who wore it.
LEMMA Doffed ==
    ASSUME NEW s, NEW t, NEW X, NEW L, NEW A, Placed(s, X, L, A),
           NEW c \in Char, NEW p \in WearSlot, s.worn[c][p] # Null,
           Fields(t), Typed(t), t.live = s.live, t.held = s.held,
           t.worn = Upd(s.worn, c, Upd(s.worn[c], p, Null)),
           t.in_room = s.in_room, t.carried_by = s.carried_by, t.in_obj = s.in_obj
    PROVE  Placed(t, X \cup {s.worn[c][p]}, L, A)
<1> USE DEF Placed, Upd, PointSame
<1> DEFINE o == s.worn[c][p]
<1>1. /\ s.worn \in [Char -> [WearSlot -> Obj \cup {Null}]]
      /\ o \in s.live \ X /\ s.in_room[o] = NOWHERE /\ s.in_obj[o] = Null
      /\ \A h \in Holder : o \notin s.held[h]
      /\ \A d \in Char, q \in WearSlot : s.worn[d][q] = o => d = c /\ q = p
  BY DEF Typed, WornTrue
<1>2. \A d \in Char, q \in WearSlot :
        t.worn[d][q] = IF d = c /\ q = p THEN Null ELSE s.worn[d][q]
  BY <1>1
<1> HIDE DEF o
<1>3. ListsTrue(t, X \cup {o}, L, A)
  BY <1>1 DEF ListsTrue
<1>4. WornTrue(t, X \cup {o}, A)
  BY <1>1, <1>2 DEF WornTrue
<1>5. NoneLost(t, X \cup {o})
  BY <1>1, <1>2 DEF NoneLost, o
<1>6. LooseEnds(t, X \cup {o})
  BY <1>1 DEF LooseEnds
<1> QED
  BY <1>3, <1>4, <1>5, <1>6 DEF o

\* Nothing is moved.
LEMMA Unmoved ==
    ASSUME NEW s, NEW t, NEW X, NEW L, NEW A, Placed(s, X, L, A), Fields(t), Typed(t),
           t.live = s.live, t.held = s.held, t.worn = s.worn, t.in_room = s.in_room,
           t.carried_by = s.carried_by, t.in_obj = s.in_obj
    PROVE  Placed(t, X, L, A)
  BY DEF Placed, ListsTrue, WornTrue, NoneLost, LooseEnds

-----------------------------------------------------------------------------
(* The primitives: what each changes, and where it leaves what it moves.   *)

LEMMA SlotsAre == {"light", "waist", "hold", "belt"} = WearSlot
  BY DEF WearSlot

LEMMA InHand ==
    ASSUME NEW s, NEW X, NEW L, NEW A, Placed(s, X, L, A), NEW o \in X
    PROVE  /\ o \in Obj /\ o \in s.live /\ s.in_room[o] = NOWHERE /\ s.in_obj[o] = Null
           /\ \A h \in Holder : o \notin s.held[h]
           /\ \A c \in Char, p \in WearSlot : s.worn[c][p] # o
<1>1. /\ o \in Obj /\ o \in s.live /\ s.in_room[o] = NOWHERE /\ s.in_obj[o] = Null
  BY DEF Placed, Typed, LooseEnds
<1>2. \A h \in Holder : o \notin s.held[h]
  BY DEF Placed, ListsTrue
<1>3. \A c \in Char, p \in WearSlot : s.worn[c][p] # o
  BY <1>1, Kinds DEF Placed, WornTrue
<1> QED
  BY <1>1, <1>2, <1>3

LEMMA ToCharFrame ==
    ASSUME NEW s, Fields(s), Typed(s), NEW o \in Obj, NEW c \in Char,
           NEW t, t = ObjToChar(s, o, c)
    PROVE  /\ Fields(t) /\ Typed(t)
           /\ t.live = s.live /\ t.loc = s.loc /\ t.worn = s.worn
           /\ t.held = Upd(s.held, c, s.held[c] \cup {o})
           /\ t.in_room = Upd(s.in_room, o, NOWHERE)
           /\ t.carried_by = Upd(s.carried_by, o, c)
           /\ t.in_obj = s.in_obj
           /\ t.items = Upd(s.items, c, s.items[c] + 1)
           /\ t.lit = s.lit /\ t.light = s.light /\ t.wrong = s.wrong
<1>1. /\ Fields(t)
      /\ t.live = s.live /\ t.loc = s.loc /\ t.worn = s.worn
      /\ t.held = Upd(s.held, c, s.held[c] \cup {o})
      /\ t.in_room = Upd(s.in_room, o, NOWHERE)
      /\ t.carried_by = Upd(s.carried_by, o, c)
      /\ t.in_obj = s.in_obj
      /\ t.items = Upd(s.items, c, s.items[c] + 1)
      /\ t.lit = s.lit /\ t.light = s.light /\ t.wrong = s.wrong
  BY DEF Fields, ObjToChar, Upd
<1>2. Typed(t)
  BY <1>1, Kinds DEF Typed, Place, Upd
<1> QED
  BY <1>1, <1>2

LEMMA ToCharPlaced ==
    ASSUME NEW s, NEW X, NEW L, NEW A, Placed(s, X, L, A),
           NEW o \in X, NEW c \in Char, c \in A,
           NEW t, t = ObjToChar(s, o, c)
    PROVE  Placed(t, X \ {o}, L, A)
<1>1. /\ o \in Obj /\ Typed(s) /\ Fields(s) /\ s.in_obj[o] = Null
      /\ c \in Holder /\ c \notin Obj /\ c \notin Room
  BY InHand, Kinds DEF Placed
<1>2. /\ Fields(t) /\ Typed(t)
      /\ t.live = s.live /\ t.worn = s.worn
      /\ t.held = Upd(s.held, c, s.held[c] \cup {o})
      /\ t.in_room = Upd(s.in_room, o, NOWHERE)
      /\ t.carried_by = Upd(s.carried_by, o, c)
      /\ t.in_obj = s.in_obj
  BY <1>1, ToCharFrame
<1>3. /\ t.in_room[o] = RoomOf(c) /\ t.carried_by[o] = BearerOf(c)
      /\ t.in_obj[o] = ContainerOf(c)
      /\ PointSame(s, t, o)
  BY <1>1, <1>2 DEF Typed, RoomOf, BearerOf, ContainerOf, Upd, PointSame
<1>4. Placed(t, X \ {o}, L, A)
  BY <1>1, <1>2, <1>3, Laid
<1> QED
  BY <1>4

LEMMA ToRoomFrame ==
    ASSUME NEW s, Fields(s), Typed(s), NEW o \in Obj, NEW r \in Room, o \notin s.held[r],
           NEW t, t = ObjToRoom(s, o, r)
    PROVE  /\ Fields(t) /\ Typed(t)
           /\ t.live = s.live /\ t.loc = s.loc /\ t.worn = s.worn
           /\ t.held = Upd(s.held, r, s.held[r] \cup {o})
           /\ t.in_room = Upd(s.in_room, o, r)
           /\ t.carried_by = Upd(s.carried_by, o, Null)
           /\ t.in_obj = s.in_obj
           /\ t.items = s.items /\ t.lit = s.lit /\ t.wrong = s.wrong
           /\ t.light = Upd(s.light, r, s.light[r] + Shine(s, o))
<1>1. /\ Fields(t)
      /\ t.live = s.live /\ t.loc = s.loc /\ t.worn = s.worn
      /\ t.held = Upd(s.held, r, s.held[r] \cup {o})
      /\ t.in_room = Upd(s.in_room, o, r)
      /\ t.carried_by = Upd(s.carried_by, o, Null)
      /\ t.in_obj = s.in_obj
      /\ t.items = s.items /\ t.lit = s.lit /\ t.wrong = s.wrong
      /\ t.light = Upd(s.light, r, s.light[r] + Shine(s, o))
  BY DEF Fields, ObjToRoom, Upd
<1>2. Shine(s, o) \in Int
  BY DEF Shine
<1>3. Typed(t)
  BY <1>1, <1>2, Kinds DEF Typed, Place, Upd
<1> QED
  BY <1>1, <1>3

LEMMA ToRoomPlaced ==
    ASSUME NEW s, NEW X, NEW L, NEW A, Placed(s, X, L, A), NEW o \in X, NEW r \in Room,
           NEW t, t = ObjToRoom(s, o, r)
    PROVE  Placed(t, X \ {o}, L, A)
<1>1. /\ o \in Obj /\ Typed(s) /\ Fields(s) /\ s.in_obj[o] = Null
      /\ r \in Holder /\ r \notin Obj /\ r \notin Char /\ o \notin s.held[r]
  BY InHand, Kinds DEF Placed
<1>2. /\ Fields(t) /\ Typed(t)
      /\ t.live = s.live /\ t.worn = s.worn
      /\ t.held = Upd(s.held, r, s.held[r] \cup {o})
      /\ t.in_room = Upd(s.in_room, o, r)
      /\ t.carried_by = Upd(s.carried_by, o, Null)
      /\ t.in_obj = s.in_obj
  BY <1>1, ToRoomFrame
<1>3. /\ t.in_room[o] = RoomOf(r) /\ t.carried_by[o] = BearerOf(r)
      /\ t.in_obj[o] = ContainerOf(r)
      /\ PointSame(s, t, o)
  BY <1>1, <1>2 DEF Typed, RoomOf, BearerOf, ContainerOf, Upd, PointSame
<1>4. Placed(t, X \ {o}, L, A)
  BY <1>1, <1>2, <1>3, Laid
<1> QED
  BY <1>4

LEMMA PutOutType ==
    ASSUME NEW s, Typed(s), NEW o \in Obj
    PROVE  PutOut(s, o) \in {-1, 0, 1} /\ Shine(s, o) \in {0, 1}
  BY DEF PutOut, Shine, Typed

\* What lies in a room.
LEMMA OnTheFloor ==
    ASSUME NEW s, NEW X, NEW A, Placed(s, X, {}, A), NEW o \in Obj, s.in_room[o] # NOWHERE
    PROVE  /\ s.in_room[o] \in Room /\ o \in s.held[s.in_room[o]]
           /\ s.in_obj[o] = Null /\ s.carried_by[o] = Null
<1>1. o \in s.live \ X
  BY DEF Placed, LooseEnds
<1>2. \A c \in Char, p \in WearSlot : s.worn[c][p] # o
  BY Kinds DEF Placed, WornTrue
<1>3. PICK h \in Holder : o \in s.held[h]
  BY <1>1, <1>2 DEF Placed, NoneLost
<1>4. s.in_room[o] = RoomOf(h) /\ s.carried_by[o] = BearerOf(h) /\ s.in_obj[o] = ContainerOf(h)
  BY <1>3 DEF Placed, ListsTrue
<1> QED
  BY <1>3, <1>4, Kinds DEF RoomOf, BearerOf, ContainerOf

LEMMA FromRoomFrame ==
    ASSUME NEW s, Fields(s), Typed(s), NEW o \in Obj, s.in_room[o] \in Room,
           NEW t, t = ObjFromRoom(s, o),
           NEW r, r = s.in_room[o]
    PROVE  /\ Fields(t) /\ Typed(t)
           /\ t.live = s.live /\ t.loc = s.loc /\ t.worn = s.worn
           /\ t.held = Upd(s.held, r, s.held[r] \ {o})
           /\ t.in_room = Upd(s.in_room, o, NOWHERE)
           /\ t.carried_by = s.carried_by /\ t.in_obj = s.in_obj
           /\ t.items = s.items /\ t.wrong = s.wrong
           /\ t.lit = Upd(s.lit, o, PutOut(s, o))
           /\ t.light = Upd(s.light, r, s.light[r] - Shine(s, o))
<1>1. /\ Fields(t)
      /\ t.live = s.live /\ t.loc = s.loc /\ t.worn = s.worn
      /\ t.held = Upd(s.held, r, s.held[r] \ {o})
      /\ t.in_room = Upd(s.in_room, o, NOWHERE)
      /\ t.carried_by = s.carried_by /\ t.in_obj = s.in_obj
      /\ t.items = s.items /\ t.wrong = s.wrong
      /\ t.lit = Upd(s.lit, o, PutOut(s, o))
      /\ t.light = Upd(s.light, r, s.light[r] - Shine(s, o))
  BY DEF Fields, ObjFromRoom, Upd
<1>2. PutOut(s, o) \in {-1, 0, 1} /\ Shine(s, o) \in {0, 1}
  BY PutOutType
<1>3. Typed(t)
  BY <1>1, <1>2, Kinds DEF Typed, Place, Upd
<1> QED
  BY <1>1, <1>3

LEMMA FromRoomPlaced ==
    ASSUME NEW s, NEW X, NEW A, Placed(s, X, {}, A), NEW o \in Obj, s.in_room[o] # NOWHERE,
           NEW t, t = ObjFromRoom(s, o)
    PROVE  Placed(t, X \cup {o}, {}, A)
<1> DEFINE r == s.in_room[o]
<1>1. /\ r \in Room /\ r \in Holder /\ o \in s.held[r] /\ s.in_obj[o] = Null
      /\ Fields(s) /\ Typed(s)
  BY OnTheFloor, Kinds DEF Placed
<1>2. /\ Fields(t) /\ Typed(t)
      /\ t.live = s.live /\ t.worn = s.worn
      /\ t.held = Upd(s.held, r, s.held[r] \ {o})
      /\ t.in_room = Upd(s.in_room, o, NOWHERE)
      /\ t.carried_by = s.carried_by /\ t.in_obj = s.in_obj
  BY <1>1, FromRoomFrame
<1>3. /\ t.in_room[o] = NOWHERE /\ t.in_obj[o] = Null
      /\ PointSame(s, t, o)
  BY <1>1, <1>2 DEF Typed, Upd, PointSame
<1>4. Placed(t, X \cup {o}, {}, A)
  BY <1>1, <1>2, <1>3, Lifted
<1> QED
  BY <1>4

\* What lies in a container.
LEMMA Contained ==
    ASSUME NEW s, NEW X, NEW A, Placed(s, X, {}, A), NEW o \in Obj, s.in_obj[o] # Null
    PROVE  /\ s.in_obj[o] \in Bag \cup Corpse /\ o \in s.held[s.in_obj[o]]
           /\ s.in_room[o] = NOWHERE /\ s.carried_by[o] = Null
<1>1. o \in s.live \ X
  BY DEF Placed, LooseEnds
<1>2. \A c \in Char, p \in WearSlot : s.worn[c][p] # o
  BY Kinds DEF Placed, WornTrue
<1>3. PICK h \in Holder : o \in s.held[h]
  BY <1>1, <1>2 DEF Placed, NoneLost
<1>4. s.in_room[o] = RoomOf(h) /\ s.carried_by[o] = BearerOf(h) /\ s.in_obj[o] = ContainerOf(h)
  BY <1>3 DEF Placed, ListsTrue
<1>5. h \in Bag \cup Corpse
  BY <1>4, Kinds DEF ContainerOf
<1> QED
  BY <1>3, <1>4, <1>5, Kinds DEF RoomOf, BearerOf, ContainerOf

LEMMA WeighFrame ==
    ASSUME NEW s, Fields(s), NEW b, NEW dw,
           NEW t, t = Weigh(s, b, dw)
    PROVE  /\ Fields(t)
           /\ t.live = s.live /\ t.loc = s.loc /\ t.worn = s.worn /\ t.held = s.held
           /\ t.in_room = s.in_room /\ t.carried_by = s.carried_by /\ t.in_obj = s.in_obj
           /\ t.items = s.items /\ t.wrong = s.wrong
           /\ t.lit = s.lit /\ t.light = s.light
  BY DEF Fields, Weigh, WeighBags

LEMMA ToObjFrame ==
    ASSUME NEW s, Fields(s), Typed(s), NEW o \in Obj, NEW b \in Bag \cup Corpse,
           NEW t, t = ObjToObj(s, o, b)
    PROVE  /\ Fields(t) /\ Typed(t)
           /\ t.live = s.live /\ t.loc = s.loc /\ t.worn = s.worn
           /\ t.held = Upd(s.held, b, s.held[b] \cup {o})
           /\ t.in_room = s.in_room /\ t.carried_by = s.carried_by
           /\ t.in_obj = Upd(s.in_obj, o, b)
           /\ t.items = s.items /\ t.lit = s.lit /\ t.light = s.light /\ t.wrong = s.wrong
<1> DEFINE u == [s EXCEPT !.held[b] = @ \cup {o}, !.in_obj[o] = b]
<1>1. /\ Fields(u)
      /\ u.live = s.live /\ u.loc = s.loc /\ u.worn = s.worn
      /\ u.held = Upd(s.held, b, s.held[b] \cup {o})
      /\ u.in_room = s.in_room /\ u.carried_by = s.carried_by
      /\ u.in_obj = Upd(s.in_obj, o, b)
      /\ u.items = s.items /\ u.lit = s.lit /\ u.light = s.light /\ u.wrong = s.wrong
  BY DEF Fields, Upd
<1>2. t = Weigh(u, b, s.weight[o])
  BY DEF ObjToObj
<1> HIDE DEF u
<1>3. /\ Fields(t)
      /\ t.live = s.live /\ t.loc = s.loc /\ t.worn = s.worn
      /\ t.held = Upd(s.held, b, s.held[b] \cup {o})
      /\ t.in_room = s.in_room /\ t.carried_by = s.carried_by
      /\ t.in_obj = Upd(s.in_obj, o, b)
      /\ t.items = s.items /\ t.lit = s.lit /\ t.light = s.light /\ t.wrong = s.wrong
  BY <1>1, <1>2, WeighFrame
<1>4. Typed(t)
  BY <1>3, Kinds DEF Typed, Upd
<1> QED
  BY <1>3, <1>4

LEMMA ToObjPlaced ==
    ASSUME NEW s, NEW X, NEW L, NEW M, NEW A, Placed(s, X, L, A), L \subseteq M,
           NEW o \in X, o \notin M => s.carried_by[o] = Null,
           NEW b \in Bag \cup Corpse, b \in s.live,
           NEW t, t = ObjToObj(s, o, b)
    PROVE  Placed(t, X \ {o}, M, A)
<1>1. /\ o \in Obj /\ Typed(s) /\ Fields(s) /\ s.in_room[o] = NOWHERE
      /\ b \in Holder /\ b \in Obj /\ b \notin Char /\ b \notin Room
  BY InHand, Kinds DEF Placed
<1>2. /\ Fields(t) /\ Typed(t)
      /\ t.live = s.live /\ t.worn = s.worn
      /\ t.held = Upd(s.held, b, s.held[b] \cup {o})
      /\ t.in_room = s.in_room /\ t.carried_by = s.carried_by
      /\ t.in_obj = Upd(s.in_obj, o, b)
  BY <1>1, ToObjFrame
<1>3. /\ t.in_room[o] = RoomOf(b)
      /\ o \notin M => t.carried_by[o] = BearerOf(b) /\ t.in_obj[o] = ContainerOf(b)
      /\ PointSame(s, t, o)
  BY <1>1, <1>2 DEF Typed, RoomOf, BearerOf, ContainerOf, Upd, PointSame
<1>4. Placed(t, X \ {o}, M, A)
  BY <1>1, <1>2, <1>3, Laid
<1> QED
  BY <1>4

LEMMA FromObjFrame ==
    ASSUME NEW s, Fields(s), Typed(s), NEW o \in Obj, s.in_obj[o] \in Bag \cup Corpse,
           NEW t, t = ObjFromObj(s, o),
           NEW b, b = s.in_obj[o]
    PROVE  /\ Fields(t) /\ Typed(t)
           /\ t.live = s.live /\ t.loc = s.loc /\ t.worn = s.worn
           /\ t.held = Upd(s.held, b, s.held[b] \ {o})
           /\ t.in_room = s.in_room /\ t.carried_by = s.carried_by
           /\ t.in_obj = Upd(s.in_obj, o, Null)
           /\ t.items = s.items /\ t.lit = s.lit /\ t.light = s.light /\ t.wrong = s.wrong
<1> DEFINE u == [s EXCEPT !.held[b] = @ \ {o}]
           v == Weigh(u, b, -s.weight[o])
<1>1. /\ Fields(u)
      /\ u.live = s.live /\ u.loc = s.loc /\ u.worn = s.worn
      /\ u.held = Upd(s.held, b, s.held[b] \ {o})
      /\ u.in_room = s.in_room /\ u.carried_by = s.carried_by /\ u.in_obj = s.in_obj
      /\ u.items = s.items /\ u.lit = s.lit /\ u.light = s.light /\ u.wrong = s.wrong
  BY DEF Fields, Upd
<1>2. t = [v EXCEPT !.in_obj[o] = Null]
  BY DEF ObjFromObj
<1> HIDE DEF u
<1>3. /\ Fields(v)
      /\ v.live = s.live /\ v.loc = s.loc /\ v.worn = s.worn
      /\ v.held = Upd(s.held, b, s.held[b] \ {o})
      /\ v.in_room = s.in_room /\ v.carried_by = s.carried_by /\ v.in_obj = s.in_obj
      /\ v.items = s.items /\ v.lit = s.lit /\ v.light = s.light /\ v.wrong = s.wrong
  BY <1>1, WeighFrame
<1> HIDE DEF v
<1>4. /\ Fields(t)
      /\ t.live = s.live /\ t.loc = s.loc /\ t.worn = s.worn
      /\ t.held = Upd(s.held, b, s.held[b] \ {o})
      /\ t.in_room = s.in_room /\ t.carried_by = s.carried_by
      /\ t.in_obj = Upd(s.in_obj, o, Null)
      /\ t.items = s.items /\ t.lit = s.lit /\ t.light = s.light /\ t.wrong = s.wrong
  BY <1>2, <1>3 DEF Fields, Upd
<1>5. Typed(t)
  BY <1>4, Kinds DEF Typed, Upd
<1> QED
  BY <1>4, <1>5

LEMMA FromObjPlaced ==
    ASSUME NEW s, NEW X, NEW A, Placed(s, X, {}, A), NEW o \in Obj, s.in_obj[o] # Null,
           NEW t, t = ObjFromObj(s, o)
    PROVE  Placed(t, X \cup {o}, {}, A)
<1> DEFINE b == s.in_obj[o]
<1>1. /\ b \in Bag \cup Corpse /\ b \in Holder /\ o \in s.held[b] /\ s.in_room[o] = NOWHERE
      /\ Fields(s) /\ Typed(s)
  BY Contained, Kinds DEF Placed
<1>2. /\ Fields(t) /\ Typed(t)
      /\ t.live = s.live /\ t.worn = s.worn
      /\ t.held = Upd(s.held, b, s.held[b] \ {o})
      /\ t.in_room = s.in_room /\ t.carried_by = s.carried_by
      /\ t.in_obj = Upd(s.in_obj, o, Null)
  BY <1>1, FromObjFrame
<1>3. /\ t.in_room[o] = NOWHERE /\ t.in_obj[o] = Null
      /\ PointSame(s, t, o)
  BY <1>1, <1>2 DEF Typed, Upd, PointSame
<1>4. Placed(t, X \cup {o}, {}, A)
  BY <1>1, <1>2, <1>3, Lifted
<1> QED
  BY <1>4

\* While o is in hand, who it points to is of no account.
LEMMA Regardless ==
    ASSUME NEW s, NEW t, NEW X, NEW L, NEW A, Placed(s, X, L, A), NEW o \in X,
           Fields(t), Typed(t), t.live = s.live, t.worn = s.worn, t.held = s.held,
           t.in_room[o] = NOWHERE, t.in_obj[o] = Null, PointSame(s, t, o)
    PROVE  Placed(t, X, L, A)
<1> USE DEF Placed, PointSame
<1>1. /\ s.live \subseteq Obj /\ o \in s.live
      /\ \A g \in Holder : s.held[g] \subseteq Obj \ {o}
      /\ \A d \in Char, q \in WearSlot : s.worn[d][q] # o
  BY InHand DEF Typed
<1>2. ListsTrue(t, X, L, A)
  BY <1>1 DEF ListsTrue
<1>3. WornTrue(t, X, A)
  BY <1>1 DEF WornTrue
<1>4. NoneLost(t, X)
  BY DEF NoneLost
<1>5. LooseEnds(t, X)
  BY <1>1 DEF LooseEnds
<1> QED
  BY <1>2, <1>3, <1>4, <1>5

Remains(s, t) ==
    /\ t.live = s.live /\ t.loc = s.loc /\ t.held = s.held
    /\ t.in_room = s.in_room /\ t.in_obj = s.in_obj /\ t.items = s.items

LEMMA AttachFrame ==
    ASSUME NEW s, Fields(s), Typed(s), NEW o \in Obj, NEW c \in Char, NEW p \in WearSlot,
           NEW t, t = AttachEquipment(s, c, o, p),
           NEW fire, fire = IF s.lit[o] = 0 THEN 1 ELSE s.lit[o]
    PROVE  /\ Fields(t) /\ Typed(t) /\ Remains(s, t)
           /\ t.worn = Upd(s.worn, c, Upd(s.worn[c], p, o))
           /\ t.carried_by = Upd(s.carried_by, o, c)
           /\ \/ /\ o \notin Lamp \/ (MerelyHeld(o, p) /\ s.lit[o] = 0)
                 /\ t.lit = s.lit /\ t.light = s.light /\ t.wrong = s.wrong
              \/ /\ o \in Lamp /\ MerelyHeld(o, p) /\ s.lit[o] # 0
                 /\ t.lit = s.lit /\ t.light = s.light
                 /\ t.wrong = s.wrong \cup {<<s.loc[c], "light">>}
              \/ /\ o \in Lamp /\ s.loc[c] = NOWHERE
                 /\ t.lit = Upd(s.lit, o, fire) /\ t.light = s.light /\ t.wrong = s.wrong
              \/ /\ o \in Lamp /\ s.loc[c] # NOWHERE
                 /\ t.lit = Upd(s.lit, o, fire)
                 /\ t.light = Upd(s.light, s.loc[c], s.light[s.loc[c]] + 1)
                 /\ t.wrong = s.wrong
<1> DEFINE u == [s EXCEPT !.worn[c][p] = o, !.carried_by[o] = c, !.load[c] = @ + s.weight[o]]
<1>1. /\ Fields(u) /\ Remains(s, u)
      /\ u.worn = Upd(s.worn, c, Upd(s.worn[c], p, o))
      /\ u.carried_by = Upd(s.carried_by, o, c)
      /\ u.lit = s.lit /\ u.light = s.light /\ u.wrong = s.wrong
  BY DEF Fields, Remains, Upd
<1>2. t = IF o \notin Lamp THEN u
          ELSE IF MerelyHeld(o, p)
               THEN [u EXCEPT !.wrong = @ \cup IF s.lit[o] = 0 THEN {} ELSE {<<s.loc[c], "light">>}]
          ELSE IF s.loc[c] = NOWHERE THEN [u EXCEPT !.lit[o] = fire]
          ELSE [u EXCEPT !.lit[o] = fire, !.light[s.loc[c]] = @ + 1]
  BY DEF AttachEquipment
<1> HIDE DEF u
<1>3. /\ Fields(t) /\ Remains(s, t)
      /\ t.worn = u.worn /\ t.carried_by = u.carried_by
  BY <1>1, <1>2 DEF Fields, Remains
<1>4. \/ /\ o \notin Lamp \/ (MerelyHeld(o, p) /\ s.lit[o] = 0)
         /\ t.lit = s.lit /\ t.light = s.light /\ t.wrong = s.wrong
      \/ /\ o \in Lamp /\ MerelyHeld(o, p) /\ s.lit[o] # 0
         /\ t.lit = s.lit /\ t.light = s.light
         /\ t.wrong = s.wrong \cup {<<s.loc[c], "light">>}
      \/ /\ o \in Lamp /\ s.loc[c] = NOWHERE
         /\ t.lit = Upd(s.lit, o, fire) /\ t.light = s.light /\ t.wrong = s.wrong
      \/ /\ o \in Lamp /\ s.loc[c] # NOWHERE
         /\ t.lit = Upd(s.lit, o, fire)
         /\ t.light = Upd(s.light, s.loc[c], s.light[s.loc[c]] + 1)
         /\ t.wrong = s.wrong
  <2>1. CASE o \notin Lamp
    BY <1>1, <1>2, <2>1
  <2>2. CASE o \in Lamp /\ MerelyHeld(o, p)
    BY <1>1, <1>2, <2>2 DEF Fields
  <2>3. CASE o \in Lamp /\ ~ MerelyHeld(o, p) /\ s.loc[c] = NOWHERE
    BY <1>1, <1>2, <2>3 DEF Fields, Upd
  <2>4. CASE o \in Lamp /\ ~ MerelyHeld(o, p) /\ s.loc[c] # NOWHERE
    BY <1>1, <1>2, <2>4 DEF Fields, Upd
  <2> QED
    BY <2>1, <2>2, <2>3, <2>4
<1>5. /\ t.lit \in [Obj -> {-1, 0, 1}] /\ t.light \in [Room -> Int]
  <2>1. fire \in {-1, 0, 1} /\ s.loc[c] \in Room \cup {NOWHERE}
    BY DEF Typed, Place
  <2> QED
    BY <1>4, <2>1 DEF Typed, Upd
<1>6. Typed(t)
  BY <1>1, <1>3, <1>5 DEF Typed, Remains, Upd
<1> QED
  BY <1>1, <1>3, <1>4, <1>6

LEMMA AttachPlaced ==
    ASSUME NEW s, NEW X, NEW L, NEW A, Placed(s, X, L, A), NEW o \in X,
           NEW c \in Char, c \in A, NEW p \in WearSlot, s.worn[c][p] = Null,
           NEW t, t = AttachEquipment(s, c, o, p)
    PROVE  Placed(t, X \ {o}, L, A)
<1>1. o \in Obj /\ Typed(s) /\ Fields(s)
  BY InHand DEF Placed
<1>2. /\ Fields(t) /\ Typed(t) /\ Remains(s, t)
      /\ t.worn = Upd(s.worn, c, Upd(s.worn[c], p, o))
      /\ t.carried_by = Upd(s.carried_by, o, c)
  BY <1>1, AttachFrame
<1>3. t.carried_by[o] = c /\ \A x \in Obj \ {o} : t.carried_by[x] = s.carried_by[x]
  BY <1>1, <1>2 DEF Typed, Upd
<1> QED
  BY <1>2, <1>3, Donned DEF Remains

LEMMA DetachFrame ==
    ASSUME NEW s, Fields(s), Typed(s), NEW c \in Char, NEW p \in WearSlot,
           NEW o \in Obj, o = s.worn[c][p], NEW t, t = DetachEquipment(s, c, p)
    PROVE  /\ Fields(t) /\ Typed(t) /\ Remains(s, t)
           /\ t.worn = Upd(s.worn, c, Upd(s.worn[c], p, Null))
           /\ t.carried_by = s.carried_by /\ t.wrong = s.wrong
           /\ \/ t.lit = s.lit /\ t.light = s.light
              \/ /\ o \in Lamp /\ s.lit[o] # 0 /\ s.loc[c] \in Room
                 /\ t.lit = Upd(s.lit, o, PutOut(s, o))
                 /\ t.light = Upd(s.light, s.loc[c], s.light[s.loc[c]] - 1)
<1> DEFINE u == [s EXCEPT !.worn[c][p] = Null, !.load[c] = @ - s.weight[o]]
<1>1. /\ Fields(u) /\ Remains(s, u)
      /\ u.worn = Upd(s.worn, c, Upd(s.worn[c], p, Null))
      /\ u.carried_by = s.carried_by
      /\ u.lit = s.lit /\ u.light = s.light /\ u.wrong = s.wrong
  BY DEF Fields, Remains, Upd
<1>2. t = IF s.loc[c] = NOWHERE \/ Shine(s, o) = 0 \/ MerelyHeld(o, p) THEN u
          ELSE [u EXCEPT !.lit[o] = PutOut(s, o), !.light[s.loc[c]] = @ - 1]
  BY DEF DetachEquipment
<1> HIDE DEF u
<1>3. /\ Fields(t) /\ Remains(s, t)
      /\ t.worn = u.worn /\ t.carried_by = u.carried_by /\ t.wrong = u.wrong
  BY <1>1, <1>2 DEF Fields, Remains
<1>4. s.loc[c] \in Room \cup {NOWHERE} /\ PutOut(s, o) \in {-1, 0, 1}
  BY PutOutType DEF Typed, Place
<1>5. \/ t.lit = s.lit /\ t.light = s.light
      \/ /\ o \in Lamp /\ s.lit[o] # 0 /\ s.loc[c] \in Room
         /\ t.lit = Upd(s.lit, o, PutOut(s, o))
         /\ t.light = Upd(s.light, s.loc[c], s.light[s.loc[c]] - 1)
  <2>1. Shine(s, o) # 0 => o \in Lamp /\ s.lit[o] # 0
    BY DEF Shine
  <2> QED
    BY <1>1, <1>2, <1>4, <2>1 DEF Fields, Upd
<1>6. t.lit \in [Obj -> {-1, 0, 1}] /\ t.light \in [Room -> Int]
  BY <1>4, <1>5 DEF Typed, Upd
<1>7. Typed(t)
  BY <1>1, <1>3, <1>6 DEF Typed, Remains, Upd
<1> QED
  BY <1>1, <1>3, <1>5, <1>7

LEMMA DetachPlaced ==
    ASSUME NEW s, NEW X, NEW L, NEW A, Placed(s, X, L, A), NEW c \in Char, NEW p \in WearSlot,
           s.worn[c][p] # Null, NEW t, t = DetachEquipment(s, c, p)
    PROVE  Placed(t, X \cup {s.worn[c][p]}, L, A)
<1>1. s.worn[c][p] \in Obj /\ Typed(s) /\ Fields(s)
  BY DEF Placed, Typed
<1>2. /\ Fields(t) /\ Typed(t) /\ Remains(s, t)
      /\ t.worn = Upd(s.worn, c, Upd(s.worn[c], p, Null))
      /\ t.carried_by = s.carried_by
  BY <1>1, DetachFrame
<1> QED
  BY <1>2, Doffed DEF Remains

\* Who points to c is carried or worn by him, or in hand.
LEMMA Carried ==
    ASSUME NEW s, NEW X, NEW A, Placed(s, X, {}, A), NEW o \in Obj, o \notin X,
           NEW c \in Char, s.carried_by[o] = c
    PROVE  /\ \/ o \in s.held[c]
              \/ o \notin s.held[c] /\ \E p \in WearSlot : s.worn[c][p] = o
           /\ s.in_room[o] = NOWHERE /\ s.in_obj[o] = Null
<1>1. o \in s.live \ X
  BY Kinds DEF Placed, LooseEnds
<1>2. CASE \E h \in Holder : o \in s.held[h]
  <2>1. PICK h \in Holder : o \in s.held[h]
    BY <1>2
  <2>2. s.carried_by[o] = BearerOf(h) /\ s.in_room[o] = RoomOf(h) /\ s.in_obj[o] = ContainerOf(h)
    BY <2>1 DEF Placed, ListsTrue
  <2> QED
    BY <2>1, <2>2, Kinds DEF BearerOf, RoomOf, ContainerOf
<1>3. CASE \A h \in Holder : o \notin s.held[h]
  <2>1. PICK d \in Char, p \in WearSlot : s.worn[d][p] = o
    BY <1>1, <1>3 DEF Placed, NoneLost
  <2>2. s.carried_by[o] = d /\ s.in_room[o] = NOWHERE /\ s.in_obj[o] = Null
    BY <2>1, Kinds DEF Placed, WornTrue
  <2> QED
    BY <1>3, <2>1, <2>2, Kinds
<1> QED
  BY <1>2, <1>3

LEMMA FromCharHeldFrame ==
    ASSUME NEW s, Fields(s), Typed(s), NEW o \in Obj, NEW c \in Char, c = s.carried_by[o],
           o \in s.held[c], NEW t, t = ObjFromChar(s, o)
    PROVE  /\ Fields(t) /\ Typed(t)
           /\ t.live = s.live /\ t.loc = s.loc /\ t.worn = s.worn
           /\ t.held = Upd(s.held, c, s.held[c] \ {o})
           /\ t.in_room = Upd(s.in_room, o, NOWHERE)
           /\ t.carried_by = Upd(s.carried_by, o, Null)
           /\ t.in_obj = s.in_obj
           /\ t.items = Upd(s.items, c, s.items[c] - 1)
           /\ t.lit = s.lit /\ t.light = s.light /\ t.wrong = s.wrong
<1>1. t = [[s EXCEPT !.held[c] = @ \ {o}, !.items[c] = @ - 1]
              EXCEPT !.load[c] = @ - s.weight[o], !.carried_by[o] = Null, !.in_room[o] = NOWHERE]
  BY DEF ObjFromChar, Fields
<1>2. /\ Fields(t)
      /\ t.live = s.live /\ t.loc = s.loc /\ t.worn = s.worn
      /\ t.held = Upd(s.held, c, s.held[c] \ {o})
      /\ t.in_room = Upd(s.in_room, o, NOWHERE)
      /\ t.carried_by = Upd(s.carried_by, o, Null)
      /\ t.in_obj = s.in_obj
      /\ t.items = Upd(s.items, c, s.items[c] - 1)
      /\ t.lit = s.lit /\ t.light = s.light /\ t.wrong = s.wrong
  BY <1>1 DEF Fields, Upd
<1>3. Typed(t)
  BY <1>2, Kinds DEF Typed, Place, Upd
<1> QED
  BY <1>2, <1>3

LEMMA FromCharHeldPlaced ==
    ASSUME NEW s, NEW X, NEW A, Placed(s, X, {}, A), NEW o \in Obj, NEW c \in Char,
           c = s.carried_by[o], o \in s.held[c], NEW t, t = ObjFromChar(s, o)
    PROVE  Placed(t, X \cup {o}, {}, A)
<1>1. /\ c \in Holder /\ Typed(s) /\ Fields(s) /\ s.in_obj[o] = Null
      /\ s.live \subseteq Obj
  BY Kinds DEF Placed, ListsTrue, ContainerOf, Typed
<1>2. /\ Fields(t) /\ Typed(t) /\ t.live = s.live /\ t.worn = s.worn
      /\ t.held = Upd(s.held, c, s.held[c] \ {o})
      /\ t.in_room = Upd(s.in_room, o, NOWHERE)
      /\ t.carried_by = Upd(s.carried_by, o, Null)
      /\ t.in_obj = s.in_obj
  BY <1>1, FromCharHeldFrame
<1>3. t.in_room[o] = NOWHERE /\ t.in_obj[o] = Null /\ PointSame(s, t, o)
  BY <1>1, <1>2 DEF Typed, PointSame, Upd
<1> QED
  BY <1>1, <1>2, <1>3, Lifted

Blame(s, c) == [s EXCEPT !.wrong = @ \cup {<<c, "weight">>}]

LEMMA Blamed ==
    ASSUME NEW s, NEW X, NEW L, NEW A, Placed(s, X, L, A), NEW c,
           NEW v, v = Blame(s, c)
    PROVE  /\ Placed(v, X, L, A) /\ Remains(s, v) /\ v.wrong = s.wrong \cup {<<c, "weight">>} /\ v.worn = s.worn
           /\ v.carried_by = s.carried_by /\ v.lit = s.lit /\ v.light = s.light
<1>1. Fields(s) /\ Typed(s)
  BY DEF Placed
<1>2. /\ Fields(v) /\ Remains(s, v) /\ v.wrong = s.wrong \cup {<<c, "weight">>} /\ v.worn = s.worn
      /\ v.carried_by = s.carried_by /\ v.lit = s.lit /\ v.light = s.light
  BY <1>1 DEF Fields, Remains, Blame
<1>3. Typed(v)
  BY <1>1, <1>2 DEF Typed, Remains
<1> QED
  BY <1>2, <1>3, Unmoved DEF Remains

Released(u, o, w) == [u EXCEPT !.load = w, !.carried_by[o] = Null, !.in_room[o] = NOWHERE]

LEMMA LetGo ==
    ASSUME NEW u, NEW X, NEW L, NEW A, Placed(u, X, L, A), NEW o \in X, NEW w,
           NEW t, t = Released(u, o, w)
    PROVE  /\ Fields(t) /\ Typed(t) /\ Placed(t, X, L, A)
           /\ t.live = u.live /\ t.loc = u.loc /\ t.held = u.held /\ t.worn = u.worn
           /\ t.items = u.items /\ t.lit = u.lit /\ t.light = u.light /\ t.wrong = u.wrong
<1>1. /\ o \in Obj /\ u.in_obj[o] = Null /\ Fields(u) /\ Typed(u)
  BY InHand DEF Placed
<1>2. /\ Fields(t)
      /\ t.live = u.live /\ t.loc = u.loc /\ t.held = u.held /\ t.worn = u.worn
      /\ t.items = u.items /\ t.lit = u.lit /\ t.light = u.light /\ t.wrong = u.wrong
      /\ t.in_obj = u.in_obj
      /\ t.in_room = Upd(u.in_room, o, NOWHERE) /\ t.carried_by = Upd(u.carried_by, o, Null)
  BY <1>1 DEF Fields, Upd, Released
<1>3. Typed(t)
  BY <1>1, <1>2 DEF Typed, Place, Upd
<1>4. /\ t.in_room[o] = NOWHERE /\ t.in_obj[o] = Null /\ PointSame(u, t, o)
  BY <1>1, <1>2 DEF Typed, Upd, PointSame
<1>5. Placed(t, X, L, A)
  BY <1>2, <1>3, <1>4, Regardless
<1> QED
  BY <1>2, <1>3, <1>5

\* The steps of obj_from_char when o is worn by who it points to: v and then u.
LEMMA FromCharWorn ==
    ASSUME NEW s, NEW X, NEW L, NEW A, Placed(s, X, L, A), NEW o \in Obj,
           NEW c \in Char, c = s.carried_by[o], o \notin s.held[c],
           NEW p \in WearSlot, s.worn[c][p] = o,
           NEW t, t = ObjFromChar(s, o),
           NEW v, v = Blame(s, c),
           NEW u, u = DetachEquipment(v, c, p)
    PROVE  /\ Placed(v, X, L, A) /\ Placed(u, X \cup {o}, L, A)
           /\ Fields(t) /\ Typed(t) /\ Placed(t, X \cup {o}, L, A)
           /\ t.live = u.live /\ t.loc = u.loc /\ t.held = u.held /\ t.worn = u.worn
           /\ t.items = u.items /\ t.lit = u.lit /\ t.light = u.light /\ t.wrong = u.wrong
<1>1. /\ Placed(v, X, L, A) /\ Remains(s, v) /\ v.worn = s.worn /\ Fields(v) /\ Typed(v)
      /\ v.carried_by = s.carried_by
  BY Blamed DEF Placed
<1>2. o # Null /\ \A q \in WearSlot : s.worn[c][q] = o => q = p
  BY Kinds DEF Placed, WornTrue
<1>3. /\ Placed(u, X \cup {o}, L, A) /\ Fields(u) /\ Typed(u) /\ Remains(v, u)
      /\ u.carried_by = s.carried_by
  <2>1. Placed(u, X \cup {v.worn[c][p]}, L, A)
    BY <1>1, <1>2, DetachPlaced
  <2>2. v.worn[c][p] = o /\ o = v.worn[c][p]
    BY <1>1
  <2>3. Remains(v, u) /\ u.carried_by = v.carried_by
    BY <1>1, <2>2, DetachFrame
  <2> QED
    BY <1>1, <2>1, <2>2, <2>3 DEF Placed
<1>4. (CHOOSE q \in WearSlot : s.worn[c][q] = o) = p
  BY <1>2
<1>5. o \in WornBy(s, c)
  BY <1>2 DEF WornBy
<1>6. t = [u EXCEPT !.load[c] = @ - u.weight[o], !.carried_by[o] = Null, !.in_room[o] = NOWHERE]
  BY <1>4, <1>5 DEF ObjFromChar, Blame
<1> DEFINE w == [u.load EXCEPT ![c] = @ - u.weight[o]]
<1>7. t = Released(u, o, w)
  BY <1>3, <1>6 DEF Fields, Released
<1> HIDE DEF w
<1>8. o \in X \cup {o}
  OBVIOUS
<1>9. /\ Fields(t) /\ Typed(t) /\ Placed(t, X \cup {o}, L, A)
      /\ t.live = u.live /\ t.loc = u.loc /\ t.held = u.held /\ t.worn = u.worn
      /\ t.items = u.items /\ t.lit = u.lit /\ t.light = u.light /\ t.wrong = u.wrong
  BY <1>3, <1>7, <1>8, LetGo
<1> QED
  BY <1>1, <1>3, <1>9

\* What was worn a moment ago still points to who wore it.
LEMMA FromCharInHand ==
    ASSUME NEW s, NEW X, NEW L, NEW A, Placed(s, X, L, A), NEW o \in X,
           NEW c \in Char, c = s.carried_by[o], NEW t, t = ObjFromChar(s, o)
    PROVE  /\ Fields(t) /\ Typed(t) /\ Placed(t, X, L, A)
           /\ t.live = s.live /\ t.loc = s.loc /\ t.held = s.held /\ t.worn = s.worn
           /\ t.items = s.items /\ t.lit = s.lit /\ t.light = s.light
           /\ t.wrong = s.wrong \cup {<<c, "weight">>}
<1>1. /\ o \in Obj /\ s.in_obj[o] = Null /\ o \notin s.held[c] /\ o \notin WornBy(s, c)
      /\ Fields(s) /\ Typed(s)
  BY InHand, Kinds DEF WornBy, Placed
<1> DEFINE v == Blame(s, c)
<1>2. /\ Placed(v, X, L, A) /\ Remains(s, v) /\ v.wrong = s.wrong \cup {<<c, "weight">>}
      /\ v.worn = s.worn /\ v.lit = s.lit /\ v.light = s.light
  BY Blamed
<1>3. t = Released(v, o, [v.load EXCEPT ![c] = @ - v.weight[o]])
  BY <1>1 DEF ObjFromChar, Fields, Blame, Released
<1> HIDE DEF v
<1>4. /\ Fields(t) /\ Typed(t) /\ Placed(t, X, L, A)
      /\ t.live = v.live /\ t.loc = v.loc /\ t.held = v.held /\ t.worn = v.worn
      /\ t.items = v.items /\ t.lit = v.lit /\ t.light = v.light /\ t.wrong = v.wrong
  BY <1>2, <1>3, LetGo
<1> QED
  BY <1>2, <1>4 DEF Remains

-----------------------------------------------------------------------------
(* The containers around an object, and what goes with one that is freed.  *)

LEMMA AroundSelf ==
    ASSUME NEW s, NEW b \in Obj
    PROVE  b \in Around(s, b)
  BY DEF Around

LEMMA AroundTop ==
    ASSUME NEW s, NEW b \in Obj, s.in_obj[b] = Null
    PROVE  Around(s, b) = {b}
<1>1. ASSUME NEW x \in Around(s, b)
      PROVE  x = b
  <2>1. {b} \in SUBSET Obj /\ b \in {b} /\ \A y \in {b} : s.in_obj[y] # Null => s.in_obj[y] \in {b}
    OBVIOUS
  <2> QED
    BY <2>1 DEF Around
<1> QED
  BY <1>1, AroundSelf

LEMMA AroundUp ==
    ASSUME NEW s, NEW b \in Obj, s.in_obj[b] # Null
    PROVE  Around(s, s.in_obj[b]) \subseteq Around(s, b)
<1> SUFFICES ASSUME NEW x \in Around(s, s.in_obj[b]), NEW C \in SUBSET Obj, b \in C,
                    \A y \in C : s.in_obj[y] # Null => s.in_obj[y] \in C
             PROVE  x \in C
  BY DEF Around
<1>1. s.in_obj[b] \in C
  OBVIOUS
<1> QED
  BY <1>1 DEF Around

LEMMA AroundVia ==
    ASSUME NEW s, Typed(s), NEW b \in Obj, s.in_obj[b] # Null
    PROVE  Around(s, b) \subseteq {b} \cup Around(s, s.in_obj[b])
<1> DEFINE C == {b} \cup Around(s, s.in_obj[b])
<1>1. C \in SUBSET Obj /\ b \in C /\ s.in_obj[b] \in Obj
  BY Kinds DEF Around, Typed
<1>2. ASSUME NEW y \in C, s.in_obj[y] # Null
      PROVE  s.in_obj[y] \in C
  <2>1. CASE y = b
    BY <1>1, <2>1, AroundSelf
  <2>2. CASE y \in Around(s, s.in_obj[b])
    <3>1. s.in_obj[y] \in Obj
      BY <1>1, <1>2, Kinds DEF Typed
    <3>2. ASSUME NEW D \in SUBSET Obj, s.in_obj[b] \in D,
                 \A z \in D : s.in_obj[z] # Null => s.in_obj[z] \in D
          PROVE  s.in_obj[y] \in D
      BY <1>2, <2>2, <3>2 DEF Around
    <3> QED
      BY <3>1, <3>2 DEF Around
  <2> QED
    BY <2>1, <2>2
<1> HIDE DEF C
<1>3. \A x \in Around(s, b) : x \in C
  BY <1>1, <1>2 DEF Around
<1> QED
  BY <1>3 DEF C

\* Free, of everything that is somewhere in O; O itself is in hand, though it may
\* still point to what it was in.
LEMMA EraseFrame ==
    ASSUME NEW s, Fields(s), Typed(s), NEW O, NEW t, t = Erase(s, O),
           NEW X, X = Within(s, O)
    PROVE  /\ Fields(t) /\ Typed(t)
           /\ t.live = s.live \ X /\ t.loc = s.loc /\ t.worn = s.worn
           /\ t.items = s.items /\ t.light = s.light
           /\ t.wrong = {w \in s.wrong : w[1] \notin X}
           /\ \A h \in Holder : t.held[h] = IF h \in X THEN {} ELSE s.held[h]
           /\ \A o \in Obj :
                /\ t.in_room[o] = IF o \in X THEN NOWHERE ELSE s.in_room[o]
                /\ t.carried_by[o] = IF o \in X THEN Null ELSE s.carried_by[o]
                /\ t.in_obj[o] = IF o \in X THEN Null ELSE s.in_obj[o]
                /\ t.lit[o] = IF o \in X THEN Burn(o) ELSE s.lit[o]
<1>1. t = Free(s, X)
  BY DEF Erase
<1>2. /\ Fields(t)
      /\ t.live = s.live \ X /\ t.loc = s.loc /\ t.worn = s.worn
      /\ t.items = s.items /\ t.light = s.light
      /\ t.wrong = {w \in s.wrong : w[1] \notin X}
      /\ t.held = [h \in Holder |-> IF h \in X THEN {} ELSE s.held[h]]
      /\ t.in_room = [o \in Obj |-> IF o \in X THEN NOWHERE ELSE s.in_room[o]]
      /\ t.carried_by = [o \in Obj |-> IF o \in X THEN Null ELSE s.carried_by[o]]
      /\ t.in_obj = [o \in Obj |-> IF o \in X THEN Null ELSE s.in_obj[o]]
      /\ t.lit = [o \in Obj |-> IF o \in X THEN Burn(o) ELSE s.lit[o]]
  BY <1>1 DEF Free, Fields
<1>3. \A o \in Obj : Burn(o) \in {-1, 0, 1}
  BY DEF Burn
<1>4. Typed(t)
  BY <1>2, <1>3 DEF Typed, Place
<1> QED
  BY <1>2, <1>4

LEMMA ErasePlaced ==
    ASSUME NEW u, NEW O, NEW A, Placed(u, O, {}, A), NEW s, Fields(s), Typed(s),
           s.live = u.live, s.held = u.held, s.worn = u.worn, s.in_room = u.in_room,
           s.carried_by = u.carried_by, \A x \in Obj \ O : s.in_obj[x] = u.in_obj[x],
           NEW t, t = Erase(s, O)
    PROVE  Placed(t, {}, {}, A)
<1> DEFINE X == Within(s, O)
<1>0. X = {x \in s.live : Around(s, x) \cap O # {}}
  BY DEF Within
<1>1. /\ Fields(t) /\ Typed(t)
      /\ t.live = s.live \ X /\ t.worn = s.worn
      /\ \A h \in Holder : t.held[h] = IF h \in X THEN {} ELSE s.held[h]
      /\ \A o \in Obj :
                /\ t.in_room[o] = IF o \in X THEN NOWHERE ELSE s.in_room[o]
                /\ t.carried_by[o] = IF o \in X THEN Null ELSE s.carried_by[o]
                /\ t.in_obj[o] = IF o \in X THEN Null ELSE s.in_obj[o]
  BY EraseFrame
<1> HIDE DEF X
<1>2. O \subseteq X /\ O \subseteq Obj /\ s.live \subseteq Obj
  BY <1>0, AroundSelf DEF Placed, LooseEnds, Typed
\* What is freed was in something freed; what is in something freed is freed.
<1>3. ASSUME NEW h \in Holder, NEW o \in s.held[h]
      PROVE  /\ o \in X <=> h \in X
             /\ o \notin O
  <2>1. /\ o \in u.live \ O /\ u.in_obj[o] = ContainerOf(h) /\ o \in Obj
        /\ h \in Obj => h \in u.live
    BY <1>2 DEF Placed, ListsTrue
  <2>2. s.in_obj[o] = ContainerOf(h)
    BY <2>1
  <2>3. CASE h \in Obj
    <3>1. s.in_obj[o] = h /\ s.in_obj[o] # Null /\ h \in s.live /\ o \in s.live
      BY <2>1, <2>2, <2>3, Kinds DEF ContainerOf
    <3>2. Around(s, h) \subseteq Around(s, o) /\ Around(s, o) \subseteq {o} \cup Around(s, h)
      BY <2>1, <3>1, AroundUp, AroundVia
    <3> QED
      BY <1>0, <2>1, <3>1, <3>2
  <2>4. CASE h \notin Obj
    <3>1. s.in_obj[o] = Null
      BY <2>2, <2>4 DEF ContainerOf
    <3>2. Around(s, o) = {o}
      BY <2>1, <3>1, AroundTop
    <3> QED
      BY <1>0, <1>2, <2>1, <2>4, <3>2
  <2> QED
    BY <2>3, <2>4
<1>4. ASSUME NEW c \in Char, NEW p \in WearSlot, s.worn[c][p] # Null
      PROVE  s.worn[c][p] \notin X
  <2>1. s.worn[c][p] \in Obj \ O /\ u.in_obj[s.worn[c][p]] = Null
    BY <1>2, <1>4 DEF Placed, WornTrue
  <2>2. Around(s, s.worn[c][p]) = {s.worn[c][p]}
    BY <2>1, AroundTop
  <2> QED
    BY <1>0, <2>1, <2>2
<1>5. \A h \in Holder : \A o \in t.held[h] : o \in s.held[h] /\ o \notin X /\ h \notin X /\ o \in Obj
  BY <1>1, <1>3 DEF Typed
<1>6. ListsTrue(t, {}, {}, A)
  <2> SUFFICES ASSUME NEW h \in Holder, NEW o \in t.held[h]
               PROVE  /\ o \in t.live
                      /\ t.in_room[o] = RoomOf(h)
                      /\ t.carried_by[o] = BearerOf(h) /\ t.in_obj[o] = ContainerOf(h)
                      /\ h \in Obj => h \in t.live
                      /\ h \in Char => h \in A
                      /\ \A g \in Holder : o \in t.held[g] => g = h
    BY DEF ListsTrue
  <2>1. o \in s.held[h] /\ o \notin X /\ h \notin X /\ o \in Obj /\ o \notin O
    BY <1>3, <1>5
  <2>2. /\ o \in u.live /\ u.in_room[o] = RoomOf(h)
        /\ u.carried_by[o] = BearerOf(h) /\ u.in_obj[o] = ContainerOf(h)
        /\ h \in Obj => h \in u.live
        /\ h \in Char => h \in A
        /\ \A g \in Holder : o \in u.held[g] => g = h
    BY <2>1 DEF Placed, ListsTrue
  <2> QED
    BY <1>1, <1>5, <2>1, <2>2
<1>7. WornTrue(t, {}, A)
  <2> SUFFICES ASSUME NEW c \in Char, NEW p \in WearSlot, t.worn[c][p] # Null
               PROVE  /\ t.worn[c][p] \in t.live
                      /\ c \in A
                      /\ t.carried_by[t.worn[c][p]] = c
                      /\ t.in_room[t.worn[c][p]] = NOWHERE
                      /\ t.in_obj[t.worn[c][p]] = Null
                      /\ \A h \in Holder : t.worn[c][p] \notin t.held[h]
                      /\ \A d \in Char, q \in WearSlot :
                            t.worn[d][q] = t.worn[c][p] => d = c /\ q = p
    BY DEF WornTrue
  <2> DEFINE o == t.worn[c][p]
  <2>1. o = u.worn[c][p] /\ o \notin X
    BY <1>1, <1>4
  <2>2. /\ o \in u.live \ O
        /\ c \in A
        /\ u.carried_by[o] = c /\ u.in_room[o] = NOWHERE /\ u.in_obj[o] = Null
        /\ \A h \in Holder : o \notin u.held[h]
        /\ \A d \in Char, q \in WearSlot : u.worn[d][q] = o => d = c /\ q = p
    BY <2>1 DEF Placed, WornTrue
  <2> HIDE DEF o
  <2>3. o \in Obj \ O /\ o \in s.live
    BY <1>2, <2>2
  <2>4. /\ o \in t.live /\ c \in A
        /\ t.carried_by[o] = c /\ t.in_room[o] = NOWHERE /\ t.in_obj[o] = Null
        /\ \A h \in Holder : o \notin t.held[h]
        /\ \A d \in Char, q \in WearSlot : t.worn[d][q] = o => d = c /\ q = p
    BY <1>1, <1>5, <2>1, <2>2, <2>3
  <2> QED
    BY <2>4 DEF o
<1>8. NoneLost(t, {})
  <2> SUFFICES ASSUME NEW o \in t.live
               PROVE  \/ \E h \in Holder : o \in t.held[h]
                      \/ \E c \in Char, p \in WearSlot : t.worn[c][p] = o
    BY DEF NoneLost
  <2>1. o \in u.live \ O /\ o \notin X
    BY <1>1, <1>2
  <2>2. \/ \E h \in Holder : o \in u.held[h]
        \/ \E c \in Char, p \in WearSlot : u.worn[c][p] = o
    BY <2>1 DEF Placed, NoneLost
  <2>3. CASE \E h \in Holder : o \in u.held[h]
    <3>1. PICK h \in Holder : o \in s.held[h]
      BY <2>3
    <3>2. h \notin X
      BY <1>3, <2>1, <3>1
    <3>3. o \in t.held[h]
      BY <1>1, <3>1, <3>2
    <3> QED
      BY <3>3
  <2>4. CASE \E c \in Char, p \in WearSlot : u.worn[c][p] = o
    BY <1>1, <2>4
  <2> QED
    BY <2>2, <2>3, <2>4
<1>9. LooseEnds(t, {})
  <2> SUFFICES ASSUME NEW o \in Obj, o \notin t.live
               PROVE  t.in_room[o] = NOWHERE /\ t.in_obj[o] = Null /\ t.carried_by[o] = Null
    BY DEF LooseEnds
  <2>1. CASE o \in X
    BY <1>1, <2>1
  <2>2. CASE o \notin X
    <3>1. o \notin u.live /\ o \notin O
      BY <1>1, <1>2, <2>2
    <3>2. u.in_room[o] = NOWHERE /\ u.in_obj[o] = Null /\ u.carried_by[o] = Null
      BY <3>1 DEF Placed, LooseEnds
    <3> QED
      BY <1>1, <2>2, <3>1, <3>2
  <2> QED
    BY <2>1, <2>2
<1> QED
  BY <1>1, <1>6, <1>7, <1>8, <1>9 DEF Placed

-----------------------------------------------------------------------------
(* The counts and the lights, but for the characters of E and the rooms    *)
(* of D, whose totals are about to be set.                                 *)

Counted(s, E) ==
    \A c \in Char \ E : <<c, "items">> \in s.wrong \/ s.items[c] = Cardinality(s.held[c])

Lighted(s, D) ==
    \A r \in Room \ D : <<r, "light">> \in s.wrong \/ s.light[r] >= Cardinality(Alight(s, r))

Sound(s, X, L, A, E, D) == Placed(s, X, L, A) /\ Counted(s, E) /\ Lighted(s, D)

\* What a lamp must be to light r, alight or not.
Shown(s, r) ==
    {o \in Obj : o \in s.held[r] \/ \E c \in Char, p \in WearSlot : s.loc[c] = r /\ s.worn[c][p] = o}

LEMMA AlightShown ==
    ASSUME NEW s, NEW r
    PROVE  Alight(s, r) = {o \in Lamp : s.lit[o] # 0 /\ o \in Shown(s, r)}
<1>1. \A o \in Lamp : o \in Obj /\ o # Null
  BY ObjAssumption
<1>2. \A o \in Lamp, c \in Char : o \in WornBy(s, c) <=> \E p \in WearSlot : s.worn[c][p] = o
  BY <1>1 DEF WornBy
<1>3. \A o \in Lamp :
        (o \in s.held[r] \/ \E c \in Char : s.loc[c] = r /\ o \in WornBy(s, c)) <=> o \in Shown(s, r)
  BY <1>1, <1>2 DEF Shown
<1> QED
  BY <1>3 DEF Alight

LEMMA AlightFinite ==
    ASSUME NEW s, NEW r
    PROVE  IsFiniteSet(Alight(s, r)) /\ Cardinality(Alight(s, r)) \in Nat
<1>1. Alight(s, r) \subseteq Obj
  BY ObjAssumption DEF Alight
<1> QED
  BY <1>1, ObjKindsAssumption, FS_Subset, FS_CardinalityType

LEMMA HeldFinite ==
    ASSUME NEW s, Typed(s), NEW h \in Holder
    PROVE  IsFiniteSet(s.held[h]) /\ Cardinality(s.held[h]) \in Nat
<1>1. s.held[h] \subseteq Obj
  BY DEF Typed
<1> QED
  BY <1>1, ObjKindsAssumption, FS_Subset, FS_CardinalityType

LEMMA CountedSame ==
    ASSUME NEW s, NEW t, NEW E, Counted(s, E), t.items = s.items,
           \A c \in Char : t.held[c] = s.held[c], s.wrong \subseteq t.wrong
    PROVE  Counted(t, E)
  BY DEF Counted

\* No room shows more, and the light is as it was.
LEMMA LightedSame ==
    ASSUME NEW s, NEW t, NEW D, Lighted(s, D), Typed(s), t.light = s.light, t.lit = s.lit,
           \A r \in Room : Shown(t, r) \subseteq Shown(s, r), s.wrong \subseteq t.wrong
    PROVE  Lighted(t, D)
<1> SUFFICES ASSUME NEW r \in Room \ D, <<r, "light">> \notin t.wrong
             PROVE  t.light[r] >= Cardinality(Alight(t, r))
  BY DEF Lighted
<1>1. Alight(t, r) \subseteq Alight(s, r)
  BY AlightShown
<1>2. Cardinality(Alight(t, r)) <= Cardinality(Alight(s, r))
  BY <1>1, AlightFinite, FS_Subset
<1>3. /\ s.light[r] >= Cardinality(Alight(s, r)) /\ s.light[r] \in Int
      /\ Cardinality(Alight(s, r)) \in Nat /\ Cardinality(Alight(t, r)) \in Nat
  BY AlightFinite DEF Lighted, Typed
<1> QED
  BY <1>2, <1>3

\* o appears in r0, with k more light.
Gains(s, t, o, r0, k) ==
    /\ \A r \in Room : /\ Shown(t, r) \subseteq Shown(s, r) \cup {o}
                       /\ r # r0 => Shown(t, r) \subseteq Shown(s, r) /\ t.light[r] = s.light[r]
                       /\ o \notin Shown(s, r)
    /\ r0 \in Room => t.light[r0] = s.light[r0] + k
    /\ \A x \in Obj \ {o} : t.lit[x] = s.lit[x]
    /\ k >= 1 \/ o \notin Lamp \/ t.lit[o] = 0 \/ <<r0, "light">> \in t.wrong
    /\ s.wrong \subseteq t.wrong

LEMMA LightedGains ==
    ASSUME NEW s, NEW t, NEW D, Lighted(s, D), Typed(s), NEW o \in Obj, NEW r0, NEW k \in Nat,
           Gains(s, t, o, r0, k)
    PROVE  Lighted(t, D)
<1> SUFFICES ASSUME NEW r \in Room \ D, <<r, "light">> \notin t.wrong
             PROVE  t.light[r] >= Cardinality(Alight(t, r))
  BY DEF Lighted
<1> USE DEF Gains
<1>1. /\ s.light[r] >= Cardinality(Alight(s, r)) /\ s.light[r] \in Int
      /\ Cardinality(Alight(s, r)) \in Nat /\ Cardinality(Alight(t, r)) \in Nat
      /\ IsFiniteSet(Alight(s, r)) /\ IsFiniteSet(Alight(t, r)) /\ Lamp \subseteq Obj
  BY AlightFinite, ObjAssumption DEF Lighted, Typed
<1>2. CASE r # r0 \/ o \notin Lamp \/ t.lit[o] = 0
  <2>1. Alight(t, r) \subseteq Alight(s, r)
    BY <1>1, <1>2, AlightShown
  <2>2. Cardinality(Alight(t, r)) <= Cardinality(Alight(s, r))
    BY <1>1, <2>1, FS_Subset
  <2>3. t.light[r] >= s.light[r] /\ t.light[r] \in Int
    BY <1>1
  <2> QED
    BY <1>1, <2>2, <2>3
<1>3. CASE r = r0 /\ o \in Lamp /\ t.lit[o] # 0
  <2>1. Alight(t, r) \subseteq Alight(s, r) \cup {o}
    BY <1>1, AlightShown
  <2>2. o \notin Alight(s, r)
    BY AlightShown
  <2>3. /\ IsFiniteSet(Alight(s, r) \cup {o})
        /\ Cardinality(Alight(s, r) \cup {o}) = Cardinality(Alight(s, r)) + 1
    BY <1>1, <2>2, FS_AddElement
  <2>4. Cardinality(Alight(t, r)) <= Cardinality(Alight(s, r)) + 1
    BY <2>1, <2>3, FS_Subset
  <2>5. t.light[r] = s.light[r] + k /\ k >= 1
    BY <1>3
  <2> QED
    BY <1>1, <2>4, <2>5
<1> QED
  BY <1>2, <1>3

\* o is no longer shown anywhere; the light of r0 is less by one, if o was alight in it.
Loses(s, t, o, r0) ==
    /\ \A r \in Room : /\ Shown(t, r) \subseteq Shown(s, r) \ {o}
                       /\ r # r0 => t.light[r] = s.light[r]
    /\ r0 \in Room => \/ t.light[r0] = s.light[r0]
                      \/ /\ t.light[r0] = s.light[r0] - 1
                         /\ o \in Lamp /\ s.lit[o] # 0 /\ o \in Shown(s, r0)
    /\ \A x \in Obj \ {o} : t.lit[x] = s.lit[x]
    /\ s.wrong \subseteq t.wrong

LEMMA LightedLoses ==
    ASSUME NEW s, NEW t, NEW D, Lighted(s, D), Typed(s), NEW o \in Obj, NEW r0,
           Loses(s, t, o, r0)
    PROVE  Lighted(t, D)
<1> SUFFICES ASSUME NEW r \in Room \ D, <<r, "light">> \notin t.wrong
             PROVE  t.light[r] >= Cardinality(Alight(t, r))
  BY DEF Lighted
<1> USE DEF Loses
<1>1. /\ s.light[r] >= Cardinality(Alight(s, r)) /\ s.light[r] \in Int
      /\ Cardinality(Alight(s, r)) \in Nat /\ Cardinality(Alight(t, r)) \in Nat
      /\ IsFiniteSet(Alight(s, r)) /\ IsFiniteSet(Alight(t, r)) /\ Lamp \subseteq Obj
  BY AlightFinite, ObjAssumption DEF Lighted, Typed
<1>2. Alight(t, r) \subseteq Alight(s, r) \ {o}
  BY <1>1, AlightShown
<1>3. CASE t.light[r] = s.light[r]
  <2>1. Cardinality(Alight(t, r)) <= Cardinality(Alight(s, r))
    BY <1>1, <1>2, FS_Subset
  <2> QED
    BY <1>1, <1>3, <2>1
<1>4. CASE t.light[r] = s.light[r] - 1 /\ o \in Alight(s, r)
  <2>1. /\ IsFiniteSet(Alight(s, r) \ {o})
        /\ Cardinality(Alight(s, r) \ {o}) = Cardinality(Alight(s, r)) - 1
    BY <1>1, <1>4, FS_RemoveElement
  <2>2. Cardinality(Alight(t, r)) <= Cardinality(Alight(s, r)) - 1
    BY <1>2, <2>1, FS_Subset
  <2> QED
    BY <1>1, <1>4, <2>2
<1> QED
  BY <1>3, <1>4, AlightShown

LEMMA UnmovedSound ==
    ASSUME NEW s, NEW t, NEW X, NEW L, NEW A, NEW E, NEW D, Sound(s, X, L, A, E, D),
           Fields(t), Typed(t), Remains(s, t), t.worn = s.worn, t.carried_by = s.carried_by,
           t.lit = s.lit, t.light = s.light, s.wrong \subseteq t.wrong
    PROVE  Sound(t, X, L, A, E, D)
<1>1. Placed(t, X, L, A)
  BY Unmoved DEF Sound, Remains
<1>2. Counted(t, E)
  BY CountedSame DEF Sound, Remains
<1>3. \A r \in Room : Shown(t, r) \subseteq Shown(s, r)
  BY DEF Shown, Remains
<1>4. Lighted(t, D)
  BY <1>3, LightedSame DEF Sound, Placed
<1> QED
  BY <1>1, <1>2, <1>4 DEF Sound

\* What is in hand is shown nowhere.
LEMMA InHandUnseen ==
    ASSUME NEW s, NEW X, NEW L, NEW A, Placed(s, X, L, A), NEW o \in X
    PROVE  \A r \in Room : o \notin Shown(s, r)
  BY InHand, Kinds DEF Shown

LEMMA ToCharSound ==
    ASSUME NEW s, NEW X, NEW L, NEW A, NEW E, NEW D, Sound(s, X, L, A, E, D),
           NEW o \in X, NEW c \in Char, c \in A, NEW t, t = ObjToChar(s, o, c)
    PROVE  Sound(t, X \ {o}, L, A, E, D) /\ t.loc = s.loc /\ t.worn = s.worn
<1>1. /\ Placed(s, X, L, A) /\ Counted(s, E) /\ Lighted(s, D) /\ Fields(s) /\ Typed(s)
  BY DEF Sound, Placed
<1>2. o \in Obj /\ o \notin s.held[c] /\ c \in Holder
  BY <1>1, InHand, Kinds
<1>3. /\ t.loc = s.loc /\ t.worn = s.worn
      /\ t.held = Upd(s.held, c, s.held[c] \cup {o})
      /\ t.items = Upd(s.items, c, s.items[c] + 1)
      /\ t.lit = s.lit /\ t.light = s.light /\ t.wrong = s.wrong
  BY <1>1, <1>2, ToCharFrame
<1>4. Placed(t, X \ {o}, L, A)
  BY <1>1, ToCharPlaced
<1>5. Counted(t, E)
  <2> SUFFICES ASSUME NEW d \in Char \ E, <<d, "items">> \notin t.wrong
               PROVE  t.items[d] = Cardinality(t.held[d])
    BY DEF Counted
  <2>1. s.items[d] = Cardinality(s.held[d])
    BY <1>1, <1>3 DEF Counted
  <2>2. CASE d = c
    <3>1. Cardinality(s.held[c] \cup {o}) = Cardinality(s.held[c]) + 1
      BY <1>1, <1>2, HeldFinite, FS_AddElement
    <3>2. t.held[d] = s.held[c] \cup {o} /\ t.items[d] = s.items[c] + 1
      BY <1>1, <1>2, <1>3, <2>2 DEF Upd, Typed
    <3> QED
      BY <2>1, <2>2, <3>1, <3>2
  <2>3. CASE d # c
    <3>1. t.held[d] = s.held[d] /\ t.items[d] = s.items[d]
      BY <1>1, <1>3, <2>3, Kinds DEF Upd, Typed
    <3> QED
      BY <2>1, <3>1
  <2> QED
    BY <2>2, <2>3
<1>6. \A r \in Room : Shown(t, r) \subseteq Shown(s, r)
  <2>1. \A r \in Room : t.held[r] = s.held[r]
    BY <1>1, <1>3, Kinds DEF Upd, Typed
  <2> QED
    BY <1>3, <2>1 DEF Shown
<1>7. Lighted(t, D)
  BY <1>1, <1>3, <1>6, LightedSame
<1> QED
  BY <1>3, <1>4, <1>5, <1>7 DEF Sound

LEMMA ToRoomSound ==
    ASSUME NEW s, NEW X, NEW L, NEW A, NEW E, NEW D, Sound(s, X, L, A, E, D),
           NEW o \in X, NEW r \in Room, NEW t, t = ObjToRoom(s, o, r)
    PROVE  /\ Sound(t, X \ {o}, L, A, E, D) /\ t.loc = s.loc /\ t.worn = s.worn
           /\ t.wrong = s.wrong /\ t.items = s.items
           /\ \A c \in Char : t.held[c] = s.held[c]
<1>1. /\ Placed(s, X, L, A) /\ Counted(s, E) /\ Lighted(s, D) /\ Fields(s) /\ Typed(s)
  BY DEF Sound, Placed
<1>2. o \in Obj /\ o \notin s.held[r] /\ r \in Holder
  BY <1>1, InHand, Kinds
<1>3. /\ t.loc = s.loc /\ t.worn = s.worn
      /\ t.held = Upd(s.held, r, s.held[r] \cup {o})
      /\ t.items = s.items /\ t.lit = s.lit /\ t.wrong = s.wrong
      /\ t.light = Upd(s.light, r, s.light[r] + Shine(s, o))
  BY <1>1, <1>2, ToRoomFrame
<1>4. Placed(t, X \ {o}, L, A)
  BY <1>1, ToRoomPlaced
<1>5. \A c \in Char : t.held[c] = s.held[c]
  BY <1>1, <1>3, Kinds DEF Upd, Typed
<1>6. Counted(t, E)
  BY <1>1, <1>3, <1>5, CountedSame
<1>7. /\ \A q \in Room : Shown(t, q) \subseteq Shown(s, q) \cup {o}
      /\ \A q \in Room \ {r} : Shown(t, q) \subseteq Shown(s, q)
  <2>1. t.held[r] = s.held[r] \cup {o}
    BY <1>1, <1>2, <1>3 DEF Upd, Typed
  <2>2. \A q \in Room \ {r} : t.held[q] = s.held[q]
    BY <1>1, <1>3, Kinds DEF Upd, Typed
  <2>3. ASSUME NEW q \in Room, NEW x \in Shown(t, q), x # o \/ q # r
        PROVE  x \in Shown(s, q)
    BY <1>3, <2>1, <2>2, <2>3 DEF Shown
  <2> QED
    BY <2>3
<1>8. \A q \in Room : o \notin Shown(s, q)
  BY <1>1, InHandUnseen
<1>9. /\ Shine(s, o) \in Nat
      /\ Shine(s, o) >= 1 \/ o \notin Lamp \/ t.lit[o] = 0
  BY <1>3 DEF Shine
<1>10. /\ \A q \in Room \ {r} : t.light[q] = s.light[q]
       /\ t.light[r] = s.light[r] + Shine(s, o)
  BY <1>1, <1>3 DEF Upd, Typed
<1>11. Lighted(t, D)
  <2> DEFINE k == Shine(s, o)
  <2>1. /\ k >= 1 \/ o \notin Lamp \/ t.lit[o] = 0
        /\ t.light[r] = s.light[r] + k
    BY <1>9, <1>10
  <2>2. k \in Nat
    BY <1>9
  <2>3. \A x \in Obj \ {o} : t.lit[x] = s.lit[x]
    BY <1>3
  <2> HIDE DEF k
  <2>4. /\ r \in Room => t.light[r] = s.light[r] + k
        /\ k >= 1 \/ o \notin Lamp \/ t.lit[o] = 0 \/ <<r, "light">> \in t.wrong
        /\ s.wrong \subseteq t.wrong
    BY <1>3, <2>1
  <2>5. Gains(s, t, o, r, k)
    BY <1>7, <1>8, <1>10, <2>3, <2>4 DEF Gains
  <2> QED
    BY <1>1, <1>2, <2>2, <2>5, LightedGains
<1> QED
  BY <1>3, <1>4, <1>5, <1>6, <1>11 DEF Sound

LEMMA FromRoomSound ==
    ASSUME NEW s, NEW X, NEW A, NEW E, NEW D, Sound(s, X, {}, A, E, D),
           NEW o \in Obj, s.in_room[o] # NOWHERE, NEW t, t = ObjFromRoom(s, o)
    PROVE  Sound(t, X \cup {o}, {}, A, E, D) /\ t.loc = s.loc /\ t.worn = s.worn
<1> DEFINE r == s.in_room[o]
<1>1. /\ Placed(s, X, {}, A) /\ Counted(s, E) /\ Lighted(s, D) /\ Fields(s) /\ Typed(s)
  BY DEF Sound, Placed
<1>2. r \in Room /\ o \in s.held[r]
  BY <1>1, OnTheFloor
<1>3. /\ t.loc = s.loc /\ t.worn = s.worn
      /\ t.held = Upd(s.held, r, s.held[r] \ {o})
      /\ t.items = s.items /\ t.wrong = s.wrong
      /\ t.lit = Upd(s.lit, o, PutOut(s, o))
      /\ t.light = Upd(s.light, r, s.light[r] - Shine(s, o))
  BY <1>1, <1>2, FromRoomFrame
<1>4. Placed(t, X \cup {o}, {}, A)
  BY <1>1, FromRoomPlaced
<1> HIDE DEF r
<1>5. Counted(t, E)
  <2>1. \A c \in Char : t.held[c] = s.held[c]
    BY <1>1, <1>2, <1>3, Kinds DEF Upd, Typed
  <2> QED
    BY <1>1, <1>3, <2>1, CountedSame
<1>6. \A q \in Room : Shown(t, q) \subseteq Shown(s, q) \ {o}
  <2>1. o \in X \cup {o}
    OBVIOUS
  <2>2. \A q \in Room : o \notin Shown(t, q)
    BY <1>4, <2>1, InHandUnseen
  <2>3. \A q \in Room : t.held[q] \subseteq s.held[q]
    BY <1>1, <1>2, <1>3, Kinds DEF Upd, Typed
  <2>4. ASSUME NEW q \in Room, NEW x \in Shown(t, q)
        PROVE  x \in Shown(s, q)
    BY <1>3, <2>3 DEF Shown
  <2> QED
    BY <2>2, <2>4
<1>7. /\ \A q \in Room \ {r} : t.light[q] = s.light[q]
      /\ t.light[r] = s.light[r] - Shine(s, o)
  BY <1>1, <1>2, <1>3 DEF Upd, Typed
<1>8. \/ t.light[r] = s.light[r]
      \/ /\ t.light[r] = s.light[r] - 1
         /\ o \in Lamp /\ s.lit[o] # 0 /\ o \in Shown(s, r)
  <2>1. s.light[r] \in Int
    BY <1>1, <1>2 DEF Typed
  <2> QED
    BY <1>2, <1>7, <2>1 DEF Shine, Shown
<1>9. \A x \in Obj \ {o} : t.lit[x] = s.lit[x]
  BY <1>1, <1>3 DEF Upd, Typed
<1>10. Lighted(t, D)
  <2>1. Loses(s, t, o, r)
    BY <1>3, <1>6, <1>7, <1>8, <1>9 DEF Loses
  <2> QED
    BY <1>1, <2>1, LightedLoses
<1> QED
  BY <1>3, <1>4, <1>5, <1>10 DEF Sound

LEMMA ToObjSound ==
    ASSUME NEW s, NEW X, NEW L, NEW M, NEW A, NEW E, NEW D, Sound(s, X, L, A, E, D),
           L \subseteq M, NEW o \in X, o \notin M => s.carried_by[o] = Null,
           NEW b \in Bag \cup Corpse, b \in s.live, NEW t, t = ObjToObj(s, o, b)
    PROVE  Sound(t, X \ {o}, M, A, E, D)
<1>1. /\ Placed(s, X, L, A) /\ Counted(s, E) /\ Lighted(s, D) /\ Fields(s) /\ Typed(s)
      /\ b \notin Room /\ b \notin Char
  BY Kinds DEF Sound, Placed
<1>2. o \in Obj
  BY <1>1, InHand
<1>3. /\ t.live = s.live /\ t.loc = s.loc /\ t.worn = s.worn
      /\ t.held = Upd(s.held, b, s.held[b] \cup {o})
      /\ t.items = s.items /\ t.lit = s.lit /\ t.light = s.light /\ t.wrong = s.wrong
  BY <1>1, <1>2, ToObjFrame
<1>4. Placed(t, X \ {o}, M, A)
  BY <1>1, ToObjPlaced
<1>5. \A h \in Room \cup Char : t.held[h] = s.held[h]
  BY <1>1, <1>3, Kinds DEF Upd, Typed
<1>6. Counted(t, E)
  BY <1>1, <1>3, <1>5, CountedSame
<1>7. \A r \in Room : Shown(t, r) \subseteq Shown(s, r)
  BY <1>3, <1>5 DEF Shown
<1>8. Lighted(t, D)
  BY <1>1, <1>3, <1>7, LightedSame
<1> QED
  BY <1>3, <1>4, <1>6, <1>8 DEF Sound

LEMMA FromObjSound ==
    ASSUME NEW s, NEW X, NEW A, NEW E, NEW D, Sound(s, X, {}, A, E, D),
           NEW o \in Obj, s.in_obj[o] # Null, NEW t, t = ObjFromObj(s, o)
    PROVE  Sound(t, X \cup {o}, {}, A, E, D) /\ t.loc = s.loc /\ t.worn = s.worn
<1>1. /\ Placed(s, X, {}, A) /\ Counted(s, E) /\ Lighted(s, D) /\ Fields(s) /\ Typed(s)
  BY DEF Sound, Placed
<1> DEFINE b == s.in_obj[o]
<1>2. b \in Bag \cup Corpse /\ b \notin Room /\ b \notin Char
  BY <1>1, Contained, Kinds
<1>3. /\ t.live = s.live /\ t.loc = s.loc /\ t.worn = s.worn
      /\ t.held = Upd(s.held, b, s.held[b] \ {o})
      /\ t.items = s.items /\ t.lit = s.lit /\ t.light = s.light /\ t.wrong = s.wrong
  BY <1>1, <1>2, FromObjFrame
<1>4. Placed(t, X \cup {o}, {}, A)
  BY <1>1, FromObjPlaced
<1> HIDE DEF b
<1>5. \A h \in Room \cup Char : t.held[h] = s.held[h]
  BY <1>1, <1>2, <1>3, Kinds DEF Upd, Typed
<1>6. Counted(t, E)
  BY <1>1, <1>3, <1>5, CountedSame
<1>7. \A r \in Room : Shown(t, r) \subseteq Shown(s, r)
  BY <1>3, <1>5 DEF Shown
<1>8. Lighted(t, D)
  BY <1>1, <1>3, <1>7, LightedSame
<1> QED
  BY <1>3, <1>4, <1>6, <1>8 DEF Sound

\* No room shows more than it did, or shows it brighter.
NoBrighter(s, t) ==
    \A r \in Room : /\ t.light[r] = s.light[r]
                    /\ Shown(t, r) \subseteq Shown(s, r)
                    /\ \A o \in Shown(t, r) : t.lit[o] = s.lit[o] \/ t.lit[o] = 0
                    /\ <<r, "light">> \in s.wrong => <<r, "light">> \in t.wrong

LEMMA LightedLess ==
    ASSUME NEW s, NEW t, NEW D, Lighted(s, D), Typed(s), NoBrighter(s, t)
    PROVE  Lighted(t, D)
<1> SUFFICES ASSUME NEW r \in Room \ D, <<r, "light">> \notin t.wrong
             PROVE  t.light[r] >= Cardinality(Alight(t, r))
  BY DEF Lighted
<1>1. Alight(t, r) \subseteq Alight(s, r)
  BY AlightShown DEF NoBrighter
<1>2. Cardinality(Alight(t, r)) <= Cardinality(Alight(s, r))
  BY <1>1, AlightFinite, FS_Subset
<1>3. /\ s.light[r] >= Cardinality(Alight(s, r)) /\ s.light[r] \in Int
      /\ Cardinality(Alight(s, r)) \in Nat /\ Cardinality(Alight(t, r)) \in Nat
  BY AlightFinite DEF Lighted, Typed, NoBrighter
<1>4. t.light[r] = s.light[r]
  BY DEF NoBrighter
<1> QED
  BY <1>2, <1>3, <1>4

LEMMA AttachSound ==
    ASSUME NEW s, NEW X, NEW L, NEW A, NEW E, NEW D, Sound(s, X, L, A, E, D),
           NEW o \in X, NEW c \in Char, c \in A, NEW p \in WearSlot, s.worn[c][p] = Null,
           NEW t, t = AttachEquipment(s, c, o, p)
    PROVE  Sound(t, X \ {o}, L, A, E, D) /\ t.loc = s.loc
<1>1. /\ Placed(s, X, L, A) /\ Counted(s, E) /\ Lighted(s, D) /\ Fields(s) /\ Typed(s)
  BY DEF Sound, Placed
<1>2. o \in Obj
  BY <1>1, InHand
<1> DEFINE fire == IF s.lit[o] = 0 THEN 1 ELSE s.lit[o]
           r0 == s.loc[c]
<1>3. /\ Remains(s, t)
      /\ t.worn = Upd(s.worn, c, Upd(s.worn[c], p, o))
      /\ \/ /\ o \notin Lamp \/ (MerelyHeld(o, p) /\ s.lit[o] = 0)
            /\ t.lit = s.lit /\ t.light = s.light /\ t.wrong = s.wrong
         \/ /\ o \in Lamp /\ MerelyHeld(o, p) /\ s.lit[o] # 0
            /\ t.lit = s.lit /\ t.light = s.light
            /\ t.wrong = s.wrong \cup {<<r0, "light">>}
         \/ /\ o \in Lamp /\ r0 = NOWHERE
            /\ t.lit = Upd(s.lit, o, fire) /\ t.light = s.light /\ t.wrong = s.wrong
         \/ /\ o \in Lamp /\ r0 # NOWHERE
            /\ t.lit = Upd(s.lit, o, fire)
            /\ t.light = Upd(s.light, r0, s.light[r0] + 1)
            /\ t.wrong = s.wrong
  BY <1>1, <1>2, AttachFrame
<1> HIDE DEF fire, r0
<1>4. Placed(t, X \ {o}, L, A)
  BY <1>1, AttachPlaced
<1>5. Counted(t, E)
  BY <1>1, <1>3, CountedSame DEF Remains
<1>6. \A r \in Room : o \notin Shown(s, r)
  BY <1>1, InHandUnseen
<1>7. ASSUME NEW r \in Room, NEW x \in Shown(t, r), x # o \/ r # r0
      PROVE  x \in Shown(s, r)
  <2>1. s.worn \in [Char -> [WearSlot -> Obj \cup {Null}]]
    BY <1>1 DEF Typed
  <2>2. \A d \in Char, q \in WearSlot :
            t.worn[d][q] = IF d = c /\ q = p THEN o ELSE s.worn[d][q]
    BY <1>3, <2>1 DEF Upd
  <2>3. CASE x \in t.held[r]
    BY <1>3, <2>3 DEF Remains, Shown
  <2>4. CASE x \notin t.held[r]
    <3>1. PICK d \in Char, q \in WearSlot : t.loc[d] = r /\ t.worn[d][q] = x
      BY <2>4 DEF Shown
    <3>2. s.worn[d][q] = x /\ s.loc[d] = r
      BY <1>3, <1>7, <2>2, <3>1 DEF Remains, r0
    <3> QED
      BY <3>2 DEF Shown
  <2> QED
    BY <2>3, <2>4
<1>8. s.wrong \subseteq t.wrong
  BY <1>3
<1>9. /\ \A x \in Obj \ {o} : t.lit[x] = s.lit[x]
      /\ \A r \in Room : r # r0 => t.light[r] = s.light[r]
  BY <1>1, <1>3 DEF Upd, Typed
<1>10. \A r \in Room : /\ Shown(t, r) \subseteq Shown(s, r) \cup {o}
                       /\ r # r0 => Shown(t, r) \subseteq Shown(s, r)
  BY <1>7
<1>11. Lighted(t, D)
  <2>1. CASE \/ o \notin Lamp \/ t.lit[o] = 0 \/ <<r0, "light">> \in t.wrong
             \/ r0 = NOWHERE
    <3>1. CASE r0 \in Room /\ t.light[r0] = s.light[r0]
      <4>1. s.light[r0] \in Int /\ r0 # NOWHERE
        BY <1>1, <3>1, Kinds DEF Typed
      <4>2. Gains(s, t, o, r0, 0)
        BY <1>6, <1>8, <1>9, <1>10, <2>1, <3>1, <4>1 DEF Gains
      <4> QED
        BY <1>1, <1>2, <4>2, LightedGains
    <3>2. CASE r0 \notin Room
      <4>1. Gains(s, t, o, r0, 1)
        BY <1>6, <1>8, <1>9, <1>10, <3>2 DEF Gains
      <4> QED
        BY <1>1, <1>2, <4>1, LightedGains
    <3>3. CASE r0 \in Room /\ t.light = Upd(s.light, r0, s.light[r0] + 1)
      <4>1. t.light[r0] = s.light[r0] + 1
        BY <1>1, <3>3 DEF Upd, Typed
      <4>2. Gains(s, t, o, r0, 1)
        BY <1>6, <1>8, <1>9, <1>10, <4>1 DEF Gains
      <4> QED
        BY <1>1, <1>2, <4>2, LightedGains
    <3> QED
      BY <1>3, <3>1, <3>2, <3>3
  <2>2. CASE r0 \in Room /\ t.light = Upd(s.light, r0, s.light[r0] + 1)
    <3>1. t.light[r0] = s.light[r0] + 1
      BY <1>1, <2>2 DEF Upd, Typed
    <3>2. Gains(s, t, o, r0, 1)
      BY <1>6, <1>8, <1>9, <1>10, <3>1 DEF Gains
    <3> QED
      BY <1>1, <1>2, <3>2, LightedGains
  <2>3. r0 \in Room \cup {NOWHERE}
    BY <1>1 DEF Typed, Place, r0
  <2> QED
    BY <1>3, <2>1, <2>2, <2>3
<1>12. t.loc = s.loc
  BY <1>3 DEF Remains
<1> QED
  BY <1>4, <1>5, <1>11, <1>12 DEF Sound

LEMMA DetachSound ==
    ASSUME NEW s, NEW X, NEW L, NEW A, NEW E, NEW D, Sound(s, X, L, A, E, D),
           NEW c \in Char, NEW p \in WearSlot, NEW o, o = s.worn[c][p], o # Null,
           NEW t, t = DetachEquipment(s, c, p)
    PROVE  /\ Sound(t, X \cup {o}, L, A, E, D) /\ Remains(s, t)
           /\ t.wrong = s.wrong /\ t.carried_by = s.carried_by
           /\ t.worn = Upd(s.worn, c, Upd(s.worn[c], p, Null))
<1>1. /\ Placed(s, X, L, A) /\ Counted(s, E) /\ Lighted(s, D) /\ Fields(s) /\ Typed(s)
  BY DEF Sound, Placed
<1>2. o \in Obj
  BY <1>1 DEF Typed
<1> DEFINE r0 == s.loc[c]
<1>3. /\ Remains(s, t)
      /\ t.worn = Upd(s.worn, c, Upd(s.worn[c], p, Null))
      /\ t.carried_by = s.carried_by /\ t.wrong = s.wrong
      /\ \/ t.lit = s.lit /\ t.light = s.light
         \/ /\ o \in Lamp /\ s.lit[o] # 0 /\ r0 \in Room
            /\ t.lit = Upd(s.lit, o, PutOut(s, o))
            /\ t.light = Upd(s.light, r0, s.light[r0] - 1)
  BY <1>1, <1>2, DetachFrame
<1>4. Placed(t, X \cup {o}, L, A)
  BY <1>1, DetachPlaced
<1>5. Counted(t, E)
  BY <1>1, <1>3, CountedSame DEF Remains
<1>6. \A r \in Room : o \notin Shown(t, r)
  <2>1. o \in X \cup {o}
    OBVIOUS
  <2> QED
    BY <1>4, <2>1, InHandUnseen
<1>7. ASSUME NEW r \in Room, NEW x \in Shown(t, r)
      PROVE  x \in Shown(s, r)
  <2>1. s.worn \in [Char -> [WearSlot -> Obj \cup {Null}]]
    BY <1>1 DEF Typed
  <2>2. \A d \in Char, q \in WearSlot :
            t.worn[d][q] = IF d = c /\ q = p THEN Null ELSE s.worn[d][q]
    BY <1>3, <2>1 DEF Upd
  <2>3. CASE x \in t.held[r]
    BY <1>3, <2>3 DEF Remains, Shown
  <2>4. CASE x \notin t.held[r]
    <3>1. PICK d \in Char, q \in WearSlot : t.loc[d] = r /\ t.worn[d][q] = x
      BY <2>4 DEF Shown
    <3>2. x # Null
      BY Kinds DEF Shown
    <3>3. s.worn[d][q] = x /\ s.loc[d] = r
      BY <1>3, <2>2, <3>1, <3>2 DEF Remains
    <3> QED
      BY <3>3 DEF Shown
  <2> QED
    BY <2>3, <2>4
<1>8. r0 \in Room => o \in Shown(s, r0)
  BY <1>2 DEF Shown
<1> HIDE DEF r0
<1>9. /\ \A x \in Obj \ {o} : t.lit[x] = s.lit[x]
      /\ \A r \in Room : r # r0 => t.light[r] = s.light[r]
  BY <1>1, <1>3 DEF Upd, Typed
<1>10. r0 \in Room => \/ t.light[r0] = s.light[r0]
                      \/ /\ t.light[r0] = s.light[r0] - 1
                         /\ o \in Lamp /\ s.lit[o] # 0 /\ o \in Shown(s, r0)
  BY <1>1, <1>3, <1>8 DEF Upd, Typed
<1>11. Loses(s, t, o, r0)
  BY <1>3, <1>6, <1>7, <1>9, <1>10 DEF Loses
<1>12. Lighted(t, D)
  BY <1>1, <1>2, <1>11, LightedLoses
<1> QED
  BY <1>3, <1>4, <1>5, <1>12 DEF Sound

LEMMA FromCharHeldSound ==
    ASSUME NEW s, NEW X, NEW A, NEW E, NEW D, Sound(s, X, {}, A, E, D),
           NEW o \in Obj, NEW c \in Char, c = s.carried_by[o], o \in s.held[c],
           NEW t, t = ObjFromChar(s, o)
    PROVE  /\ Sound(t, X \cup {o}, {}, A, E, D)
           /\ t.live = s.live /\ t.loc = s.loc /\ t.worn = s.worn /\ t.carried_by[o] = Null
<1>1. /\ Placed(s, X, {}, A) /\ Counted(s, E) /\ Lighted(s, D) /\ Fields(s) /\ Typed(s)
      /\ c \in Holder
  BY Kinds DEF Sound, Placed
<1>2. /\ t.live = s.live /\ t.loc = s.loc /\ t.worn = s.worn
      /\ t.held = Upd(s.held, c, s.held[c] \ {o})
      /\ t.carried_by = Upd(s.carried_by, o, Null)
      /\ t.items = Upd(s.items, c, s.items[c] - 1)
      /\ t.lit = s.lit /\ t.light = s.light /\ t.wrong = s.wrong
  BY <1>1, FromCharHeldFrame
<1>3. Placed(t, X \cup {o}, {}, A)
  BY <1>1, FromCharHeldPlaced
<1>4. Counted(t, E)
  <2> SUFFICES ASSUME NEW d \in Char \ E, <<d, "items">> \notin t.wrong
               PROVE  t.items[d] = Cardinality(t.held[d])
    BY DEF Counted
  <2>1. s.items[d] = Cardinality(s.held[d])
    BY <1>1, <1>2 DEF Counted
  <2>2. CASE d = c
    <3>0. IsFiniteSet(s.held[c])
      BY <1>1, HeldFinite
    <3>1. Cardinality(s.held[c] \ {o}) = Cardinality(s.held[c]) - 1
      BY <3>0, FS_RemoveElement
    <3>2. t.held[d] = s.held[c] \ {o} /\ t.items[d] = s.items[c] - 1
      BY <1>1, <1>2, <2>2 DEF Upd, Typed
    <3> QED
      BY <2>1, <2>2, <3>1, <3>2
  <2>3. CASE d # c
    <3>1. t.held[d] = s.held[d] /\ t.items[d] = s.items[d]
      BY <1>1, <1>2, <2>3, Kinds DEF Upd, Typed
    <3> QED
      BY <2>1, <3>1
  <2> QED
    BY <2>2, <2>3
<1>5. \A r \in Room : Shown(t, r) \subseteq Shown(s, r)
  <2>1. \A r \in Room : t.held[r] = s.held[r]
    BY <1>1, <1>2, Kinds DEF Upd, Typed
  <2>2. ASSUME NEW r \in Room, NEW x \in Shown(t, r)
        PROVE  x \in Shown(s, r)
    BY <1>2, <2>1 DEF Shown
  <2> QED
    BY <2>2
<1>6. Lighted(t, D)
  BY <1>1, <1>2, <1>5, LightedSame
<1>7. t.carried_by[o] = Null
  BY <1>1, <1>2 DEF Upd, Typed
<1> QED
  BY <1>2, <1>3, <1>4, <1>6, <1>7 DEF Sound

\* t is s as far as the counts and the lights go.
LEMMA AlikeSound ==
    ASSUME NEW s, NEW t, NEW X, NEW A, NEW E, NEW D, NEW Y, NEW B, Sound(s, Y, {}, B, E, D),
           Placed(t, X, {}, A), t.loc = s.loc, t.held = s.held, t.worn = s.worn,
           t.items = s.items, t.lit = s.lit, t.light = s.light, s.wrong \subseteq t.wrong
    PROVE  Sound(t, X, {}, A, E, D)
<1>1. Counted(t, E)
  BY CountedSame DEF Sound
<1>2. \A r \in Room : Shown(t, r) \subseteq Shown(s, r)
  BY DEF Shown
<1>3. Lighted(t, D)
  BY <1>2, LightedSame DEF Sound, Placed
<1> QED
  BY <1>1, <1>3 DEF Sound

LEMMA FromCharSound ==
    ASSUME NEW s, NEW X, NEW A, NEW E, NEW D, Sound(s, X, {}, A, E, D),
           NEW o \in Obj, s.carried_by[o] # Null, NEW t, t = ObjFromChar(s, o)
    PROVE  Sound(t, X \cup {o}, {}, A, E, D) /\ t.loc = s.loc
<1> DEFINE c == s.carried_by[o]
<1>1. Placed(s, X, {}, A) /\ Fields(s) /\ Typed(s) /\ c \in Char
  BY DEF Sound, Placed, Typed
<1> HIDE DEF c
<1>2. CASE o \in X
  <2>1. /\ Placed(t, X, {}, A) /\ t.loc = s.loc /\ t.held = s.held /\ t.worn = s.worn
        /\ t.items = s.items /\ t.lit = s.lit /\ t.light = s.light
        /\ t.wrong = s.wrong \cup {<<c, "weight">>}
    BY <1>1, <1>2, FromCharInHand DEF c
  <2>2. X \cup {o} = X
    BY <1>2
  <2> QED
    BY <2>1, <2>2, AlikeSound
<1>3. CASE o \notin X /\ o \in s.held[c]
  BY <1>1, <1>3, FromCharHeldSound DEF c
<1>4. CASE o \notin X /\ o \notin s.held[c]
  <2>1. PICK p \in WearSlot : s.worn[c][p] = o
    BY <1>1, <1>4, Carried DEF c
  <2> DEFINE v == Blame(s, c)
             u == DetachEquipment(v, c, p)
  <2>2. /\ Placed(t, X \cup {o}, {}, A)
        /\ t.live = u.live /\ t.loc = u.loc /\ t.held = u.held /\ t.worn = u.worn
        /\ t.items = u.items /\ t.lit = u.lit /\ t.light = u.light /\ t.wrong = u.wrong
    BY <1>1, <1>4, <2>1, FromCharWorn DEF c
  <2>3. /\ Placed(v, X, {}, A) /\ Remains(s, v) /\ v.wrong = s.wrong \cup {<<c, "weight">>}
        /\ v.worn = s.worn /\ v.carried_by = s.carried_by /\ v.lit = s.lit /\ v.light = s.light
    BY <1>1, Blamed
  <2> HIDE DEF v
  <2>4. Sound(v, X, {}, A, E, D)
    BY <2>3, UnmovedSound DEF Placed
  <2>5. o = v.worn[c][p] /\ o # Null
    BY <2>1, <2>3, Kinds
  <2> HIDE DEF u
  <2>6. Sound(u, X \cup {o}, {}, A, E, D) /\ Remains(v, u)
    BY <1>1, <2>4, <2>5, DetachSound DEF u
  <2>7. Sound(t, X \cup {o}, {}, A, E, D)
    BY <2>2, <2>6, AlikeSound
  <2> QED
    BY <2>2, <2>3, <2>6, <2>7 DEF Remains
<1> QED
  BY <1>2, <1>3, <1>4

-----------------------------------------------------------------------------
(* Freeing.                                                                *)

\* u is s with O in hand; s may still have the objects of O point to a container.
LEMMA EraseSound ==
    ASSUME NEW u, NEW O, NEW A, NEW E, NEW D, Sound(u, O, {}, A, E, D),
           NEW s, Fields(s), Typed(s),
           s.live = u.live, s.held = u.held, s.worn = u.worn, s.in_room = u.in_room,
           s.carried_by = u.carried_by, \A x \in Obj \ O : s.in_obj[x] = u.in_obj[x],
           s.loc = u.loc, s.items = u.items, s.lit = u.lit, s.light = u.light, s.wrong = u.wrong,
           NEW t, t = Erase(s, O)
    PROVE  /\ Sound(t, {}, {}, A, E, D) /\ t.loc = s.loc /\ t.worn = s.worn
           /\ \A c \in Char : t.held[c] = s.held[c]
<1>1. Placed(u, O, {}, A) /\ Counted(u, E) /\ Lighted(u, D) /\ Typed(u)
  BY DEF Sound, Placed
<1> DEFINE X == Within(s, O)
<1>2. /\ t.loc = s.loc /\ t.worn = s.worn /\ t.items = s.items /\ t.light = s.light
      /\ t.wrong = {w \in s.wrong : w[1] \notin X}
      /\ \A h \in Holder : t.held[h] = IF h \in X THEN {} ELSE s.held[h]
      /\ \A o \in Obj : t.lit[o] = IF o \in X THEN Burn(o) ELSE s.lit[o]
      /\ t.live = s.live \ X
  BY EraseFrame
<1>3. X \subseteq Obj
  BY DEF Typed, Within
<1> HIDE DEF X
<1>4. Placed(t, {}, {}, A)
  BY <1>1, ErasePlaced
<1>5. \A h \in Room \cup Char : h \notin X /\ h \in Holder
  BY <1>3, Kinds
<1>6. \A h \in Room \cup Char : t.held[h] = s.held[h]
  BY <1>2, <1>5
<1>7. \A h \in Room \cup Char, k \in {"items", "weight", "light"} :
        <<h, k>> \in s.wrong => <<h, k>> \in t.wrong
  BY <1>2, <1>5
<1>8. Counted(t, E)
  <2> SUFFICES ASSUME NEW d \in Char \ E, <<d, "items">> \notin t.wrong
               PROVE  t.items[d] = Cardinality(t.held[d])
    BY DEF Counted
  <2>1. <<d, "items">> \notin u.wrong
    BY <1>7
  <2> QED
    BY <1>1, <1>2, <1>6, <2>1 DEF Counted
<1>9. NoBrighter(u, t)
  <2> SUFFICES ASSUME NEW r \in Room
               PROVE  /\ t.light[r] = u.light[r]
                      /\ Shown(t, r) \subseteq Shown(u, r)
                      /\ \A o \in Shown(t, r) : t.lit[o] = u.lit[o] \/ t.lit[o] = 0
                      /\ <<r, "light">> \in u.wrong => <<r, "light">> \in t.wrong
    BY DEF NoBrighter
  <2>1. \A x \in Shown(t, r) : x \in Shown(u, r)
    BY <1>2, <1>6 DEF Shown
  <2>2. ASSUME NEW x \in Shown(t, r)
        PROVE  x \notin X
    <3>1. x \in t.live
      <4>1. x \in Obj /\ x # Null
        BY Kinds DEF Shown
      <4>2. CASE x \in t.held[r]
        BY <1>4, <4>2, Kinds DEF Placed, ListsTrue
      <4>3. CASE x \notin t.held[r]
        BY <1>4, <4>1, <4>3 DEF Placed, WornTrue, Shown
      <4> QED
        BY <4>2, <4>3
    <3> QED
      BY <1>2, <3>1
  <2>3. \A o \in Shown(t, r) : t.lit[o] = u.lit[o]
    <3>1. \A o \in Shown(t, r) : o \in Obj
      BY DEF Shown
    <3> QED
      BY <1>2, <2>2, <3>1
  <2>4. <<r, "light">> \in u.wrong => <<r, "light">> \in t.wrong
    BY <1>7
  <2> QED
    BY <1>2, <2>1, <2>3, <2>4
<1>10. Lighted(t, D)
  BY <1>1, <1>9, LightedLess
<1> QED
  BY <1>2, <1>4, <1>6, <1>8, <1>10 DEF Sound

\* Whatever o is in, or in nothing, it goes with all that is in it.
LEMMA ExtractSound ==
    ASSUME NEW s, NEW X, NEW A, NEW E, NEW D, Sound(s, X, {}, A, E, D),
           NEW o \in Obj, X \subseteq {o}, o \in s.live, NEW t, t = ExtractObj(s, o)
    PROVE  Sound(t, {}, {}, A, E, D) /\ t.loc = s.loc
<1> DEFINE v == Unlinked(s, o)
<1>1. t = Erase(v, {o})
  BY DEF ExtractObj
<1>2. Placed(s, X, {}, A) /\ Fields(s) /\ Typed(s)
  BY DEF Sound, Placed
<1>3. CASE Sound(v, {o}, {}, A, E, D) /\ v.loc = s.loc
  <2> HIDE DEF v
  <2>1. Fields(v) /\ Typed(v)
    BY <1>3 DEF Sound, Placed
  <2>2. Sound(t, {}, {}, A, E, D) /\ t.loc = v.loc
    BY <1>1, <1>3, <2>1, EraseSound
  <2> QED
    BY <1>3, <2>2
<1>4. X \cup {o} = {o}
  OBVIOUS
<1>5. CASE s.in_room[o] # NOWHERE
  <2>1. v = ObjFromRoom(s, o)
    BY <1>5 DEF Unlinked
  <2> HIDE DEF v
  <2> QED
    BY <1>3, <1>4, <1>5, <2>1, FromRoomSound
<1>6. CASE s.in_room[o] = NOWHERE /\ s.carried_by[o] # Null
  <2>1. v = ObjFromChar(s, o)
    BY <1>6 DEF Unlinked
  <2> HIDE DEF v
  <2> QED
    BY <1>3, <1>4, <1>6, <2>1, FromCharSound
<1>7. CASE s.in_room[o] = NOWHERE /\ s.carried_by[o] = Null /\ s.in_obj[o] = Null
  <2>1. v = s
    BY <1>7 DEF Unlinked
  <2>2. o \in X
    <3> SUFFICES ASSUME o \notin X
                 PROVE  FALSE
      OBVIOUS
    <3>1. CASE \E h \in Holder : o \in s.held[h]
      <4>1. PICK h \in Holder : o \in s.held[h]
        BY <3>1
      <4>2. /\ s.in_room[o] = RoomOf(h) /\ s.carried_by[o] = BearerOf(h)
            /\ s.in_obj[o] = ContainerOf(h)
        BY <1>2, <4>1 DEF Placed, ListsTrue
      <4> QED
        BY <1>7, <4>2, Kinds DEF RoomOf, BearerOf, ContainerOf, Holder
    <3>2. CASE \E c \in Char, p \in WearSlot : s.worn[c][p] = o
      <4>1. PICK c \in Char, p \in WearSlot : s.worn[c][p] = o
        BY <3>2
      <4>2. o # Null
        BY Kinds
      <4>3. s.carried_by[o] = c
        BY <1>2, <4>1, <4>2 DEF Placed, WornTrue
      <4> QED
        BY <1>7, <4>3, Kinds
    <3> QED
      BY <1>2, <3>1, <3>2 DEF Placed, NoneLost
  <2>3. X = {o}
    BY <2>2
  <2> QED
    BY <1>3, <2>1, <2>3
<1>8. CASE s.in_room[o] = NOWHERE /\ s.carried_by[o] = Null /\ s.in_obj[o] # Null
  <2> DEFINE b == s.in_obj[o]
             w == {<<b, "weight">>}
             u == [v EXCEPT !.in_obj = Upd(s.in_obj, o, Null)]
  <2>1. v = [s EXCEPT !.held[b] = @ \ {o}, !.wrong = @ \cup w]
    BY <1>8 DEF Unlinked
  <2>2. /\ b \in Bag \cup Corpse /\ o \in s.held[b] /\ s.in_room[o] = NOWHERE
        /\ b \in Holder /\ b \notin Room /\ b \notin Char
    BY <1>2, <1>8, Contained, Kinds
  <2>3. /\ Fields(v) /\ v.live = s.live /\ v.worn = s.worn /\ v.loc = s.loc
        /\ v.held = Upd(s.held, b, s.held[b] \ {o})
        /\ v.in_room = s.in_room /\ v.carried_by = s.carried_by /\ v.in_obj = s.in_obj
        /\ v.items = s.items /\ v.lit = s.lit /\ v.light = s.light /\ v.wrong = s.wrong \cup w
    BY <1>2, <2>1 DEF Fields, Upd
  <2> HIDE DEF v, w
  <2>4. /\ Fields(u) /\ u.live = s.live /\ u.worn = s.worn /\ u.loc = s.loc
        /\ u.held = Upd(s.held, b, s.held[b] \ {o})
        /\ u.in_room = s.in_room /\ u.carried_by = s.carried_by
        /\ u.in_obj = Upd(s.in_obj, o, Null)
        /\ u.items = s.items /\ u.lit = s.lit /\ u.light = s.light /\ u.wrong = s.wrong \cup w
    BY <2>3 DEF Fields
  <2> HIDE DEF u, b
  <2>5. Typed(v) /\ Typed(u)
    BY <1>2, <2>2, <2>3, <2>4 DEF Typed, Upd
  <2>6. u.in_room[o] = NOWHERE /\ u.in_obj[o] = Null /\ PointSame(s, u, o)
    BY <1>2, <1>8, <2>4 DEF Typed, Upd, PointSame
  <2>7. Placed(u, {o}, {}, A)
    BY <1>2, <1>4, <2>2, <2>4, <2>5, <2>6, Lifted
  <2>8. \A h \in Room \cup Char : u.held[h] = s.held[h]
    BY <1>2, <2>2, <2>4, Kinds DEF Upd, Typed
  <2>9. Counted(u, E)
    BY <2>4, <2>8, CountedSame DEF Sound
  <2>10. \A r \in Room : Shown(u, r) \subseteq Shown(s, r)
    <3>1. ASSUME NEW r \in Room, NEW x \in Shown(u, r)
          PROVE  x \in Shown(s, r)
      <4>1. u.held[r] = s.held[r]
        BY <2>8
      <4> QED
        BY <2>4, <3>1, <4>1 DEF Shown
    <3> QED
      BY <3>1
  <2>11. Lighted(u, D)
    BY <1>2, <2>4, <2>10, LightedSame DEF Sound
  <2>12. Sound(u, {o}, {}, A, E, D)
    BY <2>7, <2>9, <2>11 DEF Sound
  <2>13. \A x \in Obj \ {o} : v.in_obj[x] = u.in_obj[x]
    BY <1>2, <2>3, <2>4 DEF Typed, Upd
  <2>14. /\ Fields(v) /\ v.live = u.live /\ v.held = u.held /\ v.worn = u.worn
         /\ v.in_room = u.in_room /\ v.carried_by = u.carried_by /\ v.loc = u.loc
         /\ v.items = u.items /\ v.lit = u.lit /\ v.light = u.light /\ v.wrong = u.wrong
    BY <2>3, <2>4
  <2>15. /\ Sound(t, {}, {}, A, E, D) /\ t.loc = v.loc
    BY <1>1, <2>5, <2>12, <2>13, <2>14, EraseSound
  <2> QED
    BY <2>3, <2>15
<1> QED
  BY <1>5, <1>6, <1>7, <1>8

-----------------------------------------------------------------------------
(* A character leaves a room and comes into one, and the light with him.   *)

LEMMA RecountSound ==
    ASSUME NEW s, NEW X, NEW L, NEW A, NEW E, NEW D, NEW r \in Room,
           Sound(s, X, L, A, E, D \cup {r}), NEW t, t = RecountLightRoom(s, r)
    PROVE  /\ Sound(t, X, L, A, E, D)
           /\ Remains(s, t) /\ t.worn = s.worn /\ t.carried_by = s.carried_by
           /\ t.wrong = s.wrong \ {<<r, "light">>}
<1> DEFINE n == Cardinality(Alight(s, r) \cup (s.held[r] \cap Bladed))
<1>1. /\ Placed(s, X, L, A) /\ Counted(s, E) /\ Lighted(s, D \cup {r})
      /\ Fields(s) /\ Typed(s) /\ r \in Holder
  BY Kinds DEF Sound, Placed
<1>2. /\ Fields(t) /\ Remains(s, t) /\ t.worn = s.worn /\ t.carried_by = s.carried_by
      /\ t.lit = s.lit /\ t.light = Upd(s.light, r, n) /\ t.wrong = s.wrong \ {<<r, "light">>}
  BY <1>1 DEF RecountLightRoom, Fields, Remains, Upd
<1>3. n \in Nat /\ Cardinality(Alight(s, r)) <= n
  <2>1. s.held[r] \cap Bladed \subseteq Obj
    BY <1>1 DEF Typed
  <2>2. IsFiniteSet(Alight(s, r) \cup (s.held[r] \cap Bladed))
    BY <2>1, AlightFinite, ObjKindsAssumption, FS_Subset, FS_Union
  <2>3. Alight(s, r) \subseteq Alight(s, r) \cup (s.held[r] \cap Bladed)
    OBVIOUS
  <2> QED
    BY <2>2, <2>3, FS_Subset, FS_CardinalityType
<1> HIDE DEF n
<1>4. Typed(t)
  BY <1>1, <1>2, <1>3 DEF Typed, Remains, Upd
<1>5. Placed(t, X, L, A)
  BY <1>1, <1>2, <1>4, Unmoved DEF Remains
<1>6. Counted(t, E)
  <2> SUFFICES ASSUME NEW c \in Char \ E, <<c, "items">> \notin t.wrong
               PROVE  t.items[c] = Cardinality(t.held[c])
    BY DEF Counted
  <2>1. <<c, "items">> \notin s.wrong
    BY <1>2
  <2> QED
    BY <1>1, <1>2, <2>1 DEF Counted, Remains
<1>7. Lighted(t, D)
  <2> SUFFICES ASSUME NEW q \in Room \ D, <<q, "light">> \notin t.wrong
               PROVE  t.light[q] >= Cardinality(Alight(t, q))
    BY DEF Lighted
  <2>1. Alight(t, q) = Alight(s, q)
    <3>1. Shown(t, q) = Shown(s, q)
      BY <1>2 DEF Shown, Remains
    <3> QED
      BY <1>2, <3>1, AlightShown
  <2>2. CASE q = r
    <3>1. t.light[q] = n
      BY <1>1, <1>2, <2>2 DEF Upd, Typed
    <3> QED
      BY <1>3, <2>1, <2>2, <3>1, AlightFinite
  <2>3. CASE q # r
    <3>1. t.light[q] = s.light[q] /\ <<q, "light">> \notin s.wrong
      BY <1>1, <1>2, <2>3 DEF Upd, Typed
    <3> QED
      BY <1>1, <2>1, <2>3, <3>1 DEF Lighted
  <2> QED
    BY <2>2, <2>3
<1> QED
  BY <1>2, <1>5, <1>6, <1>7 DEF Sound

\* The lamps alight that c wears.
Torches(s, c) == {o \in WornBy(s, c) : Shine(s, o) = 1}

LEMMA TorchesAre ==
    ASSUME NEW s, Typed(s), NEW c \in Char
    PROVE  /\ IsFiniteSet(Torches(s, c)) /\ WornLight(s, c) = Cardinality(Torches(s, c))
           /\ WornLight(s, c) \in Nat
           /\ \A o \in Lamp : o \in Torches(s, c) <=>
                                s.lit[o] # 0 /\ \E p \in WearSlot : s.worn[c][p] = o
           /\ Torches(s, c) \subseteq Lamp
<1>1. /\ Torches(s, c) \subseteq Lamp
      /\ \A o \in Lamp : o \in Torches(s, c) <=>
                          s.lit[o] # 0 /\ \E p \in WearSlot : s.worn[c][p] = o
  <2>1. \A o \in Lamp : o # Null
    BY ObjAssumption
  <2> QED
    BY <2>1 DEF Torches, Shine, WornBy
<1>2. IsFiniteSet(Torches(s, c))
  BY <1>1, ObjAssumption, ObjKindsAssumption, FS_Subset
<1>3. WornLight(s, c) = Cardinality(Torches(s, c))
  BY DEF WornLight, Torches
<1> QED
  BY <1>1, <1>2, <1>3, FS_CardinalityType

LEMMA CharFromRoomSound ==
    ASSUME NEW s, NEW X, NEW L, NEW A, NEW E, NEW D, Sound(s, X, L, A, E, D),
           NEW c \in Char, s.loc[c] # NOWHERE, NEW t, t = CharFromRoom(s, c)
    PROVE  /\ Sound(t, X, L, A, E, D) /\ t.loc = Upd(s.loc, c, NOWHERE) /\ t.wrong = s.wrong
           /\ t.held = s.held /\ t.items = s.items /\ t.worn = s.worn
<1> DEFINE r == s.loc[c]
           n == WornLight(s, c)
<1>1. /\ Placed(s, X, L, A) /\ Counted(s, E) /\ Lighted(s, D)
      /\ Fields(s) /\ Typed(s) /\ r \in Room
  BY DEF Sound, Placed, Typed, Place
<1>2. n \in Nat
  BY <1>1, TorchesAre
<1>3. /\ Fields(t) /\ t.live = s.live /\ t.held = s.held /\ t.worn = s.worn
      /\ t.in_room = s.in_room /\ t.carried_by = s.carried_by /\ t.in_obj = s.in_obj
      /\ t.items = s.items /\ t.lit = s.lit /\ t.wrong = s.wrong
      /\ t.light = Upd(s.light, r, s.light[r] - n) /\ t.loc = Upd(s.loc, c, NOWHERE)
  BY <1>1 DEF CharFromRoom, Fields, Upd
<1> HIDE DEF r, n
<1>4. Typed(t)
  BY <1>1, <1>2, <1>3 DEF Typed, Place, Upd
<1>5. Placed(t, X, L, A)
  BY <1>1, <1>3, <1>4, Unmoved
<1>6. Counted(t, E)
  BY <1>1, <1>3, CountedSame
<1>7. ASSUME NEW q \in Room, NEW x \in Shown(t, q)
      PROVE  /\ x \in Shown(s, q)
             /\ q = r => \A p \in WearSlot : s.worn[c][p] # x
  <2>1. \A d \in Char : t.loc[d] = IF d = c THEN NOWHERE ELSE s.loc[d]
    BY <1>1, <1>3 DEF Typed, Upd
  <2>2. x \in Obj /\ x # Null /\ q # NOWHERE /\ q \in Holder
    BY Kinds DEF Shown
  <2>3. CASE x \in s.held[q]
    BY <1>1, <2>2, <2>3 DEF Shown, Placed, WornTrue
  <2>4. CASE x \notin s.held[q]
    <3>1. PICK d \in Char, p \in WearSlot : t.loc[d] = q /\ s.worn[d][p] = x
      BY <1>3, <2>4 DEF Shown
    <3>2. d # c /\ s.loc[d] = q
      BY <2>1, <2>2, <3>1
    <3>3. \A p1 \in WearSlot : s.worn[c][p1] # x
      BY <1>1, <2>2, <3>1, <3>2 DEF Placed, WornTrue
    <3> QED
      BY <2>2, <3>1, <3>2, <3>3 DEF Shown
  <2> QED
    BY <2>3, <2>4
<1>8. Lighted(t, D)
  <2> SUFFICES ASSUME NEW q \in Room \ D, <<q, "light">> \notin t.wrong
               PROVE  t.light[q] >= Cardinality(Alight(t, q))
    BY DEF Lighted
  <2>1. /\ s.light[q] >= Cardinality(Alight(s, q)) /\ s.light[q] \in Int
        /\ Cardinality(Alight(s, q)) \in Nat /\ Cardinality(Alight(t, q)) \in Nat
        /\ IsFiniteSet(Alight(s, q)) /\ IsFiniteSet(Alight(t, q)) /\ Lamp \subseteq Obj
    BY <1>1, <1>3, AlightFinite, ObjAssumption DEF Lighted, Typed
  <2>2. CASE q # r
    <3>1. t.light[q] = s.light[q]
      BY <1>1, <1>3, <2>2 DEF Upd, Typed
    <3>2. Alight(t, q) \subseteq Alight(s, q)
      BY <1>3, <1>7, AlightShown
    <3>3. Cardinality(Alight(t, q)) <= Cardinality(Alight(s, q))
      BY <2>1, <3>2, FS_Subset
    <3> QED
      BY <2>1, <3>1, <3>3
  <2>3. CASE q = r
    <3> DEFINE W == Torches(s, c)
    <3>1. /\ IsFiniteSet(W) /\ n = Cardinality(W) /\ W \subseteq Lamp
          /\ \A o \in Lamp : o \in W <=> s.lit[o] # 0 /\ \E p \in WearSlot : s.worn[c][p] = o
      BY <1>1, TorchesAre DEF n
    <3>2. W \subseteq Alight(s, q)
      <4>1. ASSUME NEW o \in W
            PROVE  o \in Alight(s, q)
        <5>1. o \in Lamp /\ s.lit[o] # 0 /\ o \in Shown(s, q)
          BY <2>1, <2>3, <3>1 DEF Shown, r
        <5> QED
          BY <5>1, AlightShown
      <4> QED
        BY <4>1
    <3>3. Alight(t, q) \subseteq Alight(s, q) \ W
      <4>1. ASSUME NEW o \in Alight(t, q)
            PROVE  o \in Alight(s, q) \ W
        <5>1. o \in Lamp /\ t.lit[o] # 0 /\ o \in Shown(t, q)
          BY AlightShown
        <5>2. o \in Shown(s, q) /\ o \notin W
          BY <1>7, <2>3, <3>1, <5>1
        <5> QED
          BY <1>3, <5>1, <5>2, AlightShown
      <4> QED
        BY <4>1
    <3> HIDE DEF W
    <3>4. /\ IsFiniteSet(Alight(s, q) \ W)
          /\ Cardinality(Alight(s, q) \ W) = Cardinality(Alight(s, q)) - Cardinality(Alight(s, q) \cap W)
      BY <2>1, FS_Difference
    <3>5. Alight(s, q) \cap W = W
      BY <3>2
    <3>6. Cardinality(Alight(t, q)) <= Cardinality(Alight(s, q) \ W)
      BY <3>3, <3>4, FS_Subset
    <3>7. t.light[q] = s.light[q] - n
      BY <1>1, <1>3, <2>3 DEF Upd, Typed
    <3>8. Cardinality(Alight(t, q)) <= Cardinality(Alight(s, q)) - n
      BY <3>1, <3>4, <3>5, <3>6
    <3> QED
      BY <1>2, <2>1, <3>7, <3>8
  <2> QED
    BY <2>2, <2>3
<1> QED
  BY <1>3, <1>5, <1>6, <1>8 DEF Sound, r

LEMMA CharToRoomSound ==
    ASSUME NEW s, NEW X, NEW L, NEW A, NEW E, NEW D, Sound(s, X, L, A, E, D),
           NEW c \in Char, s.loc[c] = NOWHERE, NEW r \in Room, NEW t, t = CharToRoom(s, c, r)
    PROVE  /\ Sound(t, X, L, A, E, D) /\ t.loc = Upd(s.loc, c, r)
<1> DEFINE n == WornLight(s, c)
<1>1. /\ Placed(s, X, L, A) /\ Counted(s, E) /\ Lighted(s, D) /\ Fields(s) /\ Typed(s)
  BY DEF Sound, Placed
<1>2. n \in Nat
  BY <1>1, TorchesAre
<1>3. /\ Fields(t) /\ t.live = s.live /\ t.held = s.held /\ t.worn = s.worn
      /\ t.in_room = s.in_room /\ t.carried_by = s.carried_by /\ t.in_obj = s.in_obj
      /\ t.items = s.items /\ t.lit = s.lit /\ t.wrong = s.wrong
      /\ t.light = Upd(s.light, r, s.light[r] + n) /\ t.loc = Upd(s.loc, c, r)
  BY <1>1 DEF CharToRoom, Fields, Upd
<1> HIDE DEF n
<1>4. Typed(t)
  BY <1>1, <1>2, <1>3 DEF Typed, Place, Upd
<1>5. Placed(t, X, L, A)
  BY <1>1, <1>3, <1>4, Unmoved
<1>6. Counted(t, E)
  BY <1>1, <1>3, CountedSame
<1>7. ASSUME NEW q \in Room, NEW x \in Shown(t, q)
      PROVE  \/ x \in Shown(s, q)
             \/ q = r /\ \E p \in WearSlot : s.worn[c][p] = x
  <2>1. \A d \in Char : t.loc[d] = IF d = c THEN r ELSE s.loc[d]
    BY <1>1, <1>3 DEF Typed, Upd
  <2>2. CASE x \in s.held[q]
    BY <2>2 DEF Shown
  <2>3. CASE x \notin s.held[q]
    <3>1. PICK d \in Char, p \in WearSlot : t.loc[d] = q /\ s.worn[d][p] = x
      BY <1>3, <2>3 DEF Shown
    <3> QED
      BY <2>1, <3>1 DEF Shown
  <2> QED
    BY <2>2, <2>3
<1>8. Lighted(t, D)
  <2> SUFFICES ASSUME NEW q \in Room \ D, <<q, "light">> \notin t.wrong
               PROVE  t.light[q] >= Cardinality(Alight(t, q))
    BY DEF Lighted
  <2>1. /\ s.light[q] >= Cardinality(Alight(s, q)) /\ s.light[q] \in Int
        /\ Cardinality(Alight(s, q)) \in Nat /\ Cardinality(Alight(t, q)) \in Nat
        /\ IsFiniteSet(Alight(s, q)) /\ IsFiniteSet(Alight(t, q)) /\ Lamp \subseteq Obj
    BY <1>1, <1>3, AlightFinite, ObjAssumption DEF Lighted, Typed
  <2>2. CASE q # r
    <3>1. t.light[q] = s.light[q]
      BY <1>1, <1>3, <2>2 DEF Upd, Typed
    <3>2. Alight(t, q) \subseteq Alight(s, q)
      BY <1>3, <1>7, <2>2, AlightShown
    <3>3. Cardinality(Alight(t, q)) <= Cardinality(Alight(s, q))
      BY <2>1, <3>2, FS_Subset
    <3> QED
      BY <2>1, <3>1, <3>3
  <2>3. CASE q = r
    <3> DEFINE W == Torches(s, c)
    <3>1. /\ IsFiniteSet(W) /\ n = Cardinality(W)
          /\ \A o \in Lamp : o \in W <=> s.lit[o] # 0 /\ \E p \in WearSlot : s.worn[c][p] = o
      BY <1>1, TorchesAre DEF n
    <3>2. Alight(t, q) \subseteq Alight(s, q) \cup W
      <4>1. ASSUME NEW o \in Alight(t, q)
            PROVE  o \in Alight(s, q) \cup W
        <5>1. o \in Lamp /\ t.lit[o] # 0 /\ o \in Shown(t, q)
          BY AlightShown
        <5>2. o \in Shown(s, q) \/ o \in W
          BY <1>3, <1>7, <3>1, <5>1
        <5> QED
          BY <1>3, <5>1, <5>2, AlightShown
      <4> QED
        BY <4>1
    <3> HIDE DEF W
    <3>3. /\ IsFiniteSet(Alight(s, q) \cup W)
          /\ Cardinality(Alight(s, q) \cup W)
               = Cardinality(Alight(s, q)) + Cardinality(W) - Cardinality(Alight(s, q) \cap W)
      BY <2>1, <3>1, FS_Union
    <3>4. Cardinality(Alight(s, q) \cap W) \in Nat
      BY <2>1, FS_Intersection, FS_CardinalityType
    <3>5. Cardinality(Alight(t, q)) <= Cardinality(Alight(s, q) \cup W)
      BY <3>2, <3>3, FS_Subset
    <3>6. t.light[q] = s.light[q] + n
      BY <1>1, <1>3, <2>3 DEF Upd, Typed
    <3> QED
      BY <1>2, <2>1, <3>1, <3>3, <3>4, <3>5, <3>6
  <2> QED
    BY <2>2, <2>3
<1> QED
  BY <1>3, <1>5, <1>6, <1>8 DEF Sound

-----------------------------------------------------------------------------
(* What c wears falls; the list at h is spliced to a room's.               *)

\* In the middle of a loop over the slots of c: whatever he carries, and whatever
\* the others have, is as it was.
Undressing(s, t, c) ==
    /\ t.loc = s.loc /\ t.wrong = s.wrong /\ t.items = s.items
    /\ \A d \in Char : t.held[d] = s.held[d]
    /\ \A q \in WearSlot : s.worn[c][q] = Null => t.worn[c][q] = Null

LEMMA FallSound ==
    ASSUME NEW s, NEW A, NEW E, NEW D, Sound(s, {}, {}, A, E, D),
           NEW c \in Char, NEW p \in WearSlot, NEW r \in Room, NEW t, t = Fall(s, c, p, r)
    PROVE  Sound(t, {}, {}, A, E, D) /\ Undressing(s, t, c) /\ t.worn[c][p] = Null
<1>1. CASE s.worn[c][p] = Null
  BY <1>1 DEF Fall, Undressing
<1>2. CASE s.worn[c][p] # Null
  <2> DEFINE o == s.worn[c][p]
             u == DetachEquipment(s, c, p)
  <2>1. t = ObjToRoom(u, o, r)
    BY <1>2 DEF Fall
  <2>2. s.worn \in [Char -> [WearSlot -> Obj \cup {Null}]]
    BY DEF Sound, Placed, Typed
  <2> HIDE DEF o, u
  <2>3. /\ Sound(u, {} \cup {o}, {}, A, E, D) /\ Remains(s, u) /\ u.wrong = s.wrong
        /\ u.worn = Upd(s.worn, c, Upd(s.worn[c], p, Null))
    BY <1>2, DetachSound DEF o, u
  <2>4. {} \cup {o} = {o} /\ {o} \ {o} = {} /\ o \in {o}
    OBVIOUS
  <2>5. /\ Sound(t, {}, {}, A, E, D) /\ t.loc = u.loc /\ t.worn = u.worn
        /\ t.wrong = u.wrong /\ t.items = u.items
        /\ \A d \in Char : t.held[d] = u.held[d]
    BY <2>1, <2>3, <2>4, ToRoomSound
  <2>6. \A q \in WearSlot : u.worn[c][q] = IF q = p THEN Null ELSE s.worn[c][q]
    BY <2>2, <2>3 DEF Upd
  <2> QED
    BY <2>3, <2>5, <2>6 DEF Undressing, Remains
<1> QED
  BY <1>1, <1>2

\* Nothing is worn by c any more.
Bare(s, c) == \A p \in WearSlot : s.worn[c][p] = Null

LEMMA AllFall ==
    ASSUME NEW s, NEW A, NEW E, NEW D, Sound(s, {}, {}, A, E, D),
           NEW c \in Char, NEW r \in Room,
           NEW t1, t1 = Fall(s, c, "light", r), NEW t2, t2 = Fall(t1, c, "waist", r),
           NEW t3, t3 = Fall(t2, c, "hold", r), NEW t, t = Fall(t3, c, "belt", r)
    PROVE  Sound(t, {}, {}, A, E, D) /\ Undressing(s, t, c) /\ Bare(t, c)
<1>1. "light" \in WearSlot /\ "waist" \in WearSlot /\ "hold" \in WearSlot /\ "belt" \in WearSlot
  BY DEF WearSlot
<1>2. Sound(t1, {}, {}, A, E, D) /\ Undressing(s, t1, c) /\ t1.worn[c]["light"] = Null
  BY <1>1, FallSound
<1>3. Sound(t2, {}, {}, A, E, D) /\ Undressing(t1, t2, c) /\ t2.worn[c]["waist"] = Null
  BY <1>1, <1>2, FallSound
<1>4. Sound(t3, {}, {}, A, E, D) /\ Undressing(t2, t3, c) /\ t3.worn[c]["hold"] = Null
  BY <1>1, <1>3, FallSound
<1>5. Sound(t, {}, {}, A, E, D) /\ Undressing(t3, t, c) /\ t.worn[c]["belt"] = Null
  BY <1>1, <1>4, FallSound
<1>6. /\ t.loc = s.loc /\ t.wrong = s.wrong /\ t.items = s.items
      /\ \A d \in Char : t.held[d] = s.held[d]
  BY <1>2, <1>3, <1>4, <1>5 DEF Undressing
<1>7. \A q \in WearSlot : s.worn[c][q] = Null => t.worn[c][q] = Null
  BY <1>2, <1>3, <1>4, <1>5 DEF Undressing
<1>8. Bare(t, c)
  BY <1>1, <1>2, <1>3, <1>4, <1>5 DEF Undressing, Bare, WearSlot
<1> QED
  BY <1>5, <1>6, <1>7, <1>8 DEF Undressing

LEMMA SpliceFrame ==
    ASSUME NEW s, Fields(s), Typed(s), NEW h \in Holder, NEW r \in Room, h # r,
           NEW t, t = Splice(s, h, r)
    PROVE  /\ Fields(t) /\ Typed(t)
           /\ t.live = s.live /\ t.loc = s.loc /\ t.worn = s.worn /\ t.in_obj = s.in_obj
           /\ t.items = s.items /\ t.lit = s.lit /\ t.light = s.light /\ t.wrong = s.wrong
           /\ t.held[h] = {} /\ t.held[r] = s.held[r] \cup s.held[h]
           /\ \A g \in Holder : g # h /\ g # r => t.held[g] = s.held[g]
           /\ \A o \in Obj : /\ t.in_room[o] = IF o \in s.held[h] THEN r ELSE s.in_room[o]
                             /\ t.carried_by[o] = IF o \in s.held[h] THEN Null ELSE s.carried_by[o]
<1>1. r \in Holder /\ s.held \in [Holder -> SUBSET Obj]
  BY Kinds DEF Typed
<1>2. /\ Fields(t)
      /\ t.live = s.live /\ t.loc = s.loc /\ t.worn = s.worn /\ t.in_obj = s.in_obj
      /\ t.items = s.items /\ t.lit = s.lit /\ t.light = s.light /\ t.wrong = s.wrong
      /\ t.held = Upd(Upd(s.held, r, s.held[r] \cup s.held[h]), h, {})
      /\ t.in_room = [o \in Obj |-> IF o \in s.held[h] THEN r ELSE s.in_room[o]]
      /\ t.carried_by = [o \in Obj |-> IF o \in s.held[h] THEN Null ELSE s.carried_by[o]]
  BY DEF Splice, Fields, Upd
<1>3. /\ t.held \in [Holder -> SUBSET Obj]
      /\ t.held[h] = {} /\ t.held[r] = s.held[r] \cup s.held[h]
      /\ \A g \in Holder : g # h /\ g # r => t.held[g] = s.held[g]
  BY <1>1, <1>2 DEF Upd
<1>4. t.in_room \in [Obj -> Place] /\ t.carried_by \in [Obj -> Char \cup {Null}]
  BY <1>2 DEF Typed, Place
<1>5. Typed(t)
  BY <1>2, <1>3, <1>4 DEF Typed
<1>6. \A o \in Obj : /\ t.in_room[o] = IF o \in s.held[h] THEN r ELSE s.in_room[o]
                     /\ t.carried_by[o] = IF o \in s.held[h] THEN Null ELSE s.carried_by[o]
  BY <1>2
<1> QED
  BY <1>2, <1>3, <1>5, <1>6

\* From who carries them, or from a container that their in_obj may still name.
LEMMA SplicePlaced ==
    ASSUME NEW s, NEW X, NEW M, NEW A, Placed(s, X, {}, A),
           NEW h \in Char \cup Bag \cup Corpse, NEW r \in Room,
           h \in Obj => s.held[h] \subseteq M,
           NEW t, t = Splice(s, h, r)
    PROVE  Placed(t, X, M, A)
<1> DEFINE Y == s.held[h]
<1>1. h \in Holder /\ h \notin Room /\ h # r /\ r \in Holder /\ r \notin Char /\ r \notin Obj
  BY Kinds
<1>2. Fields(s) /\ Typed(s) /\ Y \subseteq Obj
  BY <1>1 DEF Placed, Typed
<1>3. /\ Fields(t) /\ Typed(t)
      /\ t.live = s.live /\ t.worn = s.worn /\ t.in_obj = s.in_obj
      /\ t.held[h] = {} /\ t.held[r] = s.held[r] \cup Y
      /\ \A g \in Holder : g # h /\ g # r => t.held[g] = s.held[g]
      /\ \A o \in Obj : /\ t.in_room[o] = IF o \in Y THEN r ELSE s.in_room[o]
                        /\ t.carried_by[o] = IF o \in Y THEN Null ELSE s.carried_by[o]
  BY <1>1, <1>2, SpliceFrame
<1>4. \A o \in Y : /\ o \in s.live \ X /\ s.in_obj[o] = ContainerOf(h)
                   /\ \A g \in Holder : o \in s.held[g] => g = h
  BY <1>1 DEF Placed, ListsTrue
<1> HIDE DEF Y
<1>5. /\ t.held[h] = {} /\ t.held[r] = s.held[r] \cup Y
      /\ \A g \in Holder : g # h /\ g # r => t.held[g] = s.held[g]
  BY <1>1, <1>3
<1>6. ListsTrue(t, X, M, A)
  <2> SUFFICES ASSUME NEW g \in Holder, NEW o \in t.held[g]
               PROVE  /\ o \in t.live \ X
                      /\ t.in_room[o] = RoomOf(g)
                      /\ o \notin M => t.carried_by[o] = BearerOf(g) /\ t.in_obj[o] = ContainerOf(g)
                      /\ g \in Obj => g \in t.live
                      /\ g \in Char => g \in A
                      /\ \A e \in Holder : o \in t.held[e] => e = g
    BY DEF ListsTrue
  <2>1. g # h
    BY <1>5
  <2>2. CASE o \in Y
    <3>1. g = r
      BY <1>4, <1>5, <2>1, <2>2
    <3>2. \A e \in Holder : o \in t.held[e] => e = r
      BY <1>4, <1>5, <2>2
    <3>3. o \in t.live \ X /\ t.in_room[o] = r /\ t.carried_by[o] = Null
      BY <1>2, <1>3, <1>4, <2>2
    <3>4. o \notin M => t.in_obj[o] = Null
      BY <1>3, <1>4, <2>2 DEF ContainerOf, Y
    <3> QED
      BY <1>1, <3>1, <3>2, <3>3, <3>4 DEF RoomOf, BearerOf, ContainerOf
  <2>3. CASE o \notin Y
    <3>1. o \in s.held[g]
      BY <1>5, <2>1, <2>3
    <3>2. /\ o \in s.live \ X /\ s.in_room[o] = RoomOf(g)
          /\ s.carried_by[o] = BearerOf(g) /\ s.in_obj[o] = ContainerOf(g)
          /\ g \in Obj => g \in s.live
          /\ g \in Char => g \in A
          /\ \A e \in Holder : o \in s.held[e] => e = g
      BY <3>1 DEF Placed, ListsTrue
    <3>3. \A e \in Holder : o \in t.held[e] => o \in s.held[e]
      BY <1>5, <2>3
    <3>4. o \in Obj
      BY <1>2, <3>1 DEF Typed
    <3> QED
      BY <1>3, <2>3, <3>2, <3>3, <3>4
  <2> QED
    BY <2>2, <2>3
<1>7. WornTrue(t, X, A)
  <2> SUFFICES ASSUME NEW c \in Char, NEW p \in WearSlot, t.worn[c][p] # Null
               PROVE  /\ t.worn[c][p] \in t.live \ X
                      /\ c \in A
                      /\ t.carried_by[t.worn[c][p]] = c
                      /\ t.in_room[t.worn[c][p]] = NOWHERE
                      /\ t.in_obj[t.worn[c][p]] = Null
                      /\ \A g \in Holder : t.worn[c][p] \notin t.held[g]
                      /\ \A d \in Char, q \in WearSlot :
                            t.worn[d][q] = t.worn[c][p] => d = c /\ q = p
    BY DEF WornTrue
  <2> DEFINE o == t.worn[c][p]
  <2>1. o = s.worn[c][p]
    BY <1>3
  <2>2. /\ o \in s.live \ X /\ c \in A
        /\ s.carried_by[o] = c /\ s.in_room[o] = NOWHERE /\ s.in_obj[o] = Null
        /\ \A g \in Holder : o \notin s.held[g]
        /\ \A d \in Char, q \in WearSlot : s.worn[d][q] = o => d = c /\ q = p
    BY <2>1 DEF Placed, WornTrue
  <2> HIDE DEF o
  <2>3. o \in Obj /\ o \notin Y
    BY <1>1, <1>2, <2>2 DEF Typed, Y
  <2>4. \A g \in Holder : o \notin t.held[g]
    BY <1>5, <2>2, <2>3
  <2>5. /\ o \in t.live \ X /\ c \in A
        /\ t.carried_by[o] = c /\ t.in_room[o] = NOWHERE /\ t.in_obj[o] = Null
        /\ \A d \in Char, q \in WearSlot : t.worn[d][q] = o => d = c /\ q = p
    BY <1>3, <2>2, <2>3
  <2> QED
    BY <2>4, <2>5 DEF o
<1>8. NoneLost(t, X)
  <2>1. ASSUME NEW g \in Holder, NEW o \in s.held[g]
        PROVE  \E e \in Holder : o \in t.held[e]
    BY <1>1, <1>5 DEF Y
  <2> QED
    BY <1>3, <2>1 DEF Placed, NoneLost
<1>9. LooseEnds(t, X)
  BY <1>2, <1>3, <1>4 DEF Placed, LooseEnds
<1> QED
  BY <1>3, <1>6, <1>7, <1>8, <1>9 DEF Placed

LEMMA SpliceSound ==
    ASSUME NEW s, NEW X, NEW M, NEW A, NEW E, NEW D, Sound(s, X, {}, A, E, D),
           NEW h \in Holder, h \notin Room, NEW r \in Room,
           h \in Obj => s.held[h] \subseteq M,
           NEW F, E \cup {h} \subseteq F, NEW G, D \cup {r} \subseteq G,
           NEW t, t = Splice(s, h, r)
    PROVE  Sound(t, X, M, A, F, G)
<1>1. /\ Placed(s, X, {}, A) /\ Counted(s, E) /\ Lighted(s, D) /\ Fields(s) /\ Typed(s)
  BY DEF Sound, Placed
<1>2. h \in Holder /\ h \notin Room /\ h # r /\ h \in Char \cup Bag \cup Corpse /\ r \in Holder
  BY Kinds DEF Holder
<1>3. /\ t.live = s.live /\ t.loc = s.loc /\ t.worn = s.worn /\ t.in_obj = s.in_obj
      /\ t.items = s.items /\ t.lit = s.lit /\ t.light = s.light /\ t.wrong = s.wrong
      /\ t.held[h] = {} /\ t.held[r] = s.held[r] \cup s.held[h]
      /\ \A g \in Holder : g # h /\ g # r => t.held[g] = s.held[g]
  BY <1>1, <1>2, SpliceFrame
<1>4. Placed(t, X, M, A)
  BY <1>1, <1>2, SplicePlaced
<1>5. \A d \in Char : d # h => t.held[d] = s.held[d]
  BY <1>2, <1>3, Kinds
<1>6. \A q \in Room : q # r => t.held[q] = s.held[q]
  BY <1>2, <1>3, Kinds
<1>7. Counted(t, F)
  <2> SUFFICES ASSUME NEW d \in Char \ F
               PROVE  <<d, "items">> \in t.wrong \/ t.items[d] = Cardinality(t.held[d])
    BY DEF Counted
  <2>1. d \in Char \ E /\ d # h
    OBVIOUS
  <2>2. <<d, "items">> \in s.wrong \/ s.items[d] = Cardinality(s.held[d])
    BY <1>1, <2>1 DEF Counted
  <2>3. t.held[d] = s.held[d]
    BY <1>5, <2>1
  <2> QED
    BY <1>3, <2>2, <2>3
<1>8. Lighted(t, G)
  <2> SUFFICES ASSUME NEW q \in Room \ G, <<q, "light">> \notin t.wrong
               PROVE  t.light[q] >= Cardinality(Alight(t, q))
    BY DEF Lighted
  <2>1. \A x \in Obj : x \in Shown(t, q) <=> x \in Shown(s, q)
    <3>1. t.held[q] = s.held[q]
      BY <1>6
    <3> QED
      BY <1>3, <3>1 DEF Shown
  <2>2. Alight(t, q) = Alight(s, q)
    BY <1>3, <2>1, AlightShown, ObjAssumption
  <2> QED
    BY <1>1, <1>3, <2>2 DEF Lighted
<1> QED
  BY <1>3, <1>4, <1>5, <1>6, <1>7, <1>8 DEF Sound

-----------------------------------------------------------------------------
(* Extraction of a character.                                              *)

InGame(s) == {c \in Char : s.loc[c] # NOWHERE}
Whole(s) == Sound(s, {}, {}, InGame(s), {}, {})

LEMMA PlacedMore ==
    ASSUME NEW s, NEW X, NEW L, NEW A, Placed(s, X, L, A), NEW B, A \subseteq B
    PROVE  Placed(s, X, L, B)
  BY DEF Placed, ListsTrue, WornTrue

\* Who has nothing may be away.
LEMMA PlacedLess ==
    ASSUME NEW s, NEW X, NEW L, NEW A, Placed(s, X, L, A),
           NEW c \in Char, s.held[c] = {}, Bare(s, c)
    PROVE  Placed(s, X, L, A \ {c})
<1>1. ListsTrue(s, X, L, A \ {c})
  BY DEF Placed, ListsTrue
<1>2. WornTrue(s, X, A \ {c})
  BY DEF Placed, WornTrue, Bare
<1> QED
  BY <1>1, <1>2 DEF Placed

\* c is gone, and what the room is lit by has been counted.
LEMMA GoneSound ==
    ASSUME NEW s, NEW c \in Char, NEW E, E \subseteq {c}, NEW A, Sound(s, {}, {}, A, E, {}),
           NEW r \in Room, s.loc[c] = r,
           NEW s0, s0 = Splice(s, c, r), NEW s1, s1 = CharFromRoom(s0, c),
           NEW t1, t1 = Fall(s1, c, "light", r), NEW t2, t2 = Fall(t1, c, "waist", r),
           NEW t3, t3 = Fall(t2, c, "hold", r), NEW t4, t4 = Fall(t3, c, "belt", r),
           NEW gone, gone = RecountLightRoom(t4, r)
    PROVE  /\ Sound(gone, {}, {}, A \ {c}, {c}, {})
           /\ gone.loc = Upd(s.loc, c, NOWHERE) /\ gone.items = s.items
           /\ gone.wrong = s.wrong \ {<<r, "light">>} /\ gone.held[c] = {}
<1>1. c \in Char \cup Bag \cup Corpse /\ c \notin Obj /\ r # NOWHERE
  BY Kinds
<1>2. E \cup {c} = {c} /\ {} \cup {r} = {r}
  OBVIOUS
<1>3. /\ Sound(s0, {}, {}, A, {c}, {r})
      /\ s0.loc = s.loc /\ s0.items = s.items /\ s0.wrong = s.wrong /\ s0.held[c] = {}
  <2>1. c \in Obj => s.held[c] \subseteq {}
    BY <1>1
  <2>2. E \cup {c} \subseteq {c} /\ {} \cup {r} \subseteq {r}
    OBVIOUS
  <2>3. c \in Holder /\ c \notin Room /\ c # r /\ Fields(s) /\ Typed(s)
    BY Kinds DEF Sound, Placed
  <2>4. Sound(s0, {}, {}, A, {c}, {r})
    BY <2>1, <2>2, <2>3, SpliceSound
  <2> QED
    BY <2>3, <2>4, SpliceFrame
<1>4. /\ Sound(s1, {}, {}, A, {c}, {r}) /\ s1.loc = Upd(s.loc, c, NOWHERE)
      /\ s1.items = s.items /\ s1.wrong = s.wrong /\ s1.held[c] = {}
  BY <1>1, <1>3, CharFromRoomSound
<1>5. Sound(t4, {}, {}, A, {c}, {r}) /\ Undressing(s1, t4, c) /\ Bare(t4, c)
  BY <1>4, AllFall
<1>6. /\ Sound(gone, {}, {}, A, {c}, {})
      /\ Remains(t4, gone) /\ gone.worn = t4.worn
      /\ gone.wrong = t4.wrong \ {<<r, "light">>}
  <2>1. Sound(t4, {}, {}, A, {c}, {} \cup {r})
    BY <1>2, <1>5
  <2> QED
    BY <2>1, RecountSound
<1>7. gone.held[c] = {} /\ Bare(gone, c)
  BY <1>4, <1>5, <1>6 DEF Undressing, Remains, Bare
<1>8. Sound(gone, {}, {}, A \ {c}, {c}, {})
  BY <1>6, <1>7, PlacedLess DEF Sound
<1> QED
  BY <1>4, <1>5, <1>6, <1>7, <1>8 DEF Undressing, Remains

\* c's own count is right afterwards if he comes back with none, or is not held to it.
LEMMA ExtractCharSound ==
    ASSUME NEW s, NEW c \in Char, NEW E, E \subseteq {c},
           Sound(s, {}, {}, InGame(s), E, {}), s.loc[c] # NOWHERE,
           NEW awake \in Place,
           awake = NOWHERE \/ <<c, "items">> \in s.wrong \/ s.items[c] = 0,
           NEW t, t = ExtractChar(s, c, awake)
    PROVE  Whole(t)
<1> DEFINE r == s.loc[c]
           s0 == Splice(s, c, r)
           s1 == CharFromRoom(s0, c)
           t1 == Fall(s1, c, "light", r)
           t2 == Fall(t1, c, "waist", r)
           t3 == Fall(t2, c, "hold", r)
           t4 == Fall(t3, c, "belt", r)
           gone == RecountLightRoom(t4, r)
           A == InGame(s) \ {c}
<1>1. t = IF awake # NOWHERE THEN CharToRoom(gone, c, awake)
          ELSE [gone EXCEPT !.items[c] = 0, !.load[c] = 0, !.wrong = Righted(gone, c)]
  BY DEF ExtractChar, EachSlot
<1>2. r \in Room /\ s.loc \in [Char -> Place]
  BY DEF Sound, Placed, Typed, Place
<1>a. /\ s.loc[c] = r /\ s0 = Splice(s, c, r) /\ s1 = CharFromRoom(s0, c)
      /\ t1 = Fall(s1, c, "light", r) /\ t2 = Fall(t1, c, "waist", r)
      /\ t3 = Fall(t2, c, "hold", r) /\ t4 = Fall(t3, c, "belt", r)
      /\ gone = RecountLightRoom(t4, r) /\ A = InGame(s) \ {c}
  OBVIOUS
<1> HIDE DEF r, s0, s1, t1, t2, t3, t4, gone, A
<1>3. /\ Sound(gone, {}, {}, A, {c}, {})
      /\ gone.loc = Upd(s.loc, c, NOWHERE) /\ gone.items = s.items
      /\ gone.wrong = s.wrong \ {<<r, "light">>} /\ gone.held[c] = {}
  BY <1>2, <1>a, GoneSound, SMTT(30)
<1>4. /\ Placed(gone, {}, {}, A) /\ Counted(gone, {c}) /\ Lighted(gone, {})
      /\ Fields(gone) /\ Typed(gone)
  BY <1>3 DEF Sound, Placed
<1>5. Cardinality(gone.held[c]) = 0
  BY <1>3, FS_EmptySet
<1>6. CASE awake # NOWHERE
  <2>1. t = CharToRoom(gone, c, awake) /\ awake \in Room
    BY <1>1, <1>6 DEF Place
  <2>2. gone.loc[c] = NOWHERE
    BY <1>2, <1>3 DEF Upd
  <2>3. <<c, "items">> \in gone.wrong \/ gone.items[c] = Cardinality(gone.held[c])
    <3>1. <<c, "items">> # <<r, "light">>
      OBVIOUS
    <3> QED
      BY <1>3, <1>5, <1>6, <3>1
  <2>4. Counted(gone, {})
    BY <1>4, <2>3 DEF Counted
  <2>5. Sound(gone, {}, {}, A, {}, {})
    BY <1>4, <2>4 DEF Sound
  <2>6. Sound(t, {}, {}, A, {}, {}) /\ t.loc = Upd(gone.loc, c, awake)
    BY <2>1, <2>2, <2>5, CharToRoomSound
  <2>7. A \subseteq InGame(t)
    BY <1>2, <1>3, <2>6 DEF InGame, Upd, A
  <2> QED
    BY <2>6, <2>7, PlacedMore DEF Sound, Whole
<1>7. CASE awake = NOWHERE
  <2>1. /\ Fields(t) /\ t.live = gone.live /\ t.held = gone.held /\ t.worn = gone.worn
        /\ t.in_room = gone.in_room /\ t.carried_by = gone.carried_by
        /\ t.in_obj = gone.in_obj /\ t.loc = gone.loc /\ t.lit = gone.lit /\ t.light = gone.light
        /\ t.items = Upd(gone.items, c, 0) /\ t.wrong = {w \in gone.wrong : w[1] # c}
    BY <1>1, <1>4, <1>7 DEF Fields, Upd, Righted
  <2>2. Typed(t)
    BY <1>4, <2>1 DEF Typed, Upd
  <2>3. Placed(t, {}, {}, A)
    BY <1>4, <2>1, <2>2, Unmoved
  <2>4. Counted(t, {})
    <3> SUFFICES ASSUME NEW d \in Char, <<d, "items">> \notin t.wrong
                 PROVE  t.items[d] = Cardinality(t.held[d])
      BY DEF Counted
    <3>1. CASE d = c
      BY <1>4, <1>5, <2>1, <3>1 DEF Typed, Upd
    <3>2. CASE d # c
      <4>1. <<d, "items">> \notin gone.wrong /\ t.items[d] = gone.items[d]
        BY <1>4, <2>1, <3>2 DEF Typed, Upd
      <4> QED
        BY <1>4, <2>1, <3>2, <4>1 DEF Counted
    <3> QED
      BY <3>1, <3>2
  <2>5. NoBrighter(gone, t)
    <3>1. \A q \in Room : <<q, "light">> \in gone.wrong => <<q, "light">> \in t.wrong
      BY <2>1, Kinds
    <3>2. ASSUME NEW q \in Room, NEW x \in Shown(t, q)
          PROVE  x \in Shown(gone, q)
      BY <2>1 DEF Shown
    <3> QED
      BY <2>1, <3>1, <3>2 DEF NoBrighter
  <2>6. Lighted(t, {})
    BY <1>4, <2>5, LightedLess
  <2>7. A \subseteq InGame(t)
    BY <1>2, <1>3, <2>1 DEF InGame, Upd, A
  <2> QED
    BY <2>3, <2>4, <2>6, <2>7, PlacedMore DEF Sound, Whole
<1> QED
  BY <1>6, <1>7

LEMMA ScatterFrame ==
    ASSUME NEW s, Fields(s), Typed(s), NEW h \in Holder, NEW r \in Room, h # r,
           NEW u, u = Splice(s, h, r), NEW t, t = Scatter(s, h, r),
           NEW Y, Y = {o \in s.held[h] : Shine(s, o) = 1}
    PROVE  /\ Fields(t) /\ Typed(t)
           /\ t.live = s.live /\ t.loc = s.loc /\ t.worn = s.worn /\ t.in_obj = s.in_obj
           /\ t.items = s.items /\ t.lit = s.lit /\ t.wrong = s.wrong
           /\ t.held = u.held /\ t.in_room = u.in_room /\ t.carried_by = u.carried_by
           /\ t.light = Upd(s.light, r, s.light[r] + Cardinality(Y))
           /\ IsFiniteSet(Y) /\ Cardinality(Y) \in Nat
<1>1. /\ Fields(u) /\ Typed(u) /\ u.live = s.live /\ u.loc = s.loc /\ u.worn = s.worn
      /\ u.in_obj = s.in_obj /\ u.items = s.items /\ u.lit = s.lit /\ u.wrong = s.wrong
      /\ u.light = s.light
  BY SpliceFrame
<1>2. IsFiniteSet(Y) /\ Cardinality(Y) \in Nat
  BY HeldFinite, FS_Subset, FS_CardinalityType
<1>3. t = [u EXCEPT !.light[r] = @ + Cardinality(Y)]
  BY DEF Scatter
<1>4. /\ Fields(t)
      /\ t.live = s.live /\ t.loc = s.loc /\ t.worn = s.worn /\ t.in_obj = s.in_obj
      /\ t.items = s.items /\ t.lit = s.lit /\ t.wrong = s.wrong
      /\ t.held = u.held /\ t.in_room = u.in_room /\ t.carried_by = u.carried_by
      /\ t.light = Upd(s.light, r, s.light[r] + Cardinality(Y))
  BY <1>1, <1>3 DEF Fields, Upd
<1>5. Typed(t)
  BY <1>1, <1>2, <1>4 DEF Typed, Upd
<1> QED
  BY <1>2, <1>4, <1>5

LEMMA ScatterSound ==
    ASSUME NEW s, NEW X, NEW M, NEW A, NEW E, NEW D, Sound(s, X, {}, A, E, D),
           NEW h \in Holder, h \notin Room, NEW r \in Room,
           h \in Obj => s.held[h] \subseteq M,
           NEW F, E \cup {h} \subseteq F,
           NEW t, t = Scatter(s, h, r)
    PROVE  Sound(t, X, M, A, F, D)
<1> DEFINE u == Splice(s, h, r)
           Y == {o \in s.held[h] : Shine(s, o) = 1}
           n == Cardinality(Y)
<1>1. /\ Placed(s, X, {}, A) /\ Counted(s, E) /\ Lighted(s, D) /\ Fields(s) /\ Typed(s)
      /\ h # r
  BY DEF Sound, Placed
<1>2. Sound(u, X, M, A, F, D \cup {r})
  BY SpliceSound
<1>3. /\ u.held[r] = s.held[r] \cup s.held[h] /\ u.lit = s.lit /\ u.light = s.light
      /\ u.live = s.live /\ u.loc = s.loc /\ u.worn = s.worn /\ u.in_obj = s.in_obj
      /\ u.items = s.items /\ u.wrong = s.wrong
  BY <1>1, SpliceFrame
<1> HIDE DEF u
<1>4. /\ Fields(t) /\ Typed(t)
      /\ t.live = s.live /\ t.loc = s.loc /\ t.worn = s.worn /\ t.in_obj = s.in_obj
      /\ t.items = s.items /\ t.lit = s.lit /\ t.wrong = s.wrong
      /\ t.held = u.held /\ t.in_room = u.in_room /\ t.carried_by = u.carried_by
      /\ t.light = Upd(s.light, r, s.light[r] + n)
      /\ IsFiniteSet(Y) /\ n \in Nat
  BY <1>1, ScatterFrame DEF u
<1>5. Placed(u, X, M, A) /\ Counted(u, F) /\ Lighted(u, D \cup {r})
  BY <1>2 DEF Sound
<1>6. Placed(t, X, M, A)
  BY <1>3, <1>4, <1>5, Unmoved
<1>7. Counted(t, F)
  BY <1>3, <1>4, <1>5, CountedSame
<1>8. Lighted(t, D)
  <2> SUFFICES ASSUME NEW q \in Room \ D, <<q, "light">> \notin t.wrong
               PROVE  t.light[q] >= Cardinality(Alight(t, q))
    BY DEF Lighted
  <2>1. CASE q # r
    <3>1. t.light[q] = u.light[q]
      BY <1>1, <1>3, <1>4, <2>1 DEF Upd, Typed
    <3>2. \A x \in Obj : x \in Shown(t, q) <=> x \in Shown(u, q)
      BY <1>3, <1>4 DEF Shown
    <3>3. Alight(t, q) = Alight(u, q)
      <4>1. t.lit = u.lit
        BY <1>3, <1>4
      <4> QED
        BY <3>2, <4>1, AlightShown, ObjAssumption
    <3> QED
      BY <1>3, <1>4, <1>5, <2>1, <3>1, <3>3 DEF Lighted
  <2>2. CASE q = r
    <3>1. /\ s.light[q] >= Cardinality(Alight(s, q)) /\ s.light[q] \in Int
          /\ Cardinality(Alight(s, q)) \in Nat /\ Cardinality(Alight(t, q)) \in Nat
          /\ IsFiniteSet(Alight(s, q)) /\ IsFiniteSet(Alight(t, q)) /\ Lamp \subseteq Obj
      BY <1>1, <1>4, AlightFinite, ObjAssumption DEF Lighted, Typed
    <3>2. Alight(t, q) \subseteq Alight(s, q) \cup Y
      <4>1. ASSUME NEW o \in Alight(t, q)
            PROVE  o \in Alight(s, q) \cup Y
        <5>1. o \in Lamp /\ s.lit[o] # 0 /\ o \in Shown(t, q)
          BY <1>4, AlightShown
        <5>2. o \in s.held[h] \/ o \in Shown(s, q)
          BY <1>3, <1>4, <2>2, <5>1 DEF Shown
        <5>3. Shine(s, o) = 1
          BY <5>1 DEF Shine
        <5> QED
          BY <5>1, <5>2, <5>3, AlightShown
      <4> QED
        BY <4>1
    <3> HIDE DEF Y
    <3>3. /\ IsFiniteSet(Alight(s, q) \cup Y)
          /\ Cardinality(Alight(s, q) \cup Y)
               = Cardinality(Alight(s, q)) + Cardinality(Y) - Cardinality(Alight(s, q) \cap Y)
      BY <1>4, <3>1, FS_Union
    <3>4. Cardinality(Alight(s, q) \cap Y) \in Nat
      BY <3>1, FS_Intersection, FS_CardinalityType
    <3>5. Cardinality(Alight(t, q)) <= Cardinality(Alight(s, q) \cup Y)
      BY <3>2, <3>3, FS_Subset
    <3>6. t.light[q] = s.light[q] + n
      BY <1>1, <1>4, <2>2 DEF Upd, Typed
    <3> QED
      BY <1>4, <3>1, <3>3, <3>4, <3>5, <3>6
  <2> QED
    BY <2>1, <2>2
<1> QED
  BY <1>6, <1>7, <1>8 DEF Sound

LEMMA DropSound ==
    ASSUME NEW s, NEW c \in Char, Whole(s), s.loc[c] # NOWHERE,
           NEW t, t = RemoveAndDropObject(s, c)
    PROVE  Whole(t) /\ t.loc = s.loc /\ <<c, "items">> \in t.wrong
<1> DEFINE r == s.loc[c]
           A == InGame(s)
           v == Scatter(s, c, r)
           W == {c} \X {"items", "weight"}
           u == [v EXCEPT !.wrong = @ \cup W]
           t1 == Fall(u, c, "light", r)
           t2 == Fall(t1, c, "waist", r)
           t3 == Fall(t2, c, "hold", r)
<1>1. t = Fall(t3, c, "belt", r)
  BY DEF RemoveAndDropObject, EachSlot
<1>2. /\ Sound(s, {}, {}, A, {}, {}) /\ Fields(s) /\ Typed(s) /\ r \in Room
      /\ c \in Holder /\ c \notin Room /\ c \notin Obj /\ c # r
  BY Kinds DEF Whole, Sound, Placed, Typed, Place
<1>3. <<c, "items">> \in W
  OBVIOUS
<1>a. v = Scatter(s, c, r) /\ t1 = Fall(u, c, "light", r) /\ t2 = Fall(t1, c, "waist", r)
      /\ t3 = Fall(t2, c, "hold", r) /\ u = [v EXCEPT !.wrong = @ \cup W]
  OBVIOUS
<1> HIDE DEF r, A, v, W, u, t1, t2, t3
<1>4. Sound(v, {}, {}, A, {c}, {})
  <2>1. c \in Obj => s.held[c] \subseteq {}
    BY <1>2
  <2>2. {} \cup {c} \subseteq {c}
    OBVIOUS
  <2> QED
    BY <1>2, <1>a, <2>1, <2>2, ScatterSound
<1>5. Fields(v) /\ Typed(v) /\ v.loc = s.loc
  <2> DEFINE w == Splice(s, c, r)
             Y == {o \in s.held[c] : Shine(s, o) = 1}
  <2>1. w = Splice(s, c, r) /\ Y = {o \in s.held[c] : Shine(s, o) = 1}
    OBVIOUS
  <2> HIDE DEF w, Y
  <2> QED
    BY <1>2, <1>a, <2>1, ScatterFrame
<1>6. /\ Fields(u) /\ Remains(v, u) /\ u.worn = v.worn /\ u.carried_by = v.carried_by
      /\ u.lit = v.lit /\ u.light = v.light /\ u.wrong = v.wrong \cup W
  BY <1>5, <1>a DEF Fields, Remains
<1>7. Typed(u)
  BY <1>5, <1>6 DEF Typed, Remains
<1>8. Sound(u, {}, {}, A, {c}, {})
  BY <1>4, <1>6, <1>7, UnmovedSound
<1>9. Sound(u, {}, {}, A, {}, {})
  BY <1>3, <1>6, <1>8 DEF Sound, Counted
<1>10. Sound(t, {}, {}, A, {}, {}) /\ Undressing(u, t, c)
  BY <1>1, <1>2, <1>9, <1>a, AllFall
<1>11. t.loc = s.loc /\ <<c, "items">> \in t.wrong
  BY <1>3, <1>5, <1>6, <1>10 DEF Undressing, Remains
<1> QED
  BY <1>10, <1>11 DEF Whole, A, InGame

-----------------------------------------------------------------------------
(* A corpse k, while what its list holds does not point to it yet.         *)

Filling(s, k, A, E) == Sound(s, {k}, s.held[k], A, E, {})

LEMMA PackSound ==
    ASSUME NEW s, NEW A, NEW E, NEW k \in Bag \cup Corpse, Filling(s, k, A, E),
           NEW c \in Char, NEW p \in WearSlot, NEW t, t = Pack(s, c, p, k)
    PROVE  Filling(t, k, A, E) /\ Undressing(s, t, c) /\ t.worn[c][p] = Null
<1>1. CASE s.worn[c][p] = Null
  BY <1>1 DEF Pack, Undressing
<1>2. CASE s.worn[c][p] # Null
  <2> DEFINE o == s.worn[c][p]
             u == DetachEquipment(s, c, p)
             L == s.held[k]
             M == L \cup {o}
             X == {k}
             Z == X \cup {o}
             D == {}
  <2>1. t = ObjToObj(u, o, k)
    BY <1>2 DEF Pack
  <2>2. /\ Placed(s, X, L, A) /\ Sound(s, X, L, A, E, D)
        /\ s.worn \in [Char -> [WearSlot -> Obj \cup {Null}]]
        /\ s.held \in [Holder -> SUBSET Obj]
        /\ k \in s.live /\ k \in Holder /\ k \notin Char
    BY Kinds DEF Filling, Sound, Placed, Typed, LooseEnds
  <2>3. o # k
    BY <1>2, <2>2 DEF Placed, WornTrue
  <2>a. o = s.worn[c][p] /\ o # Null /\ u = DetachEquipment(s, c, p) /\ L = s.held[k]
        /\ L \subseteq M /\ M = L \cup {o} /\ o \in M /\ Z = X \cup {o} /\ o \in Z
    BY <1>2
  <2>5. Z \ {o} = {k}
    BY <2>3
  <2> HIDE DEF o, u, L, M, X, Z, D
  <2>4. /\ Sound(u, Z, L, A, E, D) /\ Remains(s, u) /\ u.wrong = s.wrong
        /\ u.worn = Upd(s.worn, c, Upd(s.worn[c], p, Null))
    <3>1. /\ Sound(u, X \cup {o}, L, A, E, D) /\ Remains(s, u) /\ u.wrong = s.wrong
          /\ u.worn = Upd(s.worn, c, Upd(s.worn[c], p, Null))
      <4>1. Sound(s, X, L, A, E, D) /\ o = s.worn[c][p] /\ o # Null /\ u = DetachEquipment(s, c, p)
        BY <2>2, <2>a
      <4> QED
        BY <4>1, DetachSound
    <3> QED
      BY <2>a, <3>1
  <2>6. k \in u.live
    BY <2>2, <2>4 DEF Remains
  <2>7. /\ Sound(t, Z \ {o}, M, A, E, D) /\ t.loc = u.loc /\ t.worn = u.worn
        /\ t.wrong = u.wrong /\ t.items = u.items
        /\ t.held = Upd(u.held, k, u.held[k] \cup {o})
    <3>1. Sound(u, Z, L, A, E, D) /\ L \subseteq M /\ o \in Z /\ o \in M
      BY <2>4, <2>a
    <3>2. Sound(t, Z \ {o}, M, A, E, D)
      BY <2>1, <2>6, <3>1, ToObjSound
    <3>3. Fields(u) /\ Typed(u) /\ o \in Obj
      BY <2>2, <2>4, <2>a DEF Sound, Placed
    <3>4. /\ t.loc = u.loc /\ t.worn = u.worn
          /\ t.wrong = u.wrong /\ t.items = u.items
          /\ t.held = Upd(u.held, k, u.held[k] \cup {o})
      BY <2>1, <2>6, <3>3, ToObjFrame
    <3> QED
      BY <3>2, <3>4
  <2>8. t.held[k] = M /\ \A d \in Char : t.held[d] = s.held[d]
    BY <2>2, <2>4, <2>7, <2>a, Kinds DEF Remains, Upd
  <2>9. \A q \in WearSlot : t.worn[c][q] = IF q = p THEN Null ELSE s.worn[c][q]
    BY <2>2, <2>4, <2>7 DEF Upd
  <2>10. Filling(t, k, A, E)
    BY <2>5, <2>7, <2>8 DEF Filling, D
  <2> QED
    BY <2>4, <2>7, <2>8, <2>9, <2>10 DEF Undressing, Remains
<1> QED
  BY <1>1, <1>2

LEMMA AllPacked ==
    ASSUME NEW s, NEW A, NEW E, NEW k \in Bag \cup Corpse, Filling(s, k, A, E), NEW c \in Char,
           NEW t1, t1 = Pack(s, c, "light", k), NEW t2, t2 = Pack(t1, c, "waist", k),
           NEW t3, t3 = Pack(t2, c, "hold", k), NEW t, t = Pack(t3, c, "belt", k)
    PROVE  Filling(t, k, A, E) /\ Undressing(s, t, c)
<1>1. "light" \in WearSlot /\ "waist" \in WearSlot /\ "hold" \in WearSlot /\ "belt" \in WearSlot
  BY DEF WearSlot
<1>2. Filling(t1, k, A, E) /\ Undressing(s, t1, c)
  BY <1>1, PackSound
<1>3. Filling(t2, k, A, E) /\ Undressing(t1, t2, c)
  BY <1>1, <1>2, PackSound
<1>4. Filling(t3, k, A, E) /\ Undressing(t2, t3, c)
  BY <1>1, <1>3, PackSound
<1>5. Filling(t, k, A, E) /\ Undressing(t3, t, c)
  BY <1>1, <1>4, PackSound
<1>6. /\ t.loc = s.loc /\ t.wrong = s.wrong /\ t.items = s.items
      /\ \A d \in Char : t.held[d] = s.held[d]
  BY <1>2, <1>3, <1>4, <1>5 DEF Undressing
<1>7. \A q \in WearSlot : s.worn[c][q] = Null => t.worn[c][q] = Null
  BY <1>2, <1>3, <1>4, <1>5 DEF Undressing
<1> QED
  BY <1>5, <1>6, <1>7 DEF Undressing

\* What Unpacked moves, and from where.
BagsIn(s, k) == Bag \cap s.held[k]
Inside(s, k) == UNION {s.held[b] : b \in BagsIn(s, k)}

LEMMA UnpackedFrame ==
    ASSUME NEW s, Fields(s), Typed(s), NEW k \in Corpse, NEW t, t = Unpacked(s, k)
    PROVE  /\ Fields(t) /\ Typed(t)
           /\ t.live = s.live /\ t.loc = s.loc /\ t.worn = s.worn /\ t.in_room = s.in_room
           /\ t.carried_by = s.carried_by /\ t.items = s.items /\ t.lit = s.lit
           /\ t.light = s.light /\ t.wrong = s.wrong
           /\ \A h \in BagsIn(s, k) : t.held[h] = {}
           /\ t.held[k] = s.held[k] \cup Inside(s, k)
           /\ \A h \in Holder : h \notin BagsIn(s, k) /\ h # k => t.held[h] = s.held[h]
           /\ \A o \in Obj : t.in_obj[o] = IF o \in Inside(s, k) THEN k ELSE s.in_obj[o]
           /\ k \notin BagsIn(s, k) /\ BagsIn(s, k) \subseteq Holder
<1> DEFINE bags == BagsIn(s, k)
           inside == Inside(s, k)
<1>1. /\ Fields(t)
      /\ t.live = s.live /\ t.loc = s.loc /\ t.worn = s.worn /\ t.in_room = s.in_room
      /\ t.carried_by = s.carried_by /\ t.items = s.items /\ t.lit = s.lit
      /\ t.light = s.light /\ t.wrong = s.wrong
      /\ t.held = [h \in Holder |-> IF h \in bags THEN {}
                                    ELSE IF h = k THEN s.held[k] \cup inside ELSE s.held[h]]
      /\ t.in_obj = [o \in Obj |-> IF o \in inside THEN k ELSE s.in_obj[o]]
  BY DEF Unpacked, Fields, BagsIn, Inside
<1>2. /\ \A h \in Holder : s.held[h] \subseteq Obj
      /\ k \notin bags /\ bags \subseteq Holder /\ k \in Holder
  BY Kinds, ObjAssumption DEF Typed, BagsIn
<1>3. inside \subseteq Obj
  BY <1>2 DEF Inside
<1> HIDE DEF bags, inside
<1>4. t.held \in [Holder -> SUBSET Obj] /\ t.in_obj \in [Obj -> Bag \cup Corpse \cup {Null}]
  BY <1>1, <1>2, <1>3 DEF Typed
<1>5. Typed(t)
  BY <1>1, <1>4 DEF Typed
<1>6. /\ \A h \in bags : t.held[h] = {}
      /\ t.held[k] = s.held[k] \cup inside
      /\ \A h \in Holder : h \notin bags /\ h # k => t.held[h] = s.held[h]
  BY <1>1, <1>2
<1> QED
  BY <1>1, <1>2, <1>5, <1>6 DEF bags, inside

LEMMA UnpackedPlaced ==
    ASSUME NEW s, NEW k \in Corpse, NEW A, Placed(s, {k}, s.held[k], A),
           NEW t, t = Unpacked(s, k)
    PROVE  Placed(t, {k}, t.held[k], A)
<1> DEFINE bags == BagsIn(s, k)
           inside == Inside(s, k)
<1>1. Fields(s) /\ Typed(s) /\ k \in Holder /\ k \in Obj /\ k \notin Room /\ k \notin Char
      /\ k \in s.live
  BY Kinds DEF Placed, LooseEnds
<1>2. /\ \A o : o \in inside <=> \E b \in bags : o \in s.held[b]
      /\ bags \subseteq Bag
  BY DEF Inside, BagsIn
<1> HIDE DEF bags, inside
<1>3. /\ Fields(t) /\ Typed(t) /\ t.live = s.live /\ t.worn = s.worn /\ t.in_room = s.in_room
      /\ t.carried_by = s.carried_by
      /\ \A h \in bags : t.held[h] = {}
      /\ t.held[k] = s.held[k] \cup inside
      /\ \A h \in Holder : h \notin bags /\ h # k => t.held[h] = s.held[h]
      /\ \A o \in Obj : t.in_obj[o] = IF o \in inside THEN k ELSE s.in_obj[o]
      /\ k \notin bags /\ bags \subseteq Holder
  BY <1>1, UnpackedFrame DEF bags, inside
<1>4. /\ t.held[k] = s.held[k] \cup inside
      /\ \A h \in Holder \ (bags \cup {k}) : t.held[h] = s.held[h]
      /\ \A h \in bags : t.held[h] = {}
  BY <1>1, <1>3
<1>5. \A h \in Holder : \A o \in s.held[h] :
        /\ o \in s.live /\ o # k /\ o \in Obj /\ s.in_room[o] = RoomOf(h)
        /\ o \notin s.held[k] => s.carried_by[o] = BearerOf(h) /\ s.in_obj[o] = ContainerOf(h)
        /\ h \in Obj => h \in s.live
        /\ h \in Char => h \in A
        /\ \A g \in Holder : o \in s.held[g] => g = h
  BY DEF Placed, ListsTrue, Typed
<1>6. ListsTrue(t, {k}, t.held[k], A)
  <2> SUFFICES ASSUME NEW g \in Holder, NEW o \in t.held[g]
               PROVE  /\ o \in t.live \ {k}
                      /\ t.in_room[o] = RoomOf(g)
                      /\ o \notin t.held[k] => t.carried_by[o] = BearerOf(g) /\ t.in_obj[o] = ContainerOf(g)
                      /\ g \in Obj => g \in t.live
                      /\ g \in Char => g \in A
                      /\ \A e \in Holder : o \in t.held[e] => e = g
    BY DEF ListsTrue
  <2>1. g \notin bags
    BY <1>4
  <2>2. CASE g = k
    <3>1. PICK h \in bags \cup {k} : o \in s.held[h]
      BY <1>2, <1>4, <2>2
    <3>2. h \in Holder /\ h \notin Room
      BY <1>1, <1>2, <1>3, <3>1, Kinds
    <3>3. o \in t.live \ {k} /\ t.in_room[o] = RoomOf(g)
      BY <1>1, <1>3, <1>5, <2>2, <3>1, <3>2 DEF RoomOf
    <3>4. \A e \in Holder : o \in t.held[e] => e = g
      BY <1>3, <1>4, <1>5, <2>2, <3>1, <3>2
    <3> QED
      BY <1>1, <1>3, <2>2, <3>3, <3>4
  <2>3. CASE g # k
    <3>1. o \in s.held[g]
      BY <1>4, <2>1, <2>3
    <3>2. o \notin inside /\ o \notin s.held[k]
      BY <1>1, <1>2, <1>3, <1>5, <2>1, <2>3, <3>1
    <3>3. \A e \in Holder : o \in t.held[e] => e = g
      BY <1>4, <1>5, <3>1, <3>2
    <3> QED
      BY <1>3, <1>5, <3>1, <3>2, <3>3
  <2> QED
    BY <2>2, <2>3
<1>7. WornTrue(t, {k}, A)
  <2> SUFFICES ASSUME NEW c \in Char, NEW p \in WearSlot, t.worn[c][p] # Null
               PROVE  /\ t.worn[c][p] \in t.live \ {k}
                      /\ c \in A
                      /\ t.carried_by[t.worn[c][p]] = c
                      /\ t.in_room[t.worn[c][p]] = NOWHERE
                      /\ t.in_obj[t.worn[c][p]] = Null
                      /\ \A g \in Holder : t.worn[c][p] \notin t.held[g]
                      /\ \A d \in Char, q \in WearSlot :
                            t.worn[d][q] = t.worn[c][p] => d = c /\ q = p
    BY DEF WornTrue
  <2> DEFINE o == t.worn[c][p]
  <2>1. o = s.worn[c][p]
    BY <1>3
  <2>2. /\ o \in s.live \ {k} /\ c \in A
        /\ s.carried_by[o] = c /\ s.in_room[o] = NOWHERE /\ s.in_obj[o] = Null
        /\ \A g \in Holder : o \notin s.held[g]
        /\ \A d \in Char, q \in WearSlot : s.worn[d][q] = o => d = c /\ q = p
    BY <2>1 DEF Placed, WornTrue
  <2> HIDE DEF o
  <2>3. o \in Obj /\ o \notin inside
    BY <1>1, <1>2, <1>3, <2>2 DEF Typed
  <2>4. \A g \in Holder : o \notin t.held[g]
    BY <1>1, <1>4, <2>2, <2>3
  <2>5. /\ o \in t.live \ {k} /\ c \in A
        /\ t.carried_by[o] = c /\ t.in_room[o] = NOWHERE /\ t.in_obj[o] = Null
        /\ \A d \in Char, q \in WearSlot : t.worn[d][q] = o => d = c /\ q = p
    BY <1>3, <2>2, <2>3
  <2> QED
    BY <2>4, <2>5 DEF o
<1>8. NoneLost(t, {k})
  <2>1. ASSUME NEW g \in Holder, NEW o \in s.held[g]
        PROVE  \E e \in Holder : o \in t.held[e]
    <3>1. CASE g \in bags
      BY <1>1, <1>2, <1>4, <3>1
    <3>2. CASE g \notin bags
      BY <1>1, <1>4, <3>2
    <3> QED
      BY <3>1, <3>2
  <2> QED
    BY <1>3, <2>1 DEF Placed, NoneLost
<1>9. LooseEnds(t, {k})
  <2>1. \A o \in inside : o \in s.live /\ o # k
    BY <1>2, <1>3, <1>5
  <2> QED
    BY <1>1, <1>3, <2>1 DEF Placed, LooseEnds
<1> QED
  BY <1>3, <1>6, <1>7, <1>8, <1>9 DEF Placed

LEMMA UnpackedSound ==
    ASSUME NEW s, NEW k \in Corpse, NEW A, NEW E, Filling(s, k, A, E), NEW t, t = Unpacked(s, k)
    PROVE  /\ Filling(t, k, A, E) /\ t.loc = s.loc
           /\ \A d \in Char : t.held[d] = s.held[d]
<1> DEFINE bags == BagsIn(s, k)
<1>a. bags \subseteq Bag
  BY DEF BagsIn
<1>1. /\ Placed(s, {k}, s.held[k], A) /\ Counted(s, E) /\ Lighted(s, {}) /\ Fields(s) /\ Typed(s)
      /\ k \notin Room /\ k \notin Char
  BY Kinds DEF Filling, Sound, Placed
<1> HIDE DEF bags
<1>2. /\ t.loc = s.loc /\ t.worn = s.worn /\ t.items = s.items /\ t.lit = s.lit
      /\ t.light = s.light /\ t.wrong = s.wrong
      /\ \A h \in Holder : h \notin bags /\ h # k => t.held[h] = s.held[h]
  BY <1>1, UnpackedFrame DEF bags
<1>3. \A h \in Room \cup Char : t.held[h] = s.held[h]
  <2>1. \A h \in Room \cup Char : h \in Holder /\ h \notin bags /\ h # k
    BY <1>1, <1>a, Kinds
  <2> QED
    BY <1>2, <2>1
<1>4. Placed(t, {k}, t.held[k], A)
  BY <1>1, UnpackedPlaced
<1>5. Counted(t, E)
  BY <1>1, <1>2, <1>3, CountedSame
<1>6. ASSUME NEW r \in Room, NEW x \in Shown(t, r)
      PROVE  x \in Shown(s, r)
  BY <1>2, <1>3 DEF Shown
<1>7. \A r \in Room : Shown(t, r) \subseteq Shown(s, r)
  BY <1>6
<1>8. Lighted(t, {})
  BY <1>1, <1>2, <1>7, LightedSame
<1> QED
  BY <1>2, <1>3, <1>4, <1>5, <1>8 DEF Filling, Sound

\* c's list becomes that of a corpse k, new from the heap.
Emptied(s, c, k, w) == [s EXCEPT !.live = @ \cup {k}, !.weight[k] = w,
                                 !.held[k] = s.held[c], !.held[c] = {}]

LEMMA EmptiedFrame ==
    ASSUME NEW s, Fields(s), Typed(s), NEW c \in Char, NEW k \in Corpse, NEW w,
           NEW t, t = Emptied(s, c, k, w)
    PROVE  /\ Fields(t) /\ Typed(t)
           /\ t.live = s.live \cup {k} /\ t.loc = s.loc /\ t.worn = s.worn
           /\ t.in_room = s.in_room /\ t.carried_by = s.carried_by /\ t.in_obj = s.in_obj
           /\ t.items = s.items /\ t.lit = s.lit /\ t.light = s.light /\ t.wrong = s.wrong
           /\ t.held[k] = s.held[c] /\ t.held[c] = {}
           /\ \A h \in Holder : h # k /\ h # c => t.held[h] = s.held[h]
<1>1. k \in Holder /\ c \in Holder /\ k # c /\ k \in Obj /\ s.held \in [Holder -> SUBSET Obj]
  BY Kinds DEF Typed
<1>2. /\ Fields(t)
      /\ t.live = s.live \cup {k} /\ t.loc = s.loc /\ t.worn = s.worn
      /\ t.in_room = s.in_room /\ t.carried_by = s.carried_by /\ t.in_obj = s.in_obj
      /\ t.items = s.items /\ t.lit = s.lit /\ t.light = s.light /\ t.wrong = s.wrong
      /\ t.held = Upd(Upd(s.held, k, s.held[c]), c, {})
  BY DEF Emptied, Fields, Upd
<1>3. /\ t.held \in [Holder -> SUBSET Obj]
      /\ t.held[k] = s.held[c] /\ t.held[c] = {}
      /\ \A h \in Holder : h # k /\ h # c => t.held[h] = s.held[h]
  BY <1>1, <1>2 DEF Upd
<1>4. Typed(t)
  BY <1>1, <1>2, <1>3 DEF Typed
<1> QED
  BY <1>2, <1>3, <1>4

LEMMA EmptiedSound ==
    ASSUME NEW s, NEW A, Sound(s, {}, {}, A, {}, {}), NEW c \in Char,
           NEW k \in Corpse, k \notin s.live, NEW w, NEW t, t = Emptied(s, c, k, w)
    PROVE  Filling(t, k, A, {c})
<1>1. /\ Placed(s, {}, {}, A) /\ Counted(s, {}) /\ Lighted(s, {}) /\ Fields(s) /\ Typed(s)
      /\ k \in Holder /\ c \in Holder /\ k # c /\ k \in Obj /\ k \notin Char /\ k \notin Room
      /\ c \notin Room
  BY Kinds DEF Sound, Placed
<1>2. /\ Fields(t) /\ Typed(t)
      /\ t.live = s.live \cup {k} /\ t.loc = s.loc /\ t.worn = s.worn
      /\ t.in_room = s.in_room /\ t.carried_by = s.carried_by /\ t.in_obj = s.in_obj
      /\ t.items = s.items /\ t.lit = s.lit /\ t.light = s.light /\ t.wrong = s.wrong
      /\ t.held[k] = s.held[c] /\ t.held[c] = {}
      /\ \A h \in Holder : h # k /\ h # c => t.held[h] = s.held[h]
  BY <1>1, EmptiedFrame
<1>3. \A h \in Holder : \A o \in s.held[h] :
        /\ o \in s.live /\ o # k /\ s.in_room[o] = RoomOf(h)
        /\ s.carried_by[o] = BearerOf(h) /\ s.in_obj[o] = ContainerOf(h)
        /\ h \in Obj => h \in s.live
        /\ h \in Char => h \in A
        /\ \A g \in Holder : o \in s.held[g] => g = h
  BY <1>1 DEF Placed, ListsTrue
<1>4. ListsTrue(t, {k}, t.held[k], A)
  <2> SUFFICES ASSUME NEW g \in Holder, NEW o \in t.held[g]
               PROVE  /\ o \in t.live \ {k}
                      /\ t.in_room[o] = RoomOf(g)
                      /\ o \notin t.held[k] => t.carried_by[o] = BearerOf(g) /\ t.in_obj[o] = ContainerOf(g)
                      /\ g \in Obj => g \in t.live
                      /\ g \in Char => g \in A
                      /\ \A e \in Holder : o \in t.held[e] => e = g
    BY DEF ListsTrue
  <2>1. g # c
    BY <1>2
  <2>2. CASE g = k
    <3>1. o \in s.held[c]
      BY <1>2, <2>2
    <3>2. o \in s.live /\ o # k /\ s.in_room[o] = RoomOf(c)
      BY <1>1, <1>3, <3>1
    <3>3. RoomOf(c) = RoomOf(g)
      BY <1>1, <2>2 DEF RoomOf
    <3>4. \A e \in Holder : o \in t.held[e] => e = g
      BY <1>1, <1>2, <1>3, <2>2, <3>1
    <3> QED
      BY <1>1, <1>2, <2>2, <3>2, <3>3, <3>4
  <2>3. CASE g # k
    <3>1. o \in s.held[g]
      BY <1>2, <2>1, <2>3
    <3>2. \A e \in Holder : o \in t.held[e] => e = g
      BY <1>1, <1>2, <1>3, <2>1, <3>1
    <3> QED
      BY <1>2, <1>3, <3>1, <3>2
  <2> QED
    BY <2>2, <2>3
<1>5. WornTrue(t, {k}, A)
  <2> SUFFICES ASSUME NEW d \in Char, NEW p \in WearSlot, t.worn[d][p] # Null
               PROVE  /\ t.worn[d][p] \in t.live \ {k}
                      /\ d \in A
                      /\ t.carried_by[t.worn[d][p]] = d
                      /\ t.in_room[t.worn[d][p]] = NOWHERE
                      /\ t.in_obj[t.worn[d][p]] = Null
                      /\ \A g \in Holder : t.worn[d][p] \notin t.held[g]
                      /\ \A e \in Char, q \in WearSlot :
                            t.worn[e][q] = t.worn[d][p] => e = d /\ q = p
    BY DEF WornTrue
  <2> DEFINE o == t.worn[d][p]
  <2>1. o = s.worn[d][p]
    BY <1>2
  <2>2. /\ o \in s.live /\ d \in A
        /\ s.carried_by[o] = d /\ s.in_room[o] = NOWHERE /\ s.in_obj[o] = Null
        /\ \A g \in Holder : o \notin s.held[g]
        /\ \A e \in Char, q \in WearSlot : s.worn[e][q] = o => e = d /\ q = p
    BY <1>1, <2>1 DEF Placed, WornTrue
  <2> HIDE DEF o
  <2>3. \A g \in Holder : o \notin t.held[g]
    BY <1>1, <1>2, <2>2
  <2>4. /\ o \in t.live \ {k} /\ d \in A
        /\ t.carried_by[o] = d /\ t.in_room[o] = NOWHERE /\ t.in_obj[o] = Null
        /\ \A e \in Char, q \in WearSlot : t.worn[e][q] = o => e = d /\ q = p
    BY <1>2, <2>2
  <2> QED
    BY <2>3, <2>4 DEF o
<1>6. NoneLost(t, {k})
  <2>1. ASSUME NEW g \in Holder, NEW o \in s.held[g]
        PROVE  \E e \in Holder : o \in t.held[e]
    <3>1. g # k
      BY <1>1, <1>3
    <3>2. CASE g = c
      BY <1>1, <1>2, <3>2
    <3>3. CASE g # c
      BY <1>2, <3>1, <3>3
    <3> QED
      BY <3>2, <3>3
  <2>2. \A o \in t.live \ {k} : o \in s.live
    BY <1>2
  <2>3. \A o \in s.live : \/ \E h \in Holder : o \in s.held[h]
                          \/ \E d \in Char, p \in WearSlot : s.worn[d][p] = o
    BY <1>1 DEF Placed, NoneLost
  <2> QED
    BY <1>2, <2>1, <2>2, <2>3 DEF NoneLost
<1>7. LooseEnds(t, {k})
  BY <1>1, <1>2 DEF Placed, LooseEnds
<1>8. Counted(t, {c})
  <2>1. \A d \in Char \ {c} : t.held[d] = s.held[d]
    BY <1>1, <1>2, Kinds
  <2> QED
    BY <1>1, <1>2, <2>1 DEF Counted
<1>9. Lighted(t, {})
  <2>1. \A r \in Room : t.held[r] = s.held[r]
    BY <1>1, <1>2, Kinds
  <2>2. ASSUME NEW r \in Room, NEW x \in Shown(t, r)
        PROVE  x \in Shown(s, r)
    BY <1>2, <2>1 DEF Shown
  <2>3. \A r \in Room : Shown(t, r) \subseteq Shown(s, r)
    BY <2>2
  <2> QED
    BY <1>1, <1>2, <2>3, LightedSame
<1> QED
  BY <1>2, <1>4, <1>5, <1>6, <1>7, <1>8, <1>9 DEF Filling, Sound, Placed

\* What the corpse holds is told whose it is, and all that is in it that it has no
\* bearer: then every pointer is right, and c has nothing.
OwnedBy(s, c, k) ==
    [s EXCEPT !.items[c] = 0, !.load[c] = 0, !.wrong = Righted(s, c),
              !.in_obj = [o \in Obj |-> IF o \in s.held[k] THEN k ELSE @[o]]]
Cleared(s, k) ==
    [s EXCEPT !.carried_by = [o \in Obj |-> IF k \in Around(s, o) THEN Null ELSE @[o]]]

LEMMA OwnedFrame ==
    ASSUME NEW s, Fields(s), Typed(s), NEW c \in Char, NEW k \in Corpse,
           NEW u, u = OwnedBy(s, c, k), NEW t, t = Cleared(u, k)
    PROVE  /\ Fields(t) /\ Typed(t)
           /\ t.live = s.live /\ t.loc = s.loc /\ t.worn = s.worn /\ t.held = s.held
           /\ t.in_room = s.in_room /\ t.lit = s.lit /\ t.light = s.light
           /\ t.items = Upd(s.items, c, 0) /\ t.wrong = {x \in s.wrong : x[1] # c}
           /\ t.in_obj = u.in_obj
           /\ \A o \in Obj : t.in_obj[o] = IF o \in s.held[k] THEN k ELSE s.in_obj[o]
           /\ \A o \in Obj : t.carried_by[o] = IF k \in Around(u, o) THEN Null ELSE s.carried_by[o]
<1>1. /\ Fields(u)
      /\ u.live = s.live /\ u.loc = s.loc /\ u.worn = s.worn /\ u.held = s.held
      /\ u.in_room = s.in_room /\ u.lit = s.lit /\ u.light = s.light
      /\ u.items = Upd(s.items, c, 0) /\ u.wrong = {x \in s.wrong : x[1] # c}
      /\ u.in_obj = [o \in Obj |-> IF o \in s.held[k] THEN k ELSE s.in_obj[o]]
      /\ u.carried_by = s.carried_by
  BY DEF OwnedBy, Righted, Fields, Upd
<1>2. /\ Fields(t)
      /\ t.live = u.live /\ t.loc = u.loc /\ t.worn = u.worn /\ t.held = u.held
      /\ t.in_room = u.in_room /\ t.lit = u.lit /\ t.light = u.light
      /\ t.items = u.items /\ t.wrong = u.wrong /\ t.in_obj = u.in_obj
      /\ t.carried_by = [o \in Obj |-> IF k \in Around(u, o) THEN Null ELSE u.carried_by[o]]
  BY <1>1 DEF Cleared, Fields
<1>3. /\ t.carried_by \in [Obj -> Char \cup {Null}]
      /\ t.in_obj \in [Obj -> Bag \cup Corpse \cup {Null}]
      /\ t.items \in [Char -> Int]
  BY <1>1, <1>2 DEF Typed, Upd
<1>4. Typed(t)
  BY <1>1, <1>2, <1>3 DEF Typed
<1> QED
  BY <1>1, <1>2, <1>4

LEMMA OwnedSound ==
    ASSUME NEW s, NEW A, NEW c \in Char, NEW k \in Corpse, Filling(s, k, A, {c}),
           s.held[c] = {}, NEW u, u = OwnedBy(s, c, k), NEW t, t = Cleared(u, k)
    PROVE  Sound(t, {k}, {}, A, {}, {}) /\ t.loc = s.loc /\ t.items[c] = 0
<1>1. /\ Placed(s, {k}, s.held[k], A) /\ Counted(s, {c}) /\ Lighted(s, {}) /\ Fields(s) /\ Typed(s)
      /\ k \in Holder /\ c \in Holder /\ k # c /\ k \in Obj /\ k \notin Char /\ k \notin Room
      /\ k # Null
  BY Kinds DEF Filling, Sound, Placed
<1>2. /\ Fields(t) /\ Typed(t)
      /\ t.live = s.live /\ t.loc = s.loc /\ t.worn = s.worn /\ t.held = s.held
      /\ t.in_room = s.in_room /\ t.lit = s.lit /\ t.light = s.light
      /\ t.items = Upd(s.items, c, 0) /\ t.wrong = {x \in s.wrong : x[1] # c}
      /\ t.in_obj = u.in_obj
      /\ \A o \in Obj : t.in_obj[o] = IF o \in s.held[k] THEN k ELSE s.in_obj[o]
      /\ \A o \in Obj : t.carried_by[o] = IF k \in Around(u, o) THEN Null ELSE s.carried_by[o]
  BY <1>1, OwnedFrame
<1>3. \A o \in s.held[k] : o \in Obj /\ t.in_obj[o] = k /\ t.carried_by[o] = Null
  <2> SUFFICES ASSUME NEW o \in s.held[k]
               PROVE  o \in Obj /\ t.in_obj[o] = k /\ t.carried_by[o] = Null
    OBVIOUS
  <2>1. o \in Obj
    BY <1>1 DEF Typed
  <2>2. t.in_obj[o] = k /\ u.in_obj[o] = k
    BY <1>2, <2>1
  <2>3. k \in Around(u, o)
    <3>1. u.in_obj[o] # Null
      BY <1>1, <2>2
    <3>2. Around(u, u.in_obj[o]) \subseteq Around(u, o)
      BY <2>1, <3>1, AroundUp
    <3>3. k \in Around(u, k)
      BY <1>1, AroundSelf
    <3> QED
      BY <2>2, <3>2, <3>3
  <2> QED
    BY <1>2, <2>1, <2>2, <2>3
<1>4. \A o \in Obj : o # k /\ t.in_obj[o] = Null => t.carried_by[o] = s.carried_by[o]
  <2> SUFFICES ASSUME NEW o \in Obj, o # k, t.in_obj[o] = Null
               PROVE  t.carried_by[o] = s.carried_by[o]
    OBVIOUS
  <2>1. u.in_obj[o] = Null
    BY <1>2
  <2>2. Around(u, o) = {o}
    BY <2>1, AroundTop
  <2> QED
    BY <1>2, <2>2
<1>5. \A o \in Obj : o \notin s.held[k] => t.in_obj[o] = s.in_obj[o]
  BY <1>2
<1>6. \A o \in Obj : t.carried_by[o] = Null \/ t.carried_by[o] = s.carried_by[o]
  BY <1>2
<1>7. ListsTrue(t, {k}, {}, A)
  <2> SUFFICES ASSUME NEW g \in Holder, NEW o \in t.held[g]
               PROVE  /\ o \in t.live \ {k}
                      /\ t.in_room[o] = RoomOf(g)
                      /\ t.carried_by[o] = BearerOf(g) /\ t.in_obj[o] = ContainerOf(g)
                      /\ g \in Obj => g \in t.live
                      /\ g \in Char => g \in A
                      /\ \A e \in Holder : o \in t.held[e] => e = g
    BY DEF ListsTrue
  <2>1. /\ o \in s.live /\ o # k /\ o \in Obj /\ s.in_room[o] = RoomOf(g)
        /\ o \notin s.held[k] => s.carried_by[o] = BearerOf(g) /\ s.in_obj[o] = ContainerOf(g)
        /\ g \in Obj => g \in s.live
        /\ g \in Char => g \in A
        /\ \A e \in Holder : o \in s.held[e] => e = g
    BY <1>1, <1>2 DEF Placed, ListsTrue, Typed
  <2>2. t.carried_by[o] = BearerOf(g) /\ t.in_obj[o] = ContainerOf(g)
    <3>1. CASE g = k
      BY <1>1, <1>2, <1>3, <3>1 DEF BearerOf, ContainerOf
    <3>2. CASE g # k
      <4>1. o \notin s.held[k]
        BY <1>1, <2>1, <3>2
      <4>2. t.in_obj[o] = ContainerOf(g)
        BY <1>5, <2>1, <4>1
      <4>3. CASE g \in Obj
        <5>1. BearerOf(g) = Null
          BY <4>3, Kinds DEF BearerOf
        <5> QED
          BY <1>6, <2>1, <4>1, <4>2, <5>1
      <4>4. CASE g \notin Obj
        <5>1. t.in_obj[o] = Null
          BY <4>2, <4>4 DEF ContainerOf
        <5> QED
          BY <1>4, <2>1, <4>1, <4>2, <5>1
      <4> QED
        BY <4>3, <4>4
    <3> QED
      BY <3>1, <3>2
  <2> QED
    BY <1>2, <2>1, <2>2
<1>8. WornTrue(t, {k}, A)
  <2> SUFFICES ASSUME NEW d \in Char, NEW p \in WearSlot, t.worn[d][p] # Null
               PROVE  /\ t.worn[d][p] \in t.live \ {k}
                      /\ d \in A
                      /\ t.carried_by[t.worn[d][p]] = d
                      /\ t.in_room[t.worn[d][p]] = NOWHERE
                      /\ t.in_obj[t.worn[d][p]] = Null
                      /\ \A g \in Holder : t.worn[d][p] \notin t.held[g]
                      /\ \A e \in Char, q \in WearSlot :
                            t.worn[e][q] = t.worn[d][p] => e = d /\ q = p
    BY DEF WornTrue
  <2> DEFINE o == t.worn[d][p]
  <2>1. o = s.worn[d][p]
    BY <1>2
  <2>2. /\ o \in s.live /\ o # k /\ d \in A
        /\ s.carried_by[o] = d /\ s.in_room[o] = NOWHERE /\ s.in_obj[o] = Null
        /\ \A g \in Holder : o \notin s.held[g]
        /\ \A e \in Char, q \in WearSlot : s.worn[e][q] = o => e = d /\ q = p
    BY <1>1, <2>1 DEF Placed, WornTrue
  <2> HIDE DEF o
  <2>3. o \in Obj /\ o \notin s.held[k]
    BY <1>1, <2>2 DEF Typed
  <2>4. t.in_obj[o] = Null /\ t.carried_by[o] = d
    BY <1>4, <1>5, <2>2, <2>3
  <2>5. /\ o \in t.live \ {k} /\ d \in A
        /\ t.in_room[o] = NOWHERE
        /\ \A g \in Holder : o \notin t.held[g]
        /\ \A e \in Char, q \in WearSlot : t.worn[e][q] = o => e = d /\ q = p
    BY <1>2, <2>2
  <2> QED
    BY <2>4, <2>5 DEF o
<1>9. NoneLost(t, {k})
  BY <1>1, <1>2 DEF Placed, NoneLost
<1>10. LooseEnds(t, {k})
  <2>1. k \in s.live /\ \A o \in s.held[k] : o \in s.live /\ o # k
    BY <1>1 DEF Placed, ListsTrue, LooseEnds
  <2>2. ASSUME NEW o \in Obj, o = k \/ o \notin t.live
        PROVE  t.in_room[o] = NOWHERE /\ t.in_obj[o] = Null
    <3>1. s.in_room[o] = NOWHERE /\ s.in_obj[o] = Null /\ o \notin s.held[k]
      BY <1>1, <1>2, <2>1, <2>2 DEF Placed, LooseEnds
    <3> QED
      BY <1>2, <1>5, <3>1
  <2>3. ASSUME NEW o \in Obj, o \notin t.live
        PROVE  t.carried_by[o] = Null
    <3>1. s.carried_by[o] = Null
      BY <1>1, <1>2, <2>3 DEF Placed, LooseEnds
    <3> QED
      BY <1>6, <3>1
  <2>4. {k} \subseteq t.live
    BY <1>2, <2>1
  <2> QED
    BY <2>2, <2>3, <2>4 DEF LooseEnds
<1>11. t.items[c] = 0
  BY <1>1, <1>2 DEF Typed, Upd
<1>12. Counted(t, {})
  <2> SUFFICES ASSUME NEW d \in Char, <<d, "items">> \notin t.wrong
               PROVE  t.items[d] = Cardinality(t.held[d])
    BY DEF Counted
  <2>1. CASE d = c
    <3>1. Cardinality(t.held[c]) = 0
      BY <1>2, FS_EmptySet
    <3> QED
      BY <1>11, <2>1, <3>1
  <2>2. CASE d # c
    <3>1. <<d, "items">> \notin s.wrong /\ t.items[d] = s.items[d]
      BY <1>1, <1>2, <2>2 DEF Typed, Upd
    <3> QED
      BY <1>1, <1>2, <2>2, <3>1 DEF Counted
  <2> QED
    BY <2>1, <2>2
<1>13. NoBrighter(s, t)
  <2>1. \A q \in Room : <<q, "light">> \in s.wrong => <<q, "light">> \in t.wrong
    BY <1>2, Kinds
  <2>2. ASSUME NEW q \in Room, NEW x \in Shown(t, q)
        PROVE  x \in Shown(s, q)
    BY <1>2 DEF Shown
  <2> QED
    BY <1>2, <2>1, <2>2 DEF NoBrighter
<1>14. Lighted(t, {})
  BY <1>1, <1>13, LightedLess
<1> QED
  BY <1>2, <1>7, <1>8, <1>9, <1>10, <1>11, <1>12, <1>14 DEF Sound, Placed

LEMMA MakeCorpseSound ==
    ASSUME NEW s, NEW c \in Char, Whole(s), s.loc[c] # NOWHERE, NEW k \in Corpse,
           k \notin s.live, NEW byPlayer \in BOOLEAN, NEW t, t = MakeCorpse(s, c, k, byPlayer)
    PROVE  Whole(t) /\ t.loc = s.loc /\ t.items[c] = 0
<1> DEFINE A == InGame(s)
           w == Own[k] + s.load[c]
           s0 == Emptied(s, c, k, w)
           t1 == Pack(s0, c, "light", k)
           t2 == Pack(t1, c, "waist", k)
           t3 == Pack(t2, c, "hold", k)
           full == Pack(t3, c, "belt", k)
           spread == IF byPlayer THEN Unpacked(full, k) ELSE full
           u == OwnedBy(spread, c, k)
           v == Cleared(u, k)
           r == s.loc[c]
<1>1. t = ObjToRoom(v, k, r)
  BY DEF MakeCorpse, EachSlot, Emptied, OwnedBy, Cleared, Righted
<1>2. /\ Sound(s, {}, {}, A, {}, {}) /\ Fields(s) /\ Typed(s) /\ r \in Room
      /\ c \in Holder /\ k # c
  BY Kinds DEF Whole, Sound, Placed, Typed, Place
<1>a. /\ s0 = Emptied(s, c, k, w) /\ t1 = Pack(s0, c, "light", k)
      /\ t2 = Pack(t1, c, "waist", k) /\ t3 = Pack(t2, c, "hold", k)
      /\ full = Pack(t3, c, "belt", k)
      /\ spread = IF byPlayer THEN Unpacked(full, k) ELSE full
      /\ u = OwnedBy(spread, c, k) /\ v = Cleared(u, k)
  OBVIOUS
<1> HIDE DEF A, w, s0, t1, t2, t3, full, spread, u, v, r
<1>3. Filling(s0, k, A, {c}) /\ s0.held[c] = {} /\ s0.loc = s.loc
  BY <1>2, <1>a, EmptiedSound, EmptiedFrame
<1>4. Filling(full, k, A, {c}) /\ full.held[c] = {} /\ full.loc = s.loc
  <2>1. k \in Bag \cup Corpse
    OBVIOUS
  <2>2. Filling(full, k, A, {c}) /\ Undressing(s0, full, c)
    BY <1>3, <1>a, <2>1, AllPacked
  <2> QED
    BY <1>3, <2>2 DEF Undressing
<1>5. Filling(spread, k, A, {c}) /\ spread.held[c] = {} /\ spread.loc = s.loc
  <2>1. CASE byPlayer
    <3>1. spread = Unpacked(full, k)
      BY <1>a, <2>1
    <3> QED
      BY <1>4, <3>1, UnpackedSound
  <2>2. CASE ~ byPlayer
    BY <1>4, <1>a, <2>2
  <2> QED
    BY <2>1, <2>2
<1>6. Sound(v, {k}, {}, A, {}, {}) /\ v.loc = s.loc /\ v.items[c] = 0
  <2>1. u = OwnedBy(spread, c, k) /\ v = Cleared(u, k)
    BY <1>a
  <2> QED
    BY <1>5, <2>1, OwnedSound
<1>7. /\ Sound(t, {k} \ {k}, {}, A, {}, {}) /\ t.loc = v.loc /\ t.items = v.items
  <2>1. k \in {k}
    OBVIOUS
  <2> QED
    BY <1>1, <1>2, <1>6, <2>1, ToRoomSound
<1>8. {k} \ {k} = {}
  OBVIOUS
<1>9. Sound(t, {}, {}, A, {}, {})
  BY <1>7, <1>8
<1> QED
  BY <1>6, <1>7, <1>9 DEF Whole, A, InGame

-----------------------------------------------------------------------------
(* What each action does to the objects, from any sound state to another.  *)

LEMMA WholeSame ==
    ASSUME NEW s, NEW t, Whole(s), Fields(t), Remains(s, t), t.worn = s.worn,
           t.carried_by = s.carried_by, t.lit = s.lit, t.light = s.light, t.wrong = s.wrong
    PROVE  Whole(t)
<1>1. Typed(t)
  BY DEF Whole, Sound, Placed, Typed, Remains
<1>2. Sound(t, {}, {}, InGame(s), {}, {})
  BY <1>1, UnmovedSound DEF Whole
<1> QED
  BY <1>2 DEF Whole, InGame, Remains

LEMMA Became ==
    ASSUME NEW s, Whole(s), Becomes(s)
    PROVE  Whole(Now)'
<1> DEFINE t == Now'
<1>1. /\ Fields(t) /\ Remains(s, t) /\ t.worn = s.worn /\ t.carried_by = s.carried_by
      /\ t.lit = s.lit /\ t.light = s.light /\ t.wrong = s.wrong
  BY DEF Fields, Remains, Becomes, Now
<1>2. Whole(Now')
  BY <1>1, WholeSame
<1> QED
  BY <1>2

\* A state that is sound, with the characters in the game as they are.
LEMMA WholeIf ==
    ASSUME NEW s, NEW t, Sound(t, {}, {}, InGame(s), {}, {}), t.loc = s.loc
    PROVE  Whole(t)
  BY DEF Whole, InGame

LEMMA GoneWhole ==
    ASSUME NEW s, Whole(s), NEW c \in Char, s.loc[c] # NOWHERE,
           NEW t, t = ExtractChar(s, c, NOWHERE)
    PROVE  Whole(t)
<1> DEFINE E == {}
<1>1. Sound(s, {}, {}, InGame(s), E, {}) /\ E \subseteq {c} /\ NOWHERE \in Place
  BY DEF Whole, Place
<1> HIDE DEF E
<1> QED
  BY <1>1, ExtractCharSound

LEMMA LeaveWhole ==
    ASSUME Whole(Now), NEW c \in Char, Leave(c)
    PROVE  Whole(Now)'
<1> DEFINE s == Now
           t == ExtractChar(s, c, NOWHERE)
<1>1. s.loc[c] # NOWHERE /\ Whole(s) /\ Becomes(t)
  BY DEF Leave, Now
<1>2. t = ExtractChar(s, c, NOWHERE)
  OBVIOUS
<1> HIDE DEF s, t
<1> QED
  BY <1>1, <1>2, GoneWhole, Became

LEMMA SpiritWhole ==
    ASSUME NEW s, Whole(s), NEW c \in Char, s.loc[c] # NOWHERE, NEW r \in Place,
           NEW u, u = RemoveAndDropObject(s, c), NEW t, t = ExtractChar(u, c, r)
    PROVE  Whole(t)
<1> DEFINE E == {}
<1>1. Whole(u) /\ u.loc[c] # NOWHERE /\ <<c, "items">> \in u.wrong
  BY DropSound
<1>2. Sound(u, {}, {}, InGame(u), E, {}) /\ E \subseteq {c}
  BY <1>1 DEF Whole
<1> HIDE DEF E
<1> QED
  BY <1>1, <1>2, ExtractCharSound

LEMMA SpiritDiesWhole ==
    ASSUME Whole(Now), NEW c \in Char, SpiritDies(c)
    PROVE  Whole(Now)'
<1> DEFINE s == Now
           u == RemoveAndDropObject(s, c)
<1>1. PICK r \in Place : Becomes(ExtractChar(u, c, r))
  BY DEF SpiritDies, Awake, Place
<1> DEFINE t == ExtractChar(u, c, r)
<1>2. s.loc[c] # NOWHERE /\ Whole(s) /\ Becomes(t)
  BY <1>1 DEF SpiritDies, Now
<1>3. u = RemoveAndDropObject(s, c) /\ t = ExtractChar(u, c, r)
  OBVIOUS
<1> HIDE DEF s, u, t
<1> QED
  BY <1>2, <1>3, SpiritWhole, Became

LEMMA DeathWhole ==
    ASSUME NEW s, Whole(s), NEW c \in Char, s.loc[c] # NOWHERE, NEW k \in Corpse, k \notin s.live,
           NEW byPlayer \in BOOLEAN, NEW r \in Place,
           NEW u, u = MakeCorpse(s, c, k, byPlayer), NEW t, t = ExtractChar(u, c, r)
    PROVE  Whole(t)
<1> DEFINE E == {}
<1>1. Whole(u) /\ u.loc[c] # NOWHERE /\ u.items[c] = 0
  BY MakeCorpseSound
<1>2. Sound(u, {}, {}, InGame(u), E, {}) /\ E \subseteq {c}
  BY <1>1 DEF Whole
<1> HIDE DEF E
<1> QED
  BY <1>1, <1>2, ExtractCharSound

LEMMA DieWhole ==
    ASSUME Whole(Now), NEW c \in Char, NEW k \in Corpse, NEW byPlayer \in BOOLEAN,
           Die(c, k, byPlayer)
    PROVE  Whole(Now)'
<1> DEFINE s == Now
           u == MakeCorpse(s, c, k, byPlayer)
<1>1. PICK r \in Place : Becomes(ExtractChar(u, c, r))
  BY DEF Die, Awake, Place
<1> DEFINE t == ExtractChar(u, c, r)
<1>2. s.loc[c] # NOWHERE /\ k \notin s.live /\ Whole(s) /\ Becomes(t)
  BY <1>1 DEF Die, Now
<1>3. u = MakeCorpse(s, c, k, byPlayer) /\ t = ExtractChar(u, c, r)
  OBVIOUS
<1> HIDE DEF s, u, t
<1> QED
  BY <1>2, <1>3, DeathWhole, Became

-----------------------------------------------------------------------------
(* Rent: what is worn is extracted, what is carried erased.                *)

LEMMA ShedSound ==
    ASSUME NEW s, NEW A, Sound(s, {}, {}, A, {}, {}),
           NEW c \in Char, NEW p \in WearSlot, NEW t, t = Shed(s, c, p)
    PROVE  Sound(t, {}, {}, A, {}, {}) /\ t.loc = s.loc
<1>1. CASE s.worn[c][p] = Null
  BY <1>1 DEF Shed
<1>2. CASE s.worn[c][p] # Null
  <2> DEFINE o == s.worn[c][p]
             v == DetachEquipment(s, c, p)
             X == {o}
             Y == {} \cup {o}
  <2>a. o = s.worn[c][p] /\ v = DetachEquipment(s, c, p) /\ o # Null /\ X \subseteq {o}
    BY <1>2
  <2>b. X = Y
    OBVIOUS
  <2>1. t = ExtractObj(v, o)
    BY <1>2 DEF Shed
  <2> HIDE DEF o, v, X
  <2>2. Sound(v, Y, {}, A, {}, {}) /\ Remains(s, v)
    BY <2>a, DetachSound
  <2> HIDE DEF Y
  <2>3. Sound(v, X, {}, A, {}, {}) /\ v.loc = s.loc
    BY <2>2, <2>b DEF Remains
  <2>4. o \in v.live /\ o \in Obj
    <3>1. o \in s.live /\ v.live = s.live /\ s.live \subseteq Obj
      BY <2>2, <2>a DEF Remains, Sound, Placed, WornTrue, Typed
    <3> QED
      BY <3>1
  <2>5. Sound(t, {}, {}, A, {}, {}) /\ t.loc = v.loc
    BY <2>1, <2>3, <2>4, <2>a, ExtractSound
  <2> QED
    BY <2>3, <2>5
<1> QED
  BY <1>1, <1>2

\* The list of c, taken from him.
Taken(s, c) == [s EXCEPT !.held[c] = {}]

LEMMA TakenSound ==
    ASSUME NEW s, NEW A, Sound(s, {}, {}, A, {}, {}), NEW c \in Char,
           NEW O, O = s.held[c], NEW u, u = Taken(s, c)
    PROVE  Sound(u, O, {}, A, {c}, {}) /\ u.loc = s.loc
<1>0. /\ Fields(s) /\ Typed(s) /\ ListsTrue(s, {}, {}, A) /\ WornTrue(s, {}, A)
      /\ NoneLost(s, {}) /\ LooseEnds(s, {}) /\ Counted(s, {}) /\ Lighted(s, {})
      /\ c \in Holder /\ c \notin Obj /\ c \notin Room
  BY Kinds DEF Sound, Placed
<1>1. /\ Fields(u) /\ u.live = s.live /\ u.loc = s.loc /\ u.held = Upd(s.held, c, {})
      /\ u.worn = s.worn /\ u.in_room = s.in_room /\ u.carried_by = s.carried_by
      /\ u.in_obj = s.in_obj /\ u.lit = s.lit /\ u.light = s.light /\ u.items = s.items
      /\ u.wrong = s.wrong
  BY <1>0 DEF Fields, Upd, Taken
<1>2. Typed(u)
  BY <1>0, <1>1 DEF Typed, Upd
<1>3. /\ u.held[c] = {} /\ \A h \in Holder : h # c => u.held[h] = s.held[h]
      /\ \A h \in Holder : u.held[h] \subseteq s.held[h]
  BY <1>0, <1>1 DEF Typed, Upd
<1>4. ListsTrue(u, O, {}, A)
  <2> SUFFICES ASSUME NEW h \in Holder, NEW o \in u.held[h]
               PROVE  /\ o \in u.live \ O
                      /\ u.in_room[o] = RoomOf(h)
                      /\ u.carried_by[o] = BearerOf(h) /\ u.in_obj[o] = ContainerOf(h)
                      /\ h \in Obj => h \in u.live
                      /\ h \in Char => h \in A
                      /\ \A g \in Holder : o \in u.held[g] => g = h
    BY DEF ListsTrue
  <2>1. h # c /\ o \in s.held[h]
    BY <1>3
  <2>2. o \notin O
    BY <1>0, <2>1 DEF ListsTrue
  <2> QED
    BY <1>0, <1>1, <1>3, <2>1, <2>2 DEF ListsTrue
<1>5. WornTrue(u, O, A)
  BY <1>0, <1>1, <1>3 DEF WornTrue
<1>6. NoneLost(u, O)
  BY <1>0, <1>1, <1>3 DEF NoneLost
<1>7. LooseEnds(u, O)
  <2>1. O \subseteq s.live /\ \A o \in O : s.in_room[o] = NOWHERE /\ s.in_obj[o] = Null
    BY <1>0 DEF ListsTrue, RoomOf, ContainerOf
  <2> QED
    BY <1>0, <1>1, <2>1 DEF LooseEnds
<1>8. Counted(u, {c})
  <2> SUFFICES ASSUME NEW d \in Char, d # c
               PROVE  <<d, "items">> \in u.wrong \/ u.items[d] = Cardinality(u.held[d])
    BY DEF Counted
  <2>1. u.held[d] = s.held[d]
    BY <1>3 DEF Holder
  <2>2. <<d, "items">> \in s.wrong \/ s.items[d] = Cardinality(s.held[d])
    BY <1>0 DEF Counted
  <2> QED
    BY <1>1, <2>1, <2>2
<1>9. \A r \in Room : Shown(u, r) \subseteq Shown(s, r)
  BY <1>0, <1>1, <1>3 DEF Shown, Holder
<1>10. Lighted(u, {})
  BY <1>0, <1>1, <1>9, LightedSame
<1> QED
  BY <1>1, <1>2, <1>4, <1>5, <1>6, <1>7, <1>8, <1>10 DEF Sound, Placed

\* Whatever of c's is written, or nothing, what he had is gone before he is.
LEMMA StoredWhole ==
    ASSUME NEW s, Whole(s), NEW c \in Char, s.loc[c] # NOWHERE, NEW written \in BOOLEAN,
           NEW t1, t1 = Shed(s, c, "light"), NEW t2, t2 = Shed(t1, c, "waist"),
           NEW t3, t3 = Shed(t2, c, "hold"), NEW bare, bare = Shed(t3, c, "belt"),
           NEW O, O = bare.held[c], NEW u, u = Taken(bare, c),
           NEW v, v = IF written THEN Erase(u, O) ELSE bare,
           NEW t, t = ExtractChar(v, c, NOWHERE)
    PROVE  Whole(t)
<1> DEFINE A == InGame(s)
           Z == {}
<1>1. Sound(s, {}, {}, A, {}, {}) /\ {"light", "waist", "hold", "belt"} \subseteq WearSlot
  BY SlotsAre DEF Whole
<1>2. Z \subseteq {c} /\ Z = {}
  OBVIOUS
<1> HIDE DEF A, Z
<1>3. Sound(t1, {}, {}, A, {}, {}) /\ t1.loc = s.loc
  BY <1>1, ShedSound
<1>4. Sound(t2, {}, {}, A, {}, {}) /\ t2.loc = s.loc
  BY <1>1, <1>3, ShedSound
<1>5. Sound(t3, {}, {}, A, {}, {}) /\ t3.loc = s.loc
  BY <1>1, <1>4, ShedSound
<1>6. Sound(bare, {}, {}, A, {}, {}) /\ bare.loc = s.loc
  BY <1>1, <1>5, ShedSound
<1>7. \E E : E \subseteq {c} /\ Sound(v, {}, {}, A, E, {}) /\ v.loc = s.loc
  <2>1. CASE written
    <3>1. Sound(u, O, {}, A, {c}, {}) /\ u.loc = s.loc
      BY <1>6, TakenSound
    <3>2. v = Erase(u, O) /\ Fields(u) /\ Typed(u)
      BY <2>1, <3>1 DEF Sound, Placed
    <3>3. Sound(v, {}, {}, A, {c}, {}) /\ v.loc = u.loc
      BY <3>1, <3>2, EraseSound
    <3> QED
      BY <3>1, <3>3
  <2>2. CASE ~written
    BY <1>2, <1>6, <2>2
  <2> QED
    BY <2>1, <2>2
<1>8. PICK E : E \subseteq {c} /\ Sound(v, {}, {}, A, E, {}) /\ v.loc = s.loc
  BY <1>7
<1>9. Sound(v, {}, {}, InGame(v), E, {}) /\ v.loc[c] # NOWHERE /\ NOWHERE \in Place
  BY <1>8 DEF InGame, A, Place
<1> QED
  BY <1>8, <1>9, ExtractCharSound

LEMMA RentWhole ==
    ASSUME Whole(Now), NEW c \in Char, NEW written \in BOOLEAN, Rent(c, written)
    PROVE  Whole(Now)'
<1> DEFINE s == Now
           t1 == Shed(s, c, "light")
           t2 == Shed(t1, c, "waist")
           t3 == Shed(t2, c, "hold")
           bare == Shed(t3, c, "belt")
           O == bare.held[c]
           u == Taken(bare, c)
           v == IF written THEN Erase(u, O) ELSE bare
           t == ExtractChar(v, c, NOWHERE)
<1>1. s.loc[c] # NOWHERE /\ Whole(s)
  BY DEF Rent, Now
<1>2. Becomes(t)
  BY DEF Rent, EachSlot, Taken
<1>3. /\ t1 = Shed(s, c, "light") /\ t2 = Shed(t1, c, "waist") /\ t3 = Shed(t2, c, "hold")
      /\ bare = Shed(t3, c, "belt") /\ O = bare.held[c] /\ u = Taken(bare, c)
      /\ v = IF written THEN Erase(u, O) ELSE bare
      /\ t = ExtractChar(v, c, NOWHERE)
  OBVIOUS
<1> HIDE DEF s, t1, t2, t3, bare, O, u, v, t
<1>4. Whole(t)
  BY <1>1, <1>3, StoredWhole
<1> QED
  BY <1>2, <1>4, Became

-----------------------------------------------------------------------------
(* Entering, moving, loading.                                              *)

LEMMA MoveWhole ==
    ASSUME Whole(Now), NEW c \in Char, NEW r \in Room, Move(c, r)
    PROVE  Whole(Now)'
<1> DEFINE s == Now
           u == CharFromRoom(s, c)
           t == CharToRoom(u, c, r)
           A == InGame(s)
<1>1. Whole(s) /\ Becomes(t) /\ s.loc[c] # NOWHERE
  BY DEF Move, Now
<1>2. /\ Sound(s, {}, {}, A, {}, {}) /\ u = CharFromRoom(s, c) /\ t = CharToRoom(u, c, r)
      /\ s.loc \in [Char -> Place] /\ A = InGame(s)
  BY <1>1 DEF Whole, Sound, Placed, Typed
<1> HIDE DEF s, u, t, A
<1>3. Sound(u, {}, {}, A, {}, {}) /\ u.loc = Upd(s.loc, c, NOWHERE)
  BY <1>1, <1>2, CharFromRoomSound
<1>4. u.loc[c] = NOWHERE
  BY <1>2, <1>3 DEF Upd
<1>5. Sound(t, {}, {}, A, {}, {}) /\ t.loc = Upd(u.loc, c, r)
  BY <1>2, <1>3, <1>4, CharToRoomSound
<1>6. A \subseteq InGame(t)
  BY <1>2, <1>3, <1>5, Kinds DEF InGame, Upd
<1>7. Whole(t)
  BY <1>5, <1>6, PlacedMore DEF Whole, Sound
<1> QED
  BY <1>1, <1>7, Became

\* An object fresh from the allocator.
Fresh(s, o) == [s EXCEPT !.live = @ \cup {o}]

LEMMA MadeSound ==
    ASSUME NEW s, NEW A, Sound(s, {}, {}, A, {}, {}), NEW o \in Obj, o \notin s.live,
           NEW t, t = Fresh(s, o)
    PROVE  /\ Sound(t, {o}, {}, A, {}, {}) /\ t.carried_by[o] = Null
           /\ t.live = s.live \cup {o} /\ t.loc = s.loc /\ t.worn = s.worn
<1>0. /\ Fields(s) /\ Typed(s) /\ ListsTrue(s, {}, {}, A) /\ WornTrue(s, {}, A)
      /\ NoneLost(s, {}) /\ LooseEnds(s, {}) /\ Counted(s, {}) /\ Lighted(s, {})
  BY DEF Sound, Placed
<1>1. /\ Fields(t) /\ t.live = s.live \cup {o} /\ t.loc = s.loc /\ t.held = s.held
      /\ t.worn = s.worn /\ t.in_room = s.in_room /\ t.carried_by = s.carried_by
      /\ t.in_obj = s.in_obj /\ t.lit = s.lit /\ t.light = s.light /\ t.items = s.items
      /\ t.wrong = s.wrong
  BY <1>0 DEF Fields, Fresh
<1>2. Typed(t)
  BY <1>0, <1>1 DEF Typed
<1>3. ListsTrue(t, {o}, {}, A) /\ WornTrue(t, {o}, A)
  BY <1>0, <1>1 DEF ListsTrue, WornTrue
<1>4. NoneLost(t, {o}) /\ LooseEnds(t, {o}) /\ t.carried_by[o] = Null
  BY <1>0, <1>1 DEF NoneLost, LooseEnds
<1>5. Counted(t, {})
  BY <1>0, <1>1 DEF Counted
<1>6. \A r \in Room : Shown(t, r) \subseteq Shown(s, r)
  BY <1>1 DEF Shown
<1>7. Lighted(t, {})
  BY <1>0, <1>1, <1>6, LightedSame
<1> QED
  BY <1>1, <1>2, <1>3, <1>4, <1>5, <1>7 DEF Sound, Placed

\* c comes into a room, with what he may have.
LEMMA ArriveWhole ==
    ASSUME NEW s, NEW A, Sound(s, {}, {}, A, {}, {}), NEW c \in Char, s.loc[c] = NOWHERE,
           NEW r \in Room, A \subseteq InGame(s) \cup {c}, NEW t, t = CharToRoom(s, c, r)
    PROVE  Whole(t)
<1>1. Sound(t, {}, {}, A, {}, {}) /\ t.loc = Upd(s.loc, c, r)
  BY CharToRoomSound
<1>2. A \subseteq InGame(t)
  BY <1>1, Kinds DEF Sound, Placed, Typed, InGame, Upd
<1> QED
  BY <1>1, <1>2, PlacedMore DEF Whole, Sound

\* With something to carry or to wear, or with nothing.
LEMMA ArriveWith ==
    ASSUME NEW s, Whole(s), NEW c \in Char, s.loc[c] = NOWHERE, NEW r \in Room,
           NEW o \in Obj, o \notin s.live, NEW m, m = Fresh(s, o),
           NEW u, u = ObjToChar(m, o, c) \/ u = AttachEquipment(m, c, o, "light"),
           NEW t, t = CharToRoom(u, c, r)
    PROVE  Whole(t)
<1> DEFINE A == InGame(s) \cup {c}
           X == {o}
           Z == X \ {o}
<1>1. Sound(s, {}, {}, A, {}, {})
  BY PlacedMore DEF Whole, Sound
<1>2. Z = {} /\ c \in A /\ o \in X /\ Z = X \ {o} /\ A = InGame(s) \cup {c} /\ X = {o}
  OBVIOUS
<1> HIDE DEF A, X, Z
<1>3. Sound(m, X, {}, A, {}, {}) /\ m.loc = s.loc /\ m.worn = s.worn
  BY <1>1, <1>2, MadeSound
<1>4. s.worn[c]["light"] = Null /\ "light" \in WearSlot
  <2>1. WornTrue(s, {}, InGame(s)) /\ c \notin InGame(s)
    BY DEF Whole, Sound, Placed, InGame
  <2> QED
    BY <2>1 DEF WornTrue, WearSlot
<1>5. Sound(u, Z, {}, A, {}, {}) /\ u.loc = s.loc
  <2>1. CASE u = ObjToChar(m, o, c)
    BY <1>2, <1>3, <2>1, ToCharSound
  <2>2. CASE u = AttachEquipment(m, c, o, "light")
    BY <1>2, <1>3, <1>4, <2>2, AttachSound
  <2> QED
    BY <2>1, <2>2
<1>6. Sound(u, {}, {}, A, {}, {}) /\ u.loc[c] = NOWHERE /\ A \subseteq InGame(u) \cup {c}
  BY <1>2, <1>5 DEF InGame
<1> QED
  BY <1>6, ArriveWhole

LEMMA EnterWhole ==
    ASSUME Whole(Now), NEW c \in Char, NEW r \in Room, Enter(c, r)
    PROVE  Whole(Now)'
<1> DEFINE s == Now
<1>1. Whole(s) /\ s.loc[c] = NOWHERE /\ s.live = live
  BY DEF Enter, Now
<1>2. \A o : Made(o) = Fresh(s, o)
  BY DEF Made, Fresh
<1>3. CASE Becomes(CharToRoom(s, c, r))
  <2> DEFINE t == CharToRoom(s, c, r)
             A == InGame(s)
  <2>1. Sound(s, {}, {}, A, {}, {}) /\ A \subseteq InGame(s) \cup {c} /\ t = CharToRoom(s, c, r)
    BY <1>1 DEF Whole
  <2>2. Becomes(t)
    BY <1>3
  <2> HIDE DEF s, t, A
  <2>3. Whole(t)
    BY <1>1, <2>1, ArriveWhole
  <2> QED
    BY <2>2, <2>3, Became
<1>4. ASSUME NEW o \in Obj \ (live \cup Corpse),
             \/ Becomes(CharToRoom(ObjToChar(Made(o), o, c), c, r))
             \/ Becomes(CharToRoom(AttachEquipment(Made(o), c, o, "light"), c, r))
      PROVE  Whole(Now)'
  <2> DEFINE m == Fresh(s, o)
             u1 == ObjToChar(m, o, c)
             t1 == CharToRoom(u1, c, r)
             u2 == AttachEquipment(m, c, o, "light")
             t2 == CharToRoom(u2, c, r)
  <2>1. Becomes(t1) \/ Becomes(t2)
    BY <1>2, <1>4
  <2>2. /\ m = Fresh(s, o) /\ u1 = ObjToChar(m, o, c) /\ t1 = CharToRoom(u1, c, r)
        /\ u2 = AttachEquipment(m, c, o, "light") /\ t2 = CharToRoom(u2, c, r)
    OBVIOUS
  <2>3. o \in Obj /\ o \notin s.live
    BY <1>1, <1>4
  <2> HIDE DEF s, m, u1, t1, u2, t2
  <2>4. Whole(t1) /\ Whole(t2)
    BY <1>1, <2>2, <2>3, ArriveWith
  <2> QED
    BY <2>1, <2>4, Became
<1> HIDE DEF s
<1> QED
  BY <1>3, <1>4 DEF Enter, s

LEMMA ToObjStays ==
    ASSUME NEW s, Fields(s), Typed(s), NEW o \in Obj, NEW b \in Bag \cup Corpse,
           NEW t, t = ObjToObj(s, o, b)
    PROVE  t.loc = s.loc
<1>1. t.loc = s.loc /\ t.held = Upd(s.held, b, s.held[b] \cup {o})
  BY ToObjFrame
<1> QED
  BY <1>1

\* A new object is put down, given, or put in a bag.
LEMMA LoadedWhole ==
    ASSUME NEW s, Whole(s), NEW o \in Obj, o \notin s.live, NEW m, m = Fresh(s, o), NEW h,
           NEW t, \/ h \in Room /\ t = ObjToRoom(m, o, h)
                  \/ h \in Char /\ s.loc[h] # NOWHERE /\ t = ObjToChar(m, o, h)
                  \/ h \in Bag \cap s.live /\ t = ObjToObj(m, o, h)
    PROVE  Whole(t)
<1> DEFINE A == InGame(s)
           X == {o}
           Z == X \ {o}
           M == {}
<1>1. /\ Sound(s, {}, {}, A, {}, {}) /\ Z = {} /\ o \in X /\ Z = X \ {o} /\ A = InGame(s)
      /\ X = {o} /\ M = {} /\ M \subseteq M
  BY DEF Whole
<1> HIDE DEF A, X, Z, M
<1>2. /\ Sound(m, X, M, A, {}, {}) /\ m.loc = s.loc /\ m.carried_by[o] = Null
      /\ m.live = s.live \cup {o}
  BY <1>1, MadeSound
<1>3. Sound(t, Z, M, A, {}, {}) /\ t.loc = s.loc
  <2>1. CASE h \in Room /\ t = ObjToRoom(m, o, h)
    BY <1>1, <1>2, <2>1, ToRoomSound
  <2>2. CASE h \in Char /\ s.loc[h] # NOWHERE /\ t = ObjToChar(m, o, h)
    <3>1. h \in A
      BY <1>1, <2>2 DEF InGame
    <3> QED
      BY <1>1, <1>2, <2>2, <3>1, ToCharSound
  <2>3. CASE h \in Bag \cap s.live /\ t = ObjToObj(m, o, h)
    <3>1. h \in Bag \cup Corpse /\ h \in m.live /\ t = ObjToObj(m, o, h)
      BY <1>2, <2>3
    <3>2. Sound(t, Z, M, A, {}, {})
      BY <1>1, <1>2, <3>1, ToObjSound
    <3>3. Fields(m) /\ Typed(m)
      BY <1>2 DEF Sound, Placed
    <3>4. t.loc = m.loc
      BY <3>1, <3>3, ToObjStays
    <3> QED
      BY <1>2, <3>2, <3>4
  <2> QED
    BY <2>1, <2>2, <2>3
<1> QED
  BY <1>1, <1>3, WholeIf

LEMMA LoadWhole ==
    ASSUME Whole(Now), NEW o \in Obj, NEW h \in Holder, Load(o, h)
    PROVE  Whole(Now)'
<1> DEFINE s == Now
           m == Fresh(s, o)
           t1 == ObjToRoom(m, o, h)
           t2 == ObjToChar(m, o, h)
           t3 == ObjToObj(m, o, h)
<1>1. /\ o \notin s.live /\ Whole(s)
      /\ \/ h \in Room /\ Becomes(t1)
         \/ h \in Char /\ s.loc[h] # NOWHERE /\ Becomes(t2)
         \/ h \in Bag \cap s.live /\ Becomes(t3)
  <2>1. Made(o) = Fresh(s, o) /\ s.live = live /\ s.loc = loc
    BY DEF Made, Fresh, Now
  <2> QED
    BY <2>1 DEF Load
<1>2. /\ m = Fresh(s, o) /\ t1 = ObjToRoom(m, o, h) /\ t2 = ObjToChar(m, o, h)
      /\ t3 = ObjToObj(m, o, h)
  OBVIOUS
<1> HIDE DEF s, m, t1, t2, t3
<1>3. \E t \in {t1, t2, t3} : Becomes(t) /\ Whole(t)
  BY <1>1, <1>2, LoadedWhole
<1> QED
  BY <1>3, Became

\* Whoever and whatever is in one room is in another.
Ferried(s, from, to) ==
    [s EXCEPT !.held[to] = @ \cup s.held[from], !.held[from] = {},
              !.wrong = @ \cup {<<to, "light">>},
              !.in_room = [o \in Obj |-> IF o \in s.held[from] THEN to ELSE @[o]],
              !.loc = [c \in Char |-> IF @[c] = from THEN to ELSE @[c]]]

LEMMA FerriedFrame ==
    ASSUME NEW s, Fields(s), Typed(s), NEW from \in Room, NEW to \in Room, from # to,
           NEW t, t = Ferried(s, from, to)
    PROVE  /\ Fields(t) /\ Typed(t)
           /\ t.live = s.live /\ t.worn = s.worn /\ t.carried_by = s.carried_by
           /\ t.in_obj = s.in_obj /\ t.items = s.items /\ t.lit = s.lit /\ t.light = s.light
           /\ t.wrong = s.wrong \cup {<<to, "light">>}
           /\ t.held[from] = {} /\ t.held[to] = s.held[to] \cup s.held[from]
           /\ \A g \in Holder : g # from /\ g # to => t.held[g] = s.held[g]
           /\ \A o \in Obj : t.in_room[o] = IF o \in s.held[from] THEN to ELSE s.in_room[o]
           /\ \A c \in Char : t.loc[c] = IF s.loc[c] = from THEN to ELSE s.loc[c]
<1>1. /\ Fields(t) /\ t.live = s.live /\ t.worn = s.worn /\ t.carried_by = s.carried_by
      /\ t.in_obj = s.in_obj /\ t.items = s.items /\ t.lit = s.lit /\ t.light = s.light
      /\ t.wrong = s.wrong \cup {<<to, "light">>}
      /\ t.held = Upd(Upd(s.held, to, s.held[to] \cup s.held[from]), from, {})
  BY DEF Ferried, Fields, Upd
<1>2. /\ t.in_room = [o \in Obj |-> IF o \in s.held[from] THEN to ELSE s.in_room[o]]
      /\ t.loc = [c \in Char |-> IF s.loc[c] = from THEN to ELSE s.loc[c]]
  BY DEF Ferried, Fields
<1>3. from \in Holder /\ to \in Holder /\ s.held \in [Holder -> SUBSET Obj]
  BY DEF Holder, Typed
<1>4. /\ t.held[from] = {} /\ t.held[to] = s.held[to] \cup s.held[from]
      /\ \A g \in Holder : g # from /\ g # to => t.held[g] = s.held[g]
      /\ t.held \in [Holder -> SUBSET Obj]
  BY <1>1, <1>3 DEF Upd
<1>5. t.in_room \in [Obj -> Place] /\ t.loc \in [Char -> Place]
  BY <1>2 DEF Typed, Place
<1>6. Typed(t)
  BY <1>1, <1>4, <1>5 DEF Typed
<1>7. /\ \A o \in Obj : t.in_room[o] = IF o \in s.held[from] THEN to ELSE s.in_room[o]
      /\ \A c \in Char : t.loc[c] = IF s.loc[c] = from THEN to ELSE s.loc[c]
  BY <1>2
<1> QED
  BY <1>1, <1>4, <1>6, <1>7

LEMMA FerriedPlaced ==
    ASSUME NEW s, Placed(s, {}, {}, InGame(s)), NEW from \in Room, NEW to \in Room, from # to,
           NEW t, t = Ferried(s, from, to)
    PROVE  Placed(t, {}, {}, InGame(t))
<1>0. /\ Fields(s) /\ Typed(s) /\ ListsTrue(s, {}, {}, InGame(s)) /\ WornTrue(s, {}, InGame(s))
      /\ NoneLost(s, {}) /\ LooseEnds(s, {})
      /\ from \in Holder /\ to \in Holder /\ from \notin Obj \cup Char /\ to \notin Obj \cup Char
      /\ from # NOWHERE /\ to # NOWHERE
  BY Kinds DEF Placed, Holder
<1>1. /\ Fields(t) /\ Typed(t)
      /\ t.live = s.live /\ t.worn = s.worn /\ t.carried_by = s.carried_by
      /\ t.in_obj = s.in_obj
      /\ t.held[from] = {} /\ t.held[to] = s.held[to] \cup s.held[from]
      /\ \A g \in Holder : g # from /\ g # to => t.held[g] = s.held[g]
      /\ \A o \in Obj : t.in_room[o] = IF o \in s.held[from] THEN to ELSE s.in_room[o]
      /\ \A c \in Char : t.loc[c] = IF s.loc[c] = from THEN to ELSE s.loc[c]
  BY <1>0, FerriedFrame
<1>2. InGame(t) = InGame(s)
  BY <1>0, <1>1 DEF InGame
<1>3. ListsTrue(t, {}, {}, InGame(t))
  <2> SUFFICES ASSUME NEW h \in Holder, NEW o \in t.held[h]
               PROVE  /\ o \in t.live
                      /\ t.in_room[o] = RoomOf(h)
                      /\ t.carried_by[o] = BearerOf(h) /\ t.in_obj[o] = ContainerOf(h)
                      /\ h \in Obj => h \in t.live
                      /\ h \in Char => h \in InGame(t)
                      /\ \A g \in Holder : o \in t.held[g] => g = h
    BY DEF ListsTrue
  <2>1. CASE h = to
    <3>1. PICK k \in {from, to} : o \in s.held[k]
      BY <1>1, <2>1
    <3>2. /\ o \in s.live /\ s.carried_by[o] = Null /\ s.in_obj[o] = Null /\ o \in Obj
          /\ s.in_room[o] = k
          /\ \A g \in Holder : o \in s.held[g] => g = k
      <4>1. k \in Holder /\ k \notin Char /\ k \notin Obj /\ k \in Room
        BY <1>0
      <4> QED
        BY <1>0, <3>1, <4>1 DEF ListsTrue, RoomOf, BearerOf, ContainerOf, Typed
    <3>3. t.in_room[o] = to
      BY <1>0, <1>1, <3>1, <3>2
    <3>4. \A g \in Holder : o \in t.held[g] => g = to
      BY <1>0, <1>1, <3>2
    <3> QED
      BY <1>0, <1>1, <2>1, <3>2, <3>3, <3>4 DEF RoomOf, BearerOf, ContainerOf
  <2>2. CASE h # to
    <3>1. h # from /\ o \in s.held[h]
      BY <1>1, <2>2
    <3>2. /\ o \in s.live /\ o \in Obj
          /\ s.in_room[o] = RoomOf(h)
          /\ s.carried_by[o] = BearerOf(h) /\ s.in_obj[o] = ContainerOf(h)
          /\ h \in Obj => h \in s.live
          /\ h \in Char => h \in InGame(s)
          /\ \A g \in Holder : o \in s.held[g] => g = h
      BY <1>0, <3>1 DEF ListsTrue, Typed
    <3>3. o \notin s.held[from] /\ o \notin s.held[to]
      BY <1>0, <2>2, <3>1, <3>2
    <3>4. \A g \in Holder : o \in t.held[g] => g = h
      BY <1>0, <1>1, <3>2, <3>3
    <3> QED
      BY <1>1, <1>2, <3>2, <3>3, <3>4
  <2> QED
    BY <2>1, <2>2
<1>4. WornTrue(t, {}, InGame(t))
  <2> SUFFICES ASSUME NEW c \in Char, NEW p \in WearSlot, t.worn[c][p] # Null
               PROVE  /\ t.worn[c][p] \in t.live
                      /\ c \in InGame(t)
                      /\ t.carried_by[t.worn[c][p]] = c
                      /\ t.in_room[t.worn[c][p]] = NOWHERE
                      /\ t.in_obj[t.worn[c][p]] = Null
                      /\ \A h \in Holder : t.worn[c][p] \notin t.held[h]
                      /\ \A d \in Char, q \in WearSlot :
                            t.worn[d][q] = t.worn[c][p] => d = c /\ q = p
    BY DEF WornTrue
  <2> DEFINE o == t.worn[c][p]
  <2>1. /\ o \in s.live /\ c \in InGame(s)
        /\ s.carried_by[o] = c /\ s.in_room[o] = NOWHERE /\ s.in_obj[o] = Null
        /\ \A h \in Holder : o \notin s.held[h]
        /\ \A d \in Char, q \in WearSlot : s.worn[d][q] = o => d = c /\ q = p
    BY <1>0, <1>1 DEF WornTrue
  <2> HIDE DEF o
  <2>2. o \in Obj
    BY <1>0, <2>1 DEF Typed
  <2>3. /\ o \in t.live /\ c \in InGame(t)
        /\ t.carried_by[o] = c /\ t.in_room[o] = NOWHERE /\ t.in_obj[o] = Null
        /\ \A h \in Holder : o \notin t.held[h]
        /\ \A d \in Char, q \in WearSlot : t.worn[d][q] = o => d = c /\ q = p
    BY <1>0, <1>1, <1>2, <2>1, <2>2
  <2> QED
    BY <2>3 DEF o
<1>5. NoneLost(t, {})
  <2> SUFFICES ASSUME NEW o \in t.live
               PROVE  \/ \E h \in Holder : o \in t.held[h]
                      \/ \E c \in Char, p \in WearSlot : t.worn[c][p] = o
    BY DEF NoneLost
  <2>1. \/ \E h \in Holder : o \in s.held[h]
        \/ \E c \in Char, p \in WearSlot : s.worn[c][p] = o
    BY <1>0, <1>1 DEF NoneLost
  <2>2. ASSUME NEW h \in Holder, o \in s.held[h]
        PROVE  \E g \in Holder : o \in t.held[g]
    BY <1>0, <1>1, <2>2
  <2> QED
    BY <1>1, <2>1, <2>2
<1>6. LooseEnds(t, {})
  <2>1. \A o \in Obj : o \notin s.live => o \notin s.held[from]
    BY <1>0 DEF ListsTrue
  <2> QED
    BY <1>0, <1>1, <2>1 DEF LooseEnds
<1> QED
  BY <1>1, <1>3, <1>4, <1>5, <1>6 DEF Placed

LEMMA FerriedWhole ==
    ASSUME NEW s, Whole(s), NEW from \in Room, NEW to \in Room, from # to,
           NEW t, t = Ferried(s, from, to)
    PROVE  Whole(t)
<1>0. /\ Fields(s) /\ Typed(s) /\ Counted(s, {}) /\ Lighted(s, {})
      /\ Placed(s, {}, {}, InGame(s))
      /\ \A c \in Char : c \in Holder /\ c # from /\ c # to
      /\ \A r \in Room : r \in Holder /\ r # NOWHERE
  BY Kinds DEF Whole, Sound, Placed, Holder
<1>1. /\ Typed(t) /\ t.worn = s.worn /\ t.items = s.items /\ t.lit = s.lit /\ t.light = s.light
      /\ t.wrong = s.wrong \cup {<<to, "light">>}
      /\ t.held[from] = {}
      /\ \A g \in Holder : g # from /\ g # to => t.held[g] = s.held[g]
      /\ \A c \in Char : t.loc[c] = IF s.loc[c] = from THEN to ELSE s.loc[c]
  BY <1>0, FerriedFrame
<1>2. Counted(t, {})
  BY <1>0, <1>1 DEF Counted
<1>3. Lighted(t, {})
  <2> SUFFICES ASSUME NEW r \in Room, <<r, "light">> \notin t.wrong
               PROVE  t.light[r] >= Cardinality(Alight(t, r))
    BY DEF Lighted
  <2>1. r # to /\ <<r, "light">> \notin s.wrong
    BY <1>1
  <2>2. ASSUME NEW x \in Shown(t, r) PROVE x \in Shown(s, r)
    BY <1>0, <1>1, <2>1, <2>2 DEF Shown
  <2>3. Alight(t, r) \subseteq Alight(s, r)
    BY <1>1, <2>2, AlightShown
  <2>4. /\ Cardinality(Alight(t, r)) \in Nat /\ Cardinality(Alight(s, r)) \in Nat
        /\ Cardinality(Alight(t, r)) <= Cardinality(Alight(s, r))
    BY <2>3, AlightFinite, FS_Subset
  <2>5. s.light[r] >= Cardinality(Alight(s, r)) /\ s.light[r] \in Int
    BY <1>0, <2>1 DEF Lighted, Typed
  <2> QED
    BY <1>1, <2>4, <2>5
<1>4. Placed(t, {}, {}, InGame(t))
  BY <1>0, FerriedPlaced
<1> QED
  BY <1>2, <1>3, <1>4 DEF Whole, Sound

LEMMA RelocateAllWhole ==
    ASSUME Whole(Now), NEW from \in Room, NEW to \in Room, RelocateAll(from, to)
    PROVE  Whole(Now)'
<1> DEFINE s == Now
           t == Ferried(s, from, to)
<1>1. from # to /\ Becomes(t) /\ Whole(s) /\ t = Ferried(s, from, to)
  BY DEF RelocateAll, Ferried
<1> HIDE DEF s, t
<1> QED
  BY <1>1, FerriedWhole, Became

-----------------------------------------------------------------------------
(* Commands: with the one object o in hand, and without.                   *)

LEMMA PickedUp ==
    ASSUME NEW s, NEW A, Sound(s, {}, {}, A, {}, {}), NEW o \in Obj, NEW Y, Y = {o},
           NEW r \in Room, o \in s.held[r], NEW t, t = ObjFromRoom(s, o)
    PROVE  Sound(t, Y, {}, A, {}, {}) /\ t.loc = s.loc
<1> DEFINE Z == {} \cup {o}
<1>1. Z = Y
  OBVIOUS
<1>2. s.in_room[o] # NOWHERE
  BY Kinds DEF Sound, Placed, ListsTrue, RoomOf, Holder
<1>3. Sound(t, Z, {}, A, {}, {}) /\ t.loc = s.loc
  BY <1>2, FromRoomSound
<1> HIDE DEF Z
<1> QED
  BY <1>1, <1>3

LEMMA TakenOut ==
    ASSUME NEW s, NEW A, Sound(s, {}, {}, A, {}, {}), NEW o \in Obj, NEW Y, Y = {o},
           NEW b \in Bag \cup Corpse, o \in s.held[b], NEW t, t = ObjFromObj(s, o)
    PROVE  Sound(t, Y, {}, A, {}, {}) /\ t.loc = s.loc
<1> DEFINE Z == {} \cup {o}
<1>1. Z = Y
  OBVIOUS
<1>2. s.in_obj[o] # Null
  BY Kinds DEF Sound, Placed, ListsTrue, ContainerOf, Holder
<1>3. Sound(t, Z, {}, A, {}, {}) /\ t.loc = s.loc
  BY <1>2, FromObjSound
<1> HIDE DEF Z
<1> QED
  BY <1>1, <1>3

LEMMA LetGoOf ==
    ASSUME NEW s, NEW A, Sound(s, {}, {}, A, {}, {}), NEW o \in Obj, NEW Y, Y = {o},
           NEW c \in Char, o \in s.held[c], NEW t, t = ObjFromChar(s, o)
    PROVE  /\ Sound(t, Y, {}, A, {}, {}) /\ t.loc = s.loc /\ t.live = s.live
           /\ t.worn = s.worn /\ t.carried_by[o] = Null
<1> DEFINE Z == {} \cup {o}
<1>1. Z = Y
  OBVIOUS
<1>2. c = s.carried_by[o]
  BY Kinds DEF Sound, Placed, ListsTrue, BearerOf, Holder
<1>3. /\ Sound(t, Z, {}, A, {}, {}) /\ t.loc = s.loc /\ t.live = s.live
      /\ t.worn = s.worn /\ t.carried_by[o] = Null
  BY <1>2, FromCharHeldSound
<1> HIDE DEF Z
<1> QED
  BY <1>1, <1>3

LEMMA TakenOff ==
    ASSUME NEW s, NEW A, Sound(s, {}, {}, A, {}, {}), NEW c \in Char, NEW p \in WearSlot,
           NEW o, o = s.worn[c][p], o # Null, NEW Y, Y = {o}, NEW t, t = DetachEquipment(s, c, p)
    PROVE  /\ Sound(t, Y, {}, A, {}, {}) /\ Remains(s, t)
           /\ t.worn = Upd(s.worn, c, Upd(s.worn[c], p, Null))
<1> DEFINE Z == {} \cup {o}
<1>1. Z = Y
  OBVIOUS
<1>2. /\ Sound(t, Z, {}, A, {}, {}) /\ Remains(s, t)
      /\ t.worn = Upd(s.worn, c, Upd(s.worn[c], p, Null))
  BY DetachSound
<1> HIDE DEF Z
<1> QED
  BY <1>1, <1>2

LEMMA HandedToChar ==
    ASSUME NEW s, NEW A, NEW o, NEW Y, Y = {o}, Sound(s, Y, {}, A, {}, {}),
           NEW c \in Char, c \in A, NEW t, t = ObjToChar(s, o, c)
    PROVE  Sound(t, {}, {}, A, {}, {}) /\ t.loc = s.loc /\ t.worn = s.worn
<1> DEFINE Z == Y \ {o}
<1>1. Z = {} /\ o \in Y
  OBVIOUS
<1>2. Sound(t, Z, {}, A, {}, {}) /\ t.loc = s.loc /\ t.worn = s.worn
  BY <1>1, ToCharSound
<1> HIDE DEF Z
<1> QED
  BY <1>1, <1>2

LEMMA HandedToRoom ==
    ASSUME NEW s, NEW A, NEW o, NEW Y, Y = {o}, Sound(s, Y, {}, A, {}, {}),
           NEW r \in Room, NEW t, t = ObjToRoom(s, o, r)
    PROVE  /\ Sound(t, {}, {}, A, {}, {}) /\ t.loc = s.loc /\ t.worn = s.worn
           /\ \A c \in Char : t.held[c] = s.held[c]
<1> DEFINE Z == Y \ {o}
<1>1. Z = {} /\ o \in Y
  OBVIOUS
<1>a. Z = Y \ {o}
  OBVIOUS
<1> HIDE DEF Z
<1>2. /\ Sound(t, Z, {}, A, {}, {}) /\ t.loc = s.loc /\ t.worn = s.worn
      /\ t.wrong = s.wrong /\ t.items = s.items
      /\ \A c \in Char : t.held[c] = s.held[c]
  BY <1>1, <1>a, ToRoomSound
<1> QED
  BY <1>1, <1>2

LEMMA HandedToObj ==
    ASSUME NEW s, NEW A, NEW o, NEW Y, Y = {o}, Sound(s, Y, {}, A, {}, {}),
           s.carried_by[o] = Null, NEW b \in Bag \cup Corpse, b \in s.live,
           NEW t, t = ObjToObj(s, o, b)
    PROVE  Sound(t, {}, {}, A, {}, {}) /\ t.loc = s.loc
<1> DEFINE Z == Y \ {o}
           M == {}
<1>1. Z = {} /\ M = {} /\ M \subseteq M /\ o \in Y /\ Z = Y \ {o}
  OBVIOUS
<1> HIDE DEF Z, M
<1>2. Sound(s, Y, M, A, {}, {})
  BY <1>1
<1>3. Sound(t, Z, M, A, {}, {})
  BY <1>1, <1>2, ToObjSound
<1>4. Fields(s) /\ Typed(s) /\ o \in Obj
  BY <1>1, InHand DEF Sound, Placed
<1>5. t.loc = s.loc
  BY <1>4, ToObjStays
<1> QED
  BY <1>1, <1>3, <1>5

LEMMA HandedOn ==
    ASSUME NEW s, NEW A, NEW o, NEW Y, Y = {o}, Sound(s, Y, {}, A, {}, {}),
           NEW c \in Char, c \in A, NEW p \in WearSlot, s.worn[c][p] = Null,
           NEW t, t = AttachEquipment(s, c, o, p)
    PROVE  Sound(t, {}, {}, A, {}, {}) /\ t.loc = s.loc
<1> DEFINE Z == Y \ {o}
<1>1. Z = {} /\ o \in Y
  OBVIOUS
<1>2. Sound(t, Z, {}, A, {}, {}) /\ t.loc = s.loc
  BY <1>1, AttachSound
<1> HIDE DEF Z
<1> QED
  BY <1>1, <1>2

LEMMA GotFromRoom ==
    ASSUME NEW s, Whole(s), NEW c \in Char, s.loc[c] # NOWHERE, NEW o \in Obj,
           o \in s.held[s.loc[c]], NEW u, u = ObjFromRoom(s, o), NEW t, t = ObjToChar(u, o, c)
    PROVE  Whole(t)
<1> DEFINE A == InGame(s)
           Y == {o}
           r == s.loc[c]
<1>1. /\ Sound(s, {}, {}, A, {}, {}) /\ Y = {o} /\ r \in Room /\ o \in s.held[r]
      /\ c \in A /\ A = InGame(s)
  BY DEF Whole, Sound, Placed, Typed, Place, InGame
<1> HIDE DEF A, Y, r
<1>2. Sound(u, Y, {}, A, {}, {}) /\ u.loc = s.loc
  BY <1>1, PickedUp
<1>3. Sound(t, {}, {}, A, {}, {}) /\ t.loc = u.loc
  BY <1>1, <1>2, HandedToChar
<1> QED
  BY <1>1, <1>2, <1>3, WholeIf

LEMMA GetFromRoomWhole ==
    ASSUME Whole(Now), NEW c \in Char, NEW o \in Obj, GetFromRoom(c, o)
    PROVE  Whole(Now)'
<1> DEFINE s == Now
           u == ObjFromRoom(s, o)
           t == ObjToChar(u, o, c)
<1>1. /\ Whole(s) /\ s.loc[c] # NOWHERE /\ o \in s.held[s.loc[c]] /\ Becomes(t)
      /\ u = ObjFromRoom(s, o) /\ t = ObjToChar(u, o, c)
  BY DEF GetFromRoom, Present, Now
<1> HIDE DEF s, u, t
<1> QED
  BY <1>1, GotFromRoom, Became

LEMMA GotFromContainer ==
    ASSUME NEW s, Whole(s), NEW c \in Char, s.loc[c] # NOWHERE, NEW o \in Obj,
           NEW b \in Bag \cup Corpse, o \in s.held[b],
           NEW u, u = ObjFromObj(s, o), NEW t, t = ObjToChar(u, o, c)
    PROVE  Whole(t)
<1> DEFINE A == InGame(s)
           Y == {o}
<1>1. Sound(s, {}, {}, A, {}, {}) /\ Y = {o} /\ c \in A /\ A = InGame(s)
  BY DEF Whole, InGame
<1> HIDE DEF A, Y
<1>2. Sound(u, Y, {}, A, {}, {}) /\ u.loc = s.loc
  BY <1>1, TakenOut
<1>3. Sound(t, {}, {}, A, {}, {}) /\ t.loc = u.loc
  BY <1>1, <1>2, HandedToChar
<1> QED
  BY <1>1, <1>2, <1>3, WholeIf

LEMMA GetFromContainerWhole ==
    ASSUME Whole(Now), NEW c \in Char, NEW o \in Obj, NEW b \in Bag \cup Corpse,
           GetFromContainer(c, o, b)
    PROVE  Whole(Now)'
<1> DEFINE s == Now
           u == ObjFromObj(s, o)
           t == ObjToChar(u, o, c)
<1>1. /\ Whole(s) /\ s.loc[c] # NOWHERE /\ o \in s.held[b] /\ Becomes(t)
      /\ u = ObjFromObj(s, o) /\ t = ObjToChar(u, o, c)
  BY DEF GetFromContainer, Present, Now
<1> HIDE DEF s, u, t
<1> QED
  BY <1>1, GotFromContainer, Became

LEMMA HasPut ==
    ASSUME NEW s, Whole(s), NEW c \in Char, NEW o \in Obj, o \in s.held[c],
           NEW b \in Bag \cup Corpse, b \in s.live,
           NEW u, u = ObjFromChar(s, o), NEW t, t = ObjToObj(u, o, b)
    PROVE  Whole(t)
<1> DEFINE A == InGame(s)
           Y == {o}
<1>1. Sound(s, {}, {}, A, {}, {}) /\ Y = {o} /\ A = InGame(s)
  BY DEF Whole
<1> HIDE DEF A, Y
<1>2. /\ Sound(u, Y, {}, A, {}, {}) /\ u.loc = s.loc /\ u.live = s.live
      /\ u.carried_by[o] = Null
  BY <1>1, LetGoOf
<1>3. b \in u.live
  BY <1>2
<1>4. Sound(t, {}, {}, A, {}, {}) /\ t.loc = u.loc
  BY <1>1, <1>2, <1>3, HandedToObj
<1> QED
  BY <1>1, <1>2, <1>4, WholeIf

LEMMA PerformPutWhole ==
    ASSUME Whole(Now), NEW c \in Char, NEW o \in Obj, NEW b \in Bag \cup Corpse,
           PerformPut(c, o, b)
    PROVE  Whole(Now)'
<1> DEFINE s == Now
           u == ObjFromChar(s, o)
           t == ObjToObj(u, o, b)
<1>1. /\ Whole(s) /\ s.loc[c] # NOWHERE /\ o \in s.held[c] /\ Becomes(t)
      /\ b \in s.held[c] \cup s.held[s.loc[c]]
      /\ u = ObjFromChar(s, o) /\ t = ObjToObj(u, o, b)
  BY DEF PerformPut, Present, InReach, Now
<1> HIDE DEF s, u, t
<1>2. b \in s.live
  <2>1. ListsTrue(s, {}, {}, InGame(s)) /\ c \in Holder /\ s.loc[c] \in Holder
    BY <1>1 DEF Whole, Sound, Placed, Typed, Place, Holder
  <2> QED
    BY <1>1, <2>1 DEF ListsTrue
<1>3. Whole(t)
  BY <1>1, <1>2, HasPut
<1> QED
  BY <1>1, <1>3, Became

LEMMA HasDropped ==
    ASSUME NEW s, Whole(s), NEW c \in Char, NEW o \in Obj, o \in s.held[c],
           NEW r \in Room, NEW u, u = ObjFromChar(s, o), NEW t, t = ObjToRoom(u, o, r)
    PROVE  Whole(t)
<1> DEFINE A == InGame(s)
           Y == {o}
<1>1. Sound(s, {}, {}, A, {}, {}) /\ Y = {o} /\ A = InGame(s)
  BY DEF Whole
<1> HIDE DEF A, Y
<1>2. Sound(u, Y, {}, A, {}, {}) /\ u.loc = s.loc
  BY <1>1, LetGoOf
<1>3. Sound(t, {}, {}, A, {}, {}) /\ t.loc = u.loc
  BY <1>1, <1>2, HandedToRoom
<1> QED
  BY <1>1, <1>2, <1>3, WholeIf

LEMMA PerformDropWhole ==
    ASSUME Whole(Now), NEW c \in Char, NEW o \in Obj, PerformDrop(c, o)
    PROVE  Whole(Now)'
<1> DEFINE s == Now
           r == s.loc[c]
           u == ObjFromChar(s, o)
           t == ObjToRoom(u, o, r)
<1>1. /\ Whole(s) /\ r # NOWHERE /\ o \in s.held[c] /\ Becomes(t) /\ r = s.loc[c]
      /\ u = ObjFromChar(s, o) /\ t = ObjToRoom(u, o, r)
  BY DEF PerformDrop, Present, Now
<1> HIDE DEF s, u, t, r
<1>2. r \in Room
  BY <1>1 DEF Whole, Sound, Placed, Typed, Place
<1>3. Whole(t)
  BY <1>1, <1>2, HasDropped
<1> QED
  BY <1>1, <1>3, Became

LEMMA HasGiven ==
    ASSUME NEW s, Whole(s), NEW c \in Char, NEW o \in Obj, o \in s.held[c],
           NEW d \in Char, s.loc[d] # NOWHERE,
           NEW u, u = ObjFromChar(s, o), NEW t, t = ObjToChar(u, o, d)
    PROVE  Whole(t)
<1> DEFINE A == InGame(s)
           Y == {o}
<1>1. Sound(s, {}, {}, A, {}, {}) /\ Y = {o} /\ d \in A /\ A = InGame(s)
  BY DEF Whole, InGame
<1> HIDE DEF A, Y
<1>2. Sound(u, Y, {}, A, {}, {}) /\ u.loc = s.loc
  BY <1>1, LetGoOf
<1>3. Sound(t, {}, {}, A, {}, {}) /\ t.loc = u.loc
  BY <1>1, <1>2, HandedToChar
<1> QED
  BY <1>1, <1>2, <1>3, WholeIf

LEMMA PerformGiveWhole ==
    ASSUME Whole(Now), NEW c \in Char, NEW d \in Char, NEW o \in Obj, PerformGive(c, d, o)
    PROVE  Whole(Now)'
<1> DEFINE s == Now
           u == ObjFromChar(s, o)
           t == ObjToChar(u, o, d)
<1>1. /\ Whole(s) /\ s.loc[d] # NOWHERE /\ o \in s.held[c] /\ Becomes(t)
      /\ u = ObjFromChar(s, o) /\ t = ObjToChar(u, o, d)
  BY DEF PerformGive, Present, Now
<1> HIDE DEF s, u, t
<1>2. Whole(t)
  BY <1>1, HasGiven
<1> QED
  BY <1>1, <1>2, Became

LEMMA UsedUp ==
    ASSUME NEW s, Whole(s), NEW o \in Obj, o \in s.live, NEW t, t = ExtractObj(s, o)
    PROVE  Whole(t)
<1> DEFINE A == InGame(s)
           X == {}
<1>1. Sound(s, X, {}, A, {}, {}) /\ X \subseteq {o} /\ A = InGame(s)
  BY DEF Whole
<1> HIDE DEF A, X
<1>2. Sound(t, {}, {}, A, {}, {}) /\ t.loc = s.loc
  BY <1>1, ExtractSound
<1> QED
  BY <1>1, <1>2, WholeIf

LEMMA UseUpWhole ==
    ASSUME Whole(Now), NEW c \in Char, NEW o \in Obj, UseUp(c, o)
    PROVE  Whole(Now)'
<1> DEFINE s == Now
           t == ExtractObj(s, o)
<1>1. Whole(s) /\ o \in s.held[c] /\ Becomes(t) /\ t = ExtractObj(s, o)
  BY DEF UseUp, Now
<1> HIDE DEF s, t
<1>2. o \in s.live
  BY <1>1, Kinds DEF Whole, Sound, Placed, ListsTrue, Holder
<1>3. Whole(t)
  BY <1>1, <1>2, UsedUp
<1> QED
  BY <1>1, <1>3, Became

\* A belt comes off with what hangs on it.
LEMMA Unbelted ==
    ASSUME NEW s, NEW A, Sound(s, {}, {}, A, {}, {}), NEW c \in Char, c \in A,
           NEW q, q = s.worn[c]["belt"], q # Null,
           NEW u, u = DetachEquipment(s, c, "belt"),
           NEW t, \/ t = ObjToRoom(u, q, u.loc[c]) /\ s.loc[c] # NOWHERE
                  \/ t = ObjToChar(u, q, c)
    PROVE  /\ Sound(t, {}, {}, A, {}, {}) /\ t.loc = s.loc /\ s.held[c] \subseteq t.held[c]
           /\ \A p \in WearSlot : s.worn[c][p] = Null => t.worn[c][p] = Null
<1> DEFINE Y == {q}
<1>1. Y = {q} /\ "belt" \in WearSlot
  BY DEF WearSlot
<1> HIDE DEF Y
<1>2. /\ Sound(u, Y, {}, A, {}, {}) /\ Remains(s, u)
      /\ u.worn = Upd(s.worn, c, Upd(s.worn[c], "belt", Null))
  BY <1>1, TakenOff
<1>3. u.loc = s.loc /\ u.held = s.held
  BY <1>2 DEF Remains
<1>4. \A p \in WearSlot : s.worn[c][p] = Null => u.worn[c][p] = Null
  <2>1. s.worn \in [Char -> [WearSlot -> Obj \cup {Null}]]
    BY DEF Sound, Placed, Typed
  <2>2. u.worn[c] = Upd(s.worn[c], "belt", Null)
    BY <1>2, <2>1 DEF Upd
  <2> QED
    BY <2>1, <2>2 DEF Upd
<1>5. Sound(t, {}, {}, A, {}, {}) /\ t.loc = u.loc /\ t.worn = u.worn /\ u.held[c] \subseteq t.held[c]
  <2>1. CASE t = ObjToRoom(u, q, u.loc[c]) /\ s.loc[c] # NOWHERE
    <3> DEFINE r == u.loc[c]
    <3>1. r \in Room
      <4>1. s.loc \in [Char -> Place] /\ s.loc[c] # NOWHERE
        BY <2>1 DEF Sound, Placed, Typed
      <4> QED
        BY <1>3, <4>1 DEF Place
    <3>2. t = ObjToRoom(u, q, r)
      BY <2>1
    <3> HIDE DEF r
    <3>3. /\ Sound(t, {}, {}, A, {}, {}) /\ t.loc = u.loc /\ t.worn = u.worn
          /\ \A d \in Char : t.held[d] = u.held[d]
      BY <1>1, <1>2, <3>1, <3>2, HandedToRoom
    <3> QED
      BY <3>3
  <2>2. CASE t = ObjToChar(u, q, c)
    <3>1. Sound(u, Y, {}, A, {}, {}) /\ Y = {q}
      BY <1>1, <1>2
    <3>2. Sound(t, {}, {}, A, {}, {}) /\ t.loc = u.loc /\ t.worn = u.worn
      BY <2>2, <3>1, HandedToChar
    <3>3. t.held[c] = u.held[c] \cup {q}
      <4>1. Fields(u) /\ Typed(u) /\ q \in Obj
        BY <3>1, InHand DEF Sound, Placed
      <4>2. t.held = Upd(u.held, c, u.held[c] \cup {q})
        BY <2>2, <4>1, ToCharFrame
      <4> QED
        BY <4>1, <4>2 DEF Typed, Upd, Holder
    <3> QED
      BY <3>2, <3>3
  <2> QED
    BY <2>1, <2>2
<1> QED
  BY <1>3, <1>4, <1>5

\* What is removed is carried, and so or on the floor is what came off with it.
LEMMA RemovedSound ==
    ASSUME NEW s, NEW A, Sound(s, {}, {}, A, {}, {}), NEW c \in Char, c \in A,
           s.loc[c] # NOWHERE, NEW p \in WearSlot, s.worn[c][p] # Null,
           NEW t, t = Removed(s, c, p)
    PROVE  /\ Sound(t, {}, {}, A, {}, {}) /\ t.loc = s.loc /\ s.held[c] \subseteq t.held[c]
           /\ s.items[c] < MaxItems => t.worn[c][p] = Null
<1> DEFINE o == s.worn[c][p]
           Y == {o}
           v == DetachEquipment(s, c, p)
           w == ObjToChar(v, o, c)
           q == w.worn[c]["belt"]
           u == DetachEquipment(w, c, "belt")
<1>1. t = IF s.items[c] >= MaxItems THEN s
          ELSE IF p # "waist" \/ q = Null THEN w
          ELSE IF w.items[c] >= MaxItems THEN ObjToRoom(u, q, u.loc[c]) ELSE ObjToChar(u, q, c)
  BY DEF Removed
<1>a. /\ o = s.worn[c][p] /\ Y = {o} /\ v = DetachEquipment(s, c, p) /\ w = ObjToChar(v, o, c)
      /\ q = w.worn[c]["belt"] /\ u = DetachEquipment(w, c, "belt") /\ o # Null
  OBVIOUS
<1> HIDE DEF o, Y, v, w, q, u
<1>2. /\ Sound(v, Y, {}, A, {}, {}) /\ Remains(s, v)
      /\ v.worn = Upd(s.worn, c, Upd(s.worn[c], p, Null))
  BY <1>a, TakenOff
<1>3. v.loc = s.loc /\ v.held = s.held
  BY <1>2 DEF Remains
<1>4. v.worn[c][p] = Null
  BY <1>2 DEF Sound, Placed, Typed, Upd
<1>5. /\ Sound(w, {}, {}, A, {}, {}) /\ w.loc = v.loc /\ w.worn = v.worn
      /\ v.held[c] \subseteq w.held[c]
  <2>1. Y = {o} /\ w = ObjToChar(v, o, c) /\ Sound(v, Y, {}, A, {}, {})
    BY <1>2, <1>a
  <2>2. Sound(w, {}, {}, A, {}, {}) /\ w.loc = v.loc /\ w.worn = v.worn
    BY <2>1, HandedToChar
  <2>3. w.held[c] = v.held[c] \cup {o}
    <3>1. Fields(v) /\ Typed(v) /\ o \in Obj
      BY <2>1, InHand DEF Sound, Placed
    <3>2. w.held = Upd(v.held, c, v.held[c] \cup {o})
      BY <2>1, <3>1, ToCharFrame
    <3> QED
      BY <3>1, <3>2 DEF Typed, Upd, Holder
  <2> QED
    BY <2>2, <2>3
<1>6. CASE s.items[c] >= MaxItems
  <2>1. ~(s.items[c] < MaxItems)
    BY <1>6, ObjAssumption DEF Sound, Placed, Typed
  <2> QED
    BY <1>1, <1>6, <2>1
<1>7. CASE ~(s.items[c] >= MaxItems) /\ (p # "waist" \/ q = Null)
  BY <1>1, <1>3, <1>4, <1>5, <1>7
<1>8. CASE ~(s.items[c] >= MaxItems) /\ p = "waist" /\ q # Null
  <2>1. \/ t = ObjToRoom(u, q, u.loc[c]) /\ w.loc[c] # NOWHERE
        \/ t = ObjToChar(u, q, c)
    BY <1>1, <1>3, <1>5, <1>8
  <2>2. /\ Sound(t, {}, {}, A, {}, {}) /\ t.loc = w.loc /\ w.held[c] \subseteq t.held[c]
        /\ \A x \in WearSlot : w.worn[c][x] = Null => t.worn[c][x] = Null
    <3>1. /\ Sound(w, {}, {}, A, {}, {}) /\ q = w.worn[c]["belt"] /\ q # Null
          /\ u = DetachEquipment(w, c, "belt")
      BY <1>5, <1>8, <1>a
    <3> QED
      BY <2>1, <3>1, Unbelted
  <2> QED
    BY <1>3, <1>4, <1>5, <2>2
<1> QED
  BY <1>6, <1>7, <1>8

LEMMA PerformRemoveWhole ==
    ASSUME Whole(Now), NEW c \in Char, NEW p \in WearSlot, PerformRemove(c, p)
    PROVE  Whole(Now)'
<1> DEFINE s == Now
           A == InGame(s)
           t == Removed(s, c, p)
<1>1. /\ Whole(s) /\ s.loc[c] # NOWHERE /\ s.worn[c][p] # Null /\ Becomes(t)
      /\ A = InGame(s) /\ t = Removed(s, c, p)
  BY DEF PerformRemove, Present, Now
<1>2. Sound(s, {}, {}, A, {}, {}) /\ c \in A
  BY <1>1 DEF Whole, InGame
<1> HIDE DEF s, A, t
<1>3. Sound(t, {}, {}, A, {}, {}) /\ t.loc = s.loc
  BY <1>1, <1>2, RemovedSound
<1>4. Whole(t)
  BY <1>1, <1>3, WholeIf
<1> QED
  BY <1>1, <1>4, Became

\* What is worn in its place comes off first.
LEMMA PutOn ==
    ASSUME NEW s, Whole(s), NEW c \in Char, s.loc[c] # NOWHERE, NEW o \in Obj, o \in s.held[c],
           NEW p \in WearSlot, s.worn[c][p] # Null => s.items[c] < MaxItems,
           NEW u, u = IF s.worn[c][p] = Null THEN s ELSE Removed(s, c, p),
           NEW v, v = ObjFromChar(u, o),
           NEW t, t = ObjToChar(v, o, c) \/ t = AttachEquipment(v, c, o, p)
    PROVE  Whole(t)
<1> DEFINE A == InGame(s)
           Y == {o}
<1>1. Sound(s, {}, {}, A, {}, {}) /\ Y = {o} /\ A = InGame(s) /\ c \in A
  BY DEF Whole, InGame
<1> HIDE DEF A, Y
<1>2. /\ Sound(u, {}, {}, A, {}, {}) /\ u.loc = s.loc /\ o \in u.held[c]
      /\ u.worn[c][p] = Null
  <2>1. CASE s.worn[c][p] = Null
    BY <1>1, <2>1
  <2>2. CASE s.worn[c][p] # Null
    <3>1. u = Removed(s, c, p)
      BY <2>2
    <3>2. /\ Sound(u, {}, {}, A, {}, {}) /\ u.loc = s.loc /\ s.held[c] \subseteq u.held[c]
          /\ s.items[c] < MaxItems => u.worn[c][p] = Null
      BY <1>1, <2>2, <3>1, RemovedSound
    <3> QED
      BY <2>2, <3>2
  <2> QED
    BY <2>1, <2>2
<1>3. Sound(v, Y, {}, A, {}, {}) /\ v.loc = u.loc /\ v.worn = u.worn
  BY <1>1, <1>2, LetGoOf
<1>4. v.worn[c][p] = Null
  BY <1>2, <1>3
<1>5. Sound(t, {}, {}, A, {}, {}) /\ t.loc = v.loc
  <2>1. CASE t = ObjToChar(v, o, c)
    BY <1>1, <1>3, <2>1, HandedToChar
  <2>2. CASE t = AttachEquipment(v, c, o, p)
    BY <1>1, <1>3, <1>4, <2>2, HandedOn
  <2> QED
    BY <2>1, <2>2
<1> QED
  BY <1>1, <1>2, <1>3, <1>5, WholeIf

LEMMA PerformWearWhole ==
    ASSUME Whole(Now), NEW c \in Char, NEW o \in Obj, NEW p \in WearSlot, NEW zapped \in BOOLEAN,
           PerformWear(c, o, p, zapped)
    PROVE  Whole(Now)'
<1> DEFINE s == Now
           u == IF s.worn[c][p] = Null THEN s ELSE Removed(s, c, p)
           v == ObjFromChar(u, o)
           t1 == ObjToChar(v, o, c)
           t2 == AttachEquipment(v, c, o, p)
<1>1. /\ Whole(s) /\ s.loc[c] # NOWHERE /\ o \in s.held[c]
      /\ s.worn[c][p] # Null => s.items[c] < MaxItems
      /\ s.worn = worn
  BY DEF PerformWear, Present, Now
<1>2. Becomes(t1) \/ Becomes(t2)
  <2>1. Becomes(IF zapped THEN t1 ELSE t2)
    BY <1>1 DEF PerformWear
  <2> HIDE DEF t1, t2
  <2> QED
    BY <2>1
<1>3. /\ u = IF s.worn[c][p] = Null THEN s ELSE Removed(s, c, p)
      /\ v = ObjFromChar(u, o) /\ t1 = ObjToChar(v, o, c) /\ t2 = AttachEquipment(v, c, o, p)
  OBVIOUS
<1> HIDE DEF s, u, v, t1, t2
<1>4. Whole(t1) /\ Whole(t2)
  BY <1>1, <1>3, PutOn
<1> QED
  BY <1>2, <1>4, Became

-----------------------------------------------------------------------------
(* A lamp is lit or put out where it is.                                   *)

Kindled(s, o, r, x, k) == [s EXCEPT !.lit[o] = x, !.light[r] = @ + k]

LEMMA ShownOnce ==
    ASSUME NEW s, NEW X, NEW A, Placed(s, X, {}, A), NEW r \in Room, NEW q \in Room, q # r,
           NEW o \in Shown(s, r)
    PROVE  o \notin Shown(s, q)
<1>1. r \in Holder /\ q \in Holder /\ ListsTrue(s, X, {}, A) /\ WornTrue(s, X, A)
  BY DEF Placed, Holder
<1>2. o # Null
  BY ObjAssumption DEF Shown
<1>3. CASE o \in s.held[r]
  <2>1. o \notin s.held[q]
    BY <1>1, <1>3 DEF ListsTrue
  <2>2. \A c \in Char, p \in WearSlot : s.worn[c][p] # o
    BY <1>1, <1>2, <1>3 DEF WornTrue
  <2> QED
    BY <2>1, <2>2 DEF Shown
<1>4. CASE \E c \in Char, p \in WearSlot : s.loc[c] = r /\ s.worn[c][p] = o
  <2>1. PICK c \in Char, p \in WearSlot : s.loc[c] = r /\ s.worn[c][p] = o
    BY <1>4
  <2>2. o \notin s.held[q]
    BY <1>1, <1>2, <2>1 DEF WornTrue
  <2>3. \A d \in Char, x \in WearSlot : s.worn[d][x] = o => d = c
    BY <1>1, <1>2, <2>1 DEF WornTrue
  <2> QED
    BY <2>1, <2>2, <2>3 DEF Shown
<1> QED
  BY <1>3, <1>4 DEF Shown

LEMMA KindledWhole ==
    ASSUME NEW s, Whole(s), NEW o \in Lamp, NEW r \in Room, o \in Shown(s, r),
           NEW x, NEW k, \/ s.lit[o] = 0 /\ x = 1 /\ k = 1
                         \/ s.lit[o] = 1 /\ x = 0 /\ k = -1,
           NEW t, t = Kindled(s, o, r, x, k)
    PROVE  Whole(t)
<1>0. /\ Fields(s) /\ Typed(s) /\ Counted(s, {}) /\ Lighted(s, {})
      /\ Placed(s, {}, {}, InGame(s)) /\ Lamp \subseteq Obj
  BY ObjAssumption DEF Whole, Sound, Placed
<1>1. /\ Fields(t) /\ Remains(s, t) /\ t.worn = s.worn /\ t.carried_by = s.carried_by
      /\ t.wrong = s.wrong /\ t.lit = Upd(s.lit, o, x) /\ t.light = Upd(s.light, r, s.light[r] + k)
  BY <1>0 DEF Fields, Remains, Kindled, Upd
<1>2. /\ t.lit \in [Obj -> {-1, 0, 1}] /\ t.lit[o] = x
      /\ \A y \in Obj : y # o => t.lit[y] = s.lit[y]
  BY <1>0, <1>1 DEF Typed, Upd
<1>3. /\ t.light \in [Room -> Int] /\ t.light[r] = s.light[r] + k
      /\ \A q \in Room : q # r => t.light[q] = s.light[q]
  BY <1>0, <1>1 DEF Typed, Upd
<1>4. Typed(t)
  BY <1>0, <1>1, <1>2, <1>3 DEF Typed, Remains
<1>5. Placed(t, {}, {}, InGame(s)) /\ Counted(t, {})
  <2>1. Placed(t, {}, {}, InGame(s))
    BY <1>0, <1>1, <1>4, Unmoved DEF Remains
  <2> QED
    BY <1>0, <1>1, <2>1 DEF Remains, Counted
<1>6. ASSUME NEW q \in Room PROVE \A y \in Obj : y \in Shown(t, q) <=> y \in Shown(s, q)
  BY <1>1 DEF Remains, Shown
<1>7. Lighted(t, {})
  <2> SUFFICES ASSUME NEW q \in Room, <<q, "light">> \notin t.wrong
               PROVE  t.light[q] >= Cardinality(Alight(t, q))
    BY DEF Lighted
  <2>1. /\ s.light[q] >= Cardinality(Alight(s, q)) /\ s.light[q] \in Int
        /\ Cardinality(Alight(s, q)) \in Nat /\ Cardinality(Alight(t, q)) \in Nat
        /\ IsFiniteSet(Alight(s, q)) /\ IsFiniteSet(Alight(t, q))
    BY <1>0, <1>1, AlightFinite DEF Lighted, Typed
  <2>2. CASE q # r
    <3>1. o \notin Shown(s, q)
      BY <1>0, <2>2, ShownOnce
    <3>2. Alight(t, q) = Alight(s, q)
      BY <1>0, <1>2, <1>6, <3>1, AlightShown
    <3> QED
      BY <1>3, <2>1, <2>2, <3>2
  <2>3. CASE q = r /\ x = 1 /\ k = 1 /\ s.lit[o] = 0
    <3>1. Alight(t, q) \subseteq Alight(s, q) \cup {o} /\ o \notin Alight(s, q)
      BY <1>0, <1>2, <1>6, <2>3, AlightShown
    <3>2. /\ IsFiniteSet(Alight(s, q) \cup {o})
          /\ Cardinality(Alight(s, q) \cup {o}) = Cardinality(Alight(s, q)) + 1
      BY <2>1, <3>1, FS_AddElement
    <3>3. Cardinality(Alight(t, q)) <= Cardinality(Alight(s, q)) + 1
      BY <3>1, <3>2, FS_Subset
    <3> QED
      BY <1>3, <2>1, <2>3, <3>3
  <2>4. CASE q = r /\ x = 0 /\ k = -1 /\ s.lit[o] = 1
    <3>1. Alight(t, q) = Alight(s, q) \ {o} /\ o \in Alight(s, q)
      BY <1>0, <1>2, <1>6, <2>4, AlightShown
    <3>2. Cardinality(Alight(t, q)) = Cardinality(Alight(s, q)) - 1
      BY <2>1, <3>1, FS_RemoveElement
    <3> QED
      BY <1>3, <2>1, <2>4, <3>2
  <2> QED
    BY <2>2, <2>3, <2>4
<1>8. t.loc = s.loc
  BY <1>1 DEF Remains
<1> QED
  BY <1>5, <1>7, <1>8, WholeIf DEF Sound

LEMMA ToKindle ==
    ASSUME Whole(Now), NEW c \in Char, NEW o \in Lamp, Present(c),
           o \in held[loc[c]] \cup WornBy(Now, c)
    PROVE  Now.loc[c] \in Room /\ o \in Shown(Now, Now.loc[c])
<1> DEFINE s == Now
<1>1. s.loc[c] # NOWHERE /\ o \in s.held[s.loc[c]] \cup WornBy(s, c) /\ Whole(s)
  BY DEF Present, Now
<1> HIDE DEF s
<1>2. s.loc[c] \in Room
  BY <1>1 DEF Whole, Sound, Placed, Typed, Place
<1>3. o \in Shown(s, s.loc[c])
  BY <1>1, ObjAssumption DEF Shown, WornBy
<1> QED
  BY <1>2, <1>3 DEF s

LEMMA DoLightWhole ==
    ASSUME Whole(Now), NEW c \in Char, NEW o \in Obj, DoLight(c, o)
    PROVE  Whole(Now)'
<1> DEFINE s == Now
           r == s.loc[c]
           t == Kindled(s, o, r, 1, 1)
<1>1. o \in Lamp /\ s.lit[o] = 0 /\ Becomes(t) /\ Whole(s)
  BY DEF DoLight, Kindled, Now
<1>2. r \in Room /\ o \in Shown(s, r)
  BY <1>1, ToKindle DEF DoLight
<1>3. t = Kindled(s, o, r, 1, 1)
  OBVIOUS
<1> HIDE DEF s, r, t
<1>4. Whole(t)
  BY <1>1, <1>2, <1>3, KindledWhole
<1> QED
  BY <1>1, <1>4, Became

LEMMA DoBlowoutWhole ==
    ASSUME Whole(Now), NEW c \in Char, NEW o \in Obj, DoBlowout(c, o)
    PROVE  Whole(Now)'
<1> DEFINE s == Now
           r == s.loc[c]
           t == Kindled(s, o, r, 0, -1)
<1>1. o \in Lamp /\ s.lit[o] = 1 /\ Whole(s)
  BY DEF DoBlowout, Now
<1>2. r \in Room /\ o \in Shown(s, r)
  BY <1>1, ToKindle DEF DoBlowout
<1>3. Becomes(t)
  <2>1. s.light[r] \in Int
    BY <1>1, <1>2 DEF Whole, Sound, Placed, Typed
  <2>2. s.light[r] - 1 = s.light[r] + (-1)
    BY <2>1
  <2>3. Becomes([s EXCEPT !.lit[o] = 0, !.light[r] = s.light[r] - 1])
    BY DEF DoBlowout, Now
  <2>4. [s EXCEPT !.lit[o] = 0, !.light[r] = s.light[r] - 1] = t
    BY <2>2 DEF Kindled, Now
  <2> QED
    BY <2>3, <2>4
<1>4. t = Kindled(s, o, r, 0, -1)
  OBVIOUS
<1> HIDE DEF s, r, t
<1>5. Whole(t)
  BY <1>1, <1>2, <1>4, KindledWhole
<1> QED
  BY <1>3, <1>5, Became

-----------------------------------------------------------------------------
(* The hour's pass.                                                        *)

PutOutAt(s, o) == [s EXCEPT !.lit[o] = 0]

LEMMA PutOutWhole ==
    ASSUME NEW s, Whole(s), NEW o \in Lamp, NEW t, t = PutOutAt(s, o)
    PROVE  Whole(t) /\ Remains(s, t)
<1>0. /\ Fields(s) /\ Typed(s) /\ Counted(s, {}) /\ Lighted(s, {})
      /\ Placed(s, {}, {}, InGame(s)) /\ Lamp \subseteq Obj
  BY ObjAssumption DEF Whole, Sound, Placed
<1>1. /\ Fields(t) /\ Remains(s, t) /\ t.worn = s.worn /\ t.carried_by = s.carried_by
      /\ t.wrong = s.wrong /\ t.lit = Upd(s.lit, o, 0) /\ t.light = s.light
  BY <1>0 DEF Fields, Remains, PutOutAt, Upd
<1>2. /\ t.lit \in [Obj -> {-1, 0, 1}]
      /\ \A y \in Obj : t.lit[y] = s.lit[y] \/ t.lit[y] = 0
  BY <1>0, <1>1 DEF Typed, Upd
<1>3. Typed(t)
  BY <1>0, <1>1, <1>2 DEF Typed, Remains
<1>4. Placed(t, {}, {}, InGame(s)) /\ Counted(t, {})
  <2>1. Placed(t, {}, {}, InGame(s))
    BY <1>0, <1>1, <1>3, Unmoved DEF Remains
  <2> QED
    BY <1>0, <1>1, <2>1 DEF Remains, Counted
<1>5. NoBrighter(s, t)
  <2>1. ASSUME NEW q \in Room, NEW y \in Shown(t, q)
        PROVE  y \in Shown(s, q) /\ y \in Obj
    BY <1>1 DEF Remains, Shown
  <2> QED
    BY <1>1, <1>2, <2>1 DEF NoBrighter
<1>6. Lighted(t, {})
  BY <1>0, <1>5, LightedLess
<1>7. t.loc = s.loc
  BY <1>1 DEF Remains
<1> QED
  BY <1>1, <1>4, <1>6, <1>7, WholeIf DEF Sound

LEMMA BurntOut ==
    ASSUME NEW s, Whole(s), NEW o \in Lamp, o \in s.live, NEW u, u = PutOutAt(s, o),
           NEW r \in Place, NEW v, v = IF r = NOWHERE THEN u ELSE RecountLightRoom(u, r),
           NEW t, t = ExtractObj(v, o)
    PROVE  Whole(t)
<1>1. Whole(u) /\ Remains(s, u)
  BY PutOutWhole
<1>2. Whole(v) /\ v.live = s.live
  <2>1. CASE r = NOWHERE
    BY <1>1, <2>1 DEF Remains
  <2>2. CASE r # NOWHERE
    <3> DEFINE D == {} \cup {r}
               A == InGame(u)
    <3>1. r \in Room /\ v = RecountLightRoom(u, r)
      BY <2>2 DEF Place
    <3>2. Sound(u, {}, {}, A, {}, D)
      BY <1>1 DEF Whole, Sound, Lighted
    <3> HIDE DEF A
    <3>3. Sound(v, {}, {}, A, {}, {}) /\ Remains(u, v)
      BY <3>1, <3>2, RecountSound
    <3>4. v.loc = u.loc /\ v.live = u.live
      BY <3>3 DEF Remains
    <3> QED
      BY <1>1, <3>3, <3>4, WholeIf DEF A, Remains
  <2> QED
    BY <2>1, <2>2
<1>3. o \in Obj /\ o \in v.live
  BY <1>2, ObjAssumption
<1> QED
  BY <1>2, <1>3, UsedUp

LEMMA BurnOutWhole ==
    ASSUME Whole(Now), NEW o \in Obj, BurnOut(o)
    PROVE  Whole(Now)'
<1> DEFINE s == Now
           c == s.carried_by[o]
           r == IF c # Null THEN s.loc[c] ELSE s.in_room[o]
           u == PutOutAt(s, o)
           v == IF r = NOWHERE THEN u ELSE RecountLightRoom(u, r)
           t == ExtractObj(v, o)
<1>1. o \in Lamp /\ o \in s.live /\ Becomes(t) /\ Whole(s)
  BY DEF BurnOut, PutOutAt, Now
<1>2. /\ u = PutOutAt(s, o) /\ v = IF r = NOWHERE THEN u ELSE RecountLightRoom(u, r)
      /\ t = ExtractObj(v, o) /\ c = s.carried_by[o]
      /\ r = IF c # Null THEN s.loc[c] ELSE s.in_room[o]
  OBVIOUS
<1> HIDE DEF s, c, r, u, v, t
<1>3. r \in Place
  <2>1. Typed(s)
    BY <1>1 DEF Whole, Sound, Placed
  <2> QED
    BY <1>2, <2>1 DEF Typed
<1>4. Whole(t)
  BY <1>1, <1>2, <1>3, BurntOut
<1> QED
  BY <1>1, <1>4, Became

\* The objects of M are in nothing.
Loosened(s, M) == [s EXCEPT !.in_obj = [x \in Obj |-> IF x \in M THEN Null ELSE @[x]]]

LEMMA SpiltWhole ==
    ASSUME NEW s, Whole(s), NEW o \in Bag \cup Corpse, NEW r \in Room,
           NEW M, M = s.held[o], NEW u, u = Scatter(s, o, r), NEW t, t = Loosened(u, M)
    PROVE  Whole(t) /\ t.live = s.live
<1> DEFINE A == InGame(s)
           F == {o}
           E == {}
           w == Splice(s, o, r)
           Y == {x \in s.held[o] : Shine(s, x) = 1}
<1>0. /\ Sound(s, {}, {}, A, E, {}) /\ Placed(s, {}, {}, A) /\ Fields(s) /\ Typed(s)
      /\ o \in Holder /\ o \notin Room /\ o \notin Char /\ o \in Obj /\ o # r
      /\ r \in Holder /\ r \notin Obj /\ r \notin Char
  BY Kinds DEF Whole, Sound, Placed, Holder
<1>a. /\ E \cup {o} \subseteq F /\ s.held[o] \subseteq M /\ F = {o} /\ A = InGame(s)
      /\ w = Splice(s, o, r) /\ Y = {x \in s.held[o] : Shine(s, x) = 1}
  OBVIOUS
<1> HIDE DEF A, E, F, w, Y
<1>1. Sound(u, {}, M, A, F, {})
  BY <1>0, <1>a, ScatterSound
<1>2. /\ u.held[r] = s.held[r] \cup M /\ u.loc = s.loc /\ u.live = s.live
      /\ u.in_obj = s.in_obj /\ M \subseteq Obj
      /\ \A x \in M : u.carried_by[x] = Null
  <2>1. /\ w.held[r] = s.held[r] \cup s.held[o]
        /\ \A x \in Obj : w.carried_by[x] = IF x \in s.held[o] THEN Null ELSE s.carried_by[x]
    BY <1>0, <1>a, SpliceFrame
  <2>2. /\ u.live = s.live /\ u.loc = s.loc /\ u.in_obj = s.in_obj
        /\ u.held = w.held /\ u.carried_by = w.carried_by
    BY <1>0, <1>a, ScatterFrame
  <2>3. M \subseteq Obj
    BY <1>0 DEF Typed
  <2> QED
    BY <2>1, <2>2, <2>3
<1>3. /\ Fields(u) /\ Typed(u) /\ ListsTrue(u, {}, M, A) /\ WornTrue(u, {}, A)
      /\ NoneLost(u, {}) /\ LooseEnds(u, {}) /\ Counted(u, F) /\ Lighted(u, {})
  BY <1>1 DEF Sound, Placed
<1>4. /\ Fields(t) /\ t.live = u.live /\ t.loc = u.loc /\ t.held = u.held /\ t.worn = u.worn
      /\ t.in_room = u.in_room /\ t.carried_by = u.carried_by /\ t.items = u.items
      /\ t.lit = u.lit /\ t.light = u.light /\ t.wrong = u.wrong
      /\ t.in_obj = [x \in Obj |-> IF x \in M THEN Null ELSE u.in_obj[x]]
  BY <1>3 DEF Fields, Loosened
<1>5. Typed(t)
  BY <1>3, <1>4 DEF Typed
<1>6. ListsTrue(t, {}, {}, A)
  <2> SUFFICES ASSUME NEW h \in Holder, NEW x \in t.held[h]
               PROVE  /\ x \in t.live
                      /\ t.in_room[x] = RoomOf(h)
                      /\ t.carried_by[x] = BearerOf(h) /\ t.in_obj[x] = ContainerOf(h)
                      /\ h \in Obj => h \in t.live
                      /\ h \in Char => h \in A
                      /\ \A g \in Holder : x \in t.held[g] => g = h
    BY DEF ListsTrue
  <2>1. /\ x \in u.live /\ x \in Obj
        /\ u.in_room[x] = RoomOf(h)
        /\ x \notin M => u.carried_by[x] = BearerOf(h) /\ u.in_obj[x] = ContainerOf(h)
        /\ h \in Obj => h \in u.live
        /\ h \in Char => h \in A
        /\ \A g \in Holder : x \in u.held[g] => g = h
    BY <1>3, <1>4 DEF ListsTrue, Typed
  <2>2. CASE x \in M
    <3>1. h = r
      BY <1>0, <1>2, <2>1, <2>2
    <3>2. t.carried_by[x] = BearerOf(h) /\ t.in_obj[x] = ContainerOf(h)
      BY <1>0, <1>2, <1>4, <2>1, <2>2, <3>1 DEF BearerOf, ContainerOf
    <3> QED
      BY <1>4, <2>1, <3>2
  <2>3. CASE x \notin M
    BY <1>4, <2>1, <2>3
  <2> QED
    BY <2>2, <2>3
<1>7. WornTrue(t, {}, A)
  <2>1. \A c \in Char, p \in WearSlot : u.worn[c][p] # Null =>
          t.in_obj[u.worn[c][p]] = Null
    <3> SUFFICES ASSUME NEW c \in Char, NEW p \in WearSlot, u.worn[c][p] # Null
                 PROVE  t.in_obj[u.worn[c][p]] = Null
      OBVIOUS
    <3>1. u.in_obj[u.worn[c][p]] = Null
      BY <1>3 DEF WornTrue
    <3>2. u.worn[c][p] \in Obj
      BY <1>3 DEF Typed
    <3> QED
      BY <1>4, <3>1, <3>2
  <2>2. /\ t.live = u.live /\ t.held = u.held /\ t.worn = u.worn
        /\ t.in_room = u.in_room /\ t.carried_by = u.carried_by
    BY <1>4
  <2> QED
    BY <1>3, <2>1, <2>2 DEF WornTrue
<1>8. NoneLost(t, {}) /\ LooseEnds(t, {})
  BY <1>3, <1>4 DEF NoneLost, LooseEnds
<1>9. Counted(t, {})
  <2>1. \A c \in Char : c \in Char \ F
    BY <1>0, <1>a
  <2>2. \A c \in Char : <<c, "items">> \in u.wrong \/ u.items[c] = Cardinality(u.held[c])
    BY <1>3, <2>1 DEF Counted
  <2>3. t.wrong = u.wrong /\ t.items = u.items /\ t.held = u.held
    BY <1>4
  <2> QED
    BY <2>2, <2>3 DEF Counted
<1>10. \A q \in Room : Shown(t, q) \subseteq Shown(u, q)
  BY <1>4 DEF Shown
<1>11. Lighted(t, {})
  BY <1>3, <1>4, <1>10, LightedSame
<1>12. Placed(t, {}, {}, A)
  BY <1>4, <1>5, <1>6, <1>7, <1>8 DEF Placed
<1>13. t.loc = s.loc /\ t.live = s.live
  BY <1>2, <1>4
<1>14. Whole(t)
  BY <1>9, <1>11, <1>12, <1>13, <1>a, WholeIf DEF Sound
<1> QED
  BY <1>13, <1>14

LEMMA DecayWhole ==
    ASSUME Whole(Now), NEW o \in Obj, Decay(o)
    PROVE  Whole(Now)'
<1> DEFINE s == Now
           r == s.in_room[o]
           M == s.held[o]
           u == Scatter(s, o, r)
           v == Loosened(u, M)
           t == ExtractObj(IF o \in Bag \cup Corpse THEN v ELSE s, o)
<1>1. o \in s.live /\ r # NOWHERE /\ Whole(s) /\ Becomes(t)
  BY DEF Decay, Loosened, Now
<1>2. /\ r = s.in_room[o] /\ M = s.held[o] /\ u = Scatter(s, o, r) /\ v = Loosened(u, M)
      /\ t = ExtractObj(IF o \in Bag \cup Corpse THEN v ELSE s, o)
  OBVIOUS
<1> HIDE DEF s, r, M, u, v, t
<1>3. r \in Room
  BY <1>1, <1>2 DEF Whole, Sound, Placed, Typed, Place
<1>4. CASE o \in Bag \cup Corpse
  <2>1. Whole(v) /\ v.live = s.live
    BY <1>1, <1>2, <1>3, <1>4, SpiltWhole
  <2>2. t = ExtractObj(v, o) /\ o \in v.live
    BY <1>1, <1>2, <1>4, <2>1
  <2>3. Whole(t)
    BY <2>1, <2>2, UsedUp
  <2> QED
    BY <1>1, <2>3, Became
<1>5. CASE o \notin Bag \cup Corpse
  <2>1. t = ExtractObj(s, o)
    BY <1>2, <1>5
  <2>2. Whole(t)
    BY <1>1, <2>1, UsedUp
  <2> QED
    BY <1>1, <2>2, Became
<1> QED
  BY <1>4, <1>5

-----------------------------------------------------------------------------
(* The invariant of the objects.                                           *)

ObjIInv == Whole(Now)

LEMMA ObjInitWhole ==
    ASSUME ObjInit
    PROVE  ObjIInv
<1> DEFINE s == Now
<1>1. /\ Fields(s) /\ s.live = {} /\ s.wrong = {}
      /\ s.loc = [c \in Char |-> NOWHERE] /\ s.held = [h \in Holder |-> {}]
      /\ s.worn = [c \in Char |-> [p \in WearSlot |-> Null]]
      /\ s.in_room = [o \in Obj |-> NOWHERE] /\ s.carried_by = [o \in Obj |-> Null]
      /\ s.in_obj = [o \in Obj |-> Null] /\ s.lit = [o \in Obj |-> Burn(o)]
      /\ s.light = [r \in Room |-> 0] /\ s.items = [c \in Char |-> 0]
  BY DEF ObjInit, Fields, Now
<1> HIDE DEF s
<1>2. Typed(s)
  <2>1. s.lit \in [Obj -> {-1, 0, 1}]
    BY <1>1 DEF Burn
  <2>2. /\ s.loc \in [Char -> Place] /\ s.held \in [Holder -> SUBSET Obj]
        /\ s.in_room \in [Obj -> Place] /\ s.carried_by \in [Obj -> Char \cup {Null}]
    BY <1>1 DEF Place
  <2>3. /\ s.worn \in [Char -> [WearSlot -> Obj \cup {Null}]]
        /\ s.in_obj \in [Obj -> Bag \cup Corpse \cup {Null}]
        /\ s.light \in [Room -> Int] /\ s.items \in [Char -> Int]
    BY <1>1
  <2> QED
    BY <1>1, <2>1, <2>2, <2>3 DEF Typed
<1>3. /\ \A h \in Holder : s.held[h] = {}
      /\ \A c \in Char, p \in WearSlot : s.worn[c][p] = Null
      /\ \A o \in Obj : s.in_room[o] = NOWHERE /\ s.carried_by[o] = Null /\ s.in_obj[o] = Null
  BY <1>1
<1>4. Placed(s, {}, {}, InGame(s))
  BY <1>1, <1>2, <1>3 DEF Placed, ListsTrue, WornTrue, NoneLost, LooseEnds
<1>5. Cardinality({}) = 0
  BY FS_EmptySet
<1>6. Counted(s, {})
  BY <1>1, <1>3, <1>5 DEF Counted, Holder
<1>7. \A r \in Room : Alight(s, r) = {}
  <2>1. ASSUME NEW r \in Room, NEW o \in Lamp PROVE o \notin Shown(s, r)
    BY <1>3, ObjAssumption DEF Shown, Holder
  <2> QED
    BY <2>1, AlightShown
<1>8. Lighted(s, {})
  <2> SUFFICES ASSUME NEW r \in Room PROVE s.light[r] >= Cardinality(Alight(s, r))
    BY DEF Lighted
  <2>1. s.light[r] = 0
    BY <1>1
  <2>2. Cardinality(Alight(s, r)) = 0
    BY <1>5, <1>7
  <2> QED
    BY <2>1, <2>2
<1> QED
  BY <1>4, <1>6, <1>8 DEF Sound, Whole, ObjIInv, s

LEMMA ObjStutter ==
    ASSUME ObjIInv, UNCHANGED objVars
    PROVE  ObjIInv'
<1>1. Becomes(Now)
  BY DEF objVars, Becomes, Now
<1> QED
  BY <1>1, Became DEF ObjIInv

LEMMA CommandKeeps ==
    ASSUME ObjIInv, NEW c \in Char, Command(c)
    PROVE  ObjIInv'
<1> USE DEF ObjIInv
<1>1. ASSUME NEW o \in Obj, GetFromRoom(c, o) PROVE ObjIInv'
  BY <1>1, GetFromRoomWhole
<1>2. ASSUME NEW o \in Obj, PerformDrop(c, o) PROVE ObjIInv'
  BY <1>2, PerformDropWhole
<1>3. ASSUME NEW o \in Obj, UseUp(c, o) PROVE ObjIInv'
  BY <1>3, UseUpWhole
<1>4. ASSUME NEW o \in Obj, DoLight(c, o) PROVE ObjIInv'
  BY <1>4, DoLightWhole
<1>5. ASSUME NEW o \in Obj, DoBlowout(c, o) PROVE ObjIInv'
  BY <1>5, DoBlowoutWhole
<1>6. ASSUME NEW o \in Obj, NEW b \in Bag \cup Corpse, GetFromContainer(c, o, b)
      PROVE  ObjIInv'
  BY <1>6, GetFromContainerWhole
<1>7. ASSUME NEW o \in Obj, NEW b \in Bag \cup Corpse, PerformPut(c, o, b) PROVE ObjIInv'
  BY <1>7, PerformPutWhole
<1>8. ASSUME NEW o \in Obj, NEW d \in Char, PerformGive(c, d, o) PROVE ObjIInv'
  BY <1>8, PerformGiveWhole
<1>9. ASSUME NEW o \in Obj, NEW p \in WearSlot, NEW zapped \in BOOLEAN,
             PerformWear(c, o, p, zapped)
      PROVE  ObjIInv'
  BY <1>9, PerformWearWhole
<1>10. ASSUME NEW p \in WearSlot, PerformRemove(c, p) PROVE ObjIInv'
  BY <1>10, PerformRemoveWhole
<1> QED
  BY <1>1, <1>2, <1>3, <1>4, <1>5, <1>6, <1>7, <1>8, <1>9, <1>10 DEF Command

LEMMA ObjNextKeeps ==
    ASSUME ObjIInv, ObjNext
    PROVE  ObjIInv'
<1> USE DEF ObjIInv
<1>1. ASSUME NEW c \in Char, Leave(c) PROVE ObjIInv'
  BY <1>1, LeaveWhole
<1>2. ASSUME NEW c \in Char, SpiritDies(c) PROVE ObjIInv'
  BY <1>2, SpiritDiesWhole
<1>3. ASSUME NEW c \in Char, NEW r \in Room, Enter(c, r) PROVE ObjIInv'
  BY <1>3, EnterWhole
<1>4. ASSUME NEW c \in Char, NEW r \in Room, Move(c, r) PROVE ObjIInv'
  BY <1>4, MoveWhole
<1>5. ASSUME NEW c \in Char, NEW k \in Corpse, NEW byPlayer \in BOOLEAN, Die(c, k, byPlayer)
      PROVE  ObjIInv'
  BY <1>5, DieWhole
<1>6. ASSUME NEW c \in Char, NEW written \in BOOLEAN, Rent(c, written) PROVE ObjIInv'
  BY <1>6, RentWhole
<1>7. ASSUME NEW o \in Obj, BurnOut(o) PROVE ObjIInv'
  BY <1>7, BurnOutWhole
<1>8. ASSUME NEW o \in Obj, Decay(o) PROVE ObjIInv'
  BY <1>8, DecayWhole
<1>9. ASSUME NEW o \in Obj, NEW h \in Holder, Load(o, h) PROVE ObjIInv'
  BY <1>9, LoadWhole
<1>10. ASSUME NEW from \in Room, NEW to \in Room, RelocateAll(from, to) PROVE ObjIInv'
  BY <1>10, RelocateAllWhole
<1>11. ASSUME NEW c \in Char, Command(c) PROVE ObjIInv'
  BY <1>11, CommandKeeps
<1>12. Step
  BY DEF ObjNext
<1> HIDE DEF ObjIInv
<1> QED
  BY <1>1, <1>2, <1>3, <1>4, <1>5, <1>6, <1>7, <1>8, <1>9, <1>10, <1>11, <1>12 DEF Step

\* The inductive invariant: at the end of every command each object is in one list or
\* one slot and points back at it, the counts are the lengths of the lists, and no room
\* is darker than its lamps.
THEOREM ObjInductive == ObjSpec => []ObjIInv
<1>1. ObjInit => ObjIInv
  BY ObjInitWhole
<1>2. ObjIInv /\ [ObjNext]_objVars => ObjIInv'
  BY ObjNextKeeps, ObjStutter
<1> QED
  BY <1>1, <1>2, PTL DEF ObjSpec

LEMMA HeldOnceFollows == ObjIInv => HeldOnce
<1> SUFFICES ASSUME ObjIInv PROVE HeldOnce
  OBVIOUS
<1> DEFINE A == InGame(Now)
<1>1. /\ Typed(Now) /\ ListsTrue(Now, {}, {}, A) /\ WornTrue(Now, {}, A)
      /\ NoneLost(Now, {}) /\ LooseEnds(Now, {})
  BY DEF ObjIInv, Whole, Sound, Placed
<1>2. /\ \A h \in Holder : \A o \in held[h] :
            /\ o \in live
            /\ in_room[o] = RoomOf(h) /\ carried_by[o] = BearerOf(h) /\ in_obj[o] = ContainerOf(h)
            /\ h \in Obj => h \in live
            /\ h \in Char => Present(h)
            /\ \A g \in Holder : o \in held[g] => g = h
  BY <1>1 DEF ListsTrue, InGame, Present, Now
<1>3. \A c \in Char, p \in WearSlot : worn[c][p] # Null =>
        /\ worn[c][p] \in live
        /\ Present(c)
        /\ carried_by[worn[c][p]] = c
        /\ in_room[worn[c][p]] = NOWHERE
        /\ in_obj[worn[c][p]] = Null
        /\ \A h \in Holder : worn[c][p] \notin held[h]
        /\ \A d \in Char, q \in WearSlot : worn[d][q] = worn[c][p] => d = c /\ q = p
  BY <1>1 DEF WornTrue, InGame, Present, Now
<1>4. \A o \in live : \/ \E h \in Holder : o \in held[h]
                      \/ \E c \in Char, p \in WearSlot : worn[c][p] = o
  BY <1>1 DEF NoneLost, Now
<1> SUFFICES ASSUME NEW o \in Obj
             PROVE  /\ o \in live => Cardinality(Lists(o)) + Cardinality(Wearers(o)) = 1
                    /\ o \notin live => Lists(o) = {} /\ Wearers(o) = {}
                    /\ \A h \in Lists(o) :
                        /\ in_room[o] = IF h \in Room THEN h ELSE NOWHERE
                        /\ carried_by[o] = IF h \in Char THEN h ELSE Null
                        /\ in_obj[o] = IF h \in Obj THEN h ELSE Null
                        /\ h \in Obj => h \in live
                    /\ \A x \in Wearers(o) :
                        carried_by[o] = x[1] /\ in_room[o] = NOWHERE /\ in_obj[o] = Null
                    /\ \A h \in Lists(o) \cap Char : Present(h)
                    /\ \A x \in Wearers(o) : Present(x[1])
  BY DEF HeldOnce
<1>5. o # Null
  BY ObjAssumption
<1>6. \A h \in Holder : h \in Lists(o) <=> o \in held[h]
  BY DEF Lists
<1>7. Lists(o) \subseteq Holder /\ Wearers(o) \subseteq Char \X WearSlot
  BY DEF Lists, Wearers
<1>8. \A c \in Char, p \in WearSlot : <<c, p>> \in Wearers(o) <=> worn[c][p] = o
  BY DEF Wearers
<1>9. \A x \in Wearers(o) : \E c \in Char, p \in WearSlot : x = <<c, p>> /\ worn[c][p] = o
  BY <1>7, <1>8
<1>10. Cardinality({}) = 0
  BY FS_EmptySet
<1>11. o \in live => Cardinality(Lists(o)) + Cardinality(Wearers(o)) = 1
  <2>1. CASE \E h \in Holder : o \in held[h]
    <3>1. PICK h \in Holder : o \in held[h]
      BY <2>1
    <3>2. Lists(o) = {h}
      BY <1>2, <1>6, <1>7, <3>1
    <3>3. Wearers(o) = {}
      BY <1>3, <1>5, <1>9, <3>1
    <3>4. Cardinality({h}) = 1
      BY FS_Singleton
    <3>5. Cardinality(Lists(o)) = 1 /\ Cardinality(Wearers(o)) = 0
      BY <1>10, <3>2, <3>3, <3>4
    <3> QED
      BY <3>5
  <2>2. CASE \E c \in Char, p \in WearSlot : worn[c][p] = o
    <3>1. PICK c \in Char, p \in WearSlot : worn[c][p] = o
      BY <2>2
    <3>2. Wearers(o) = {<<c, p>>}
      BY <1>3, <1>5, <1>8, <1>9, <3>1
    <3>3. Lists(o) = {}
      BY <1>3, <1>5, <1>6, <1>7, <3>1
    <3>4. Cardinality({<<c, p>>}) = 1
      BY FS_Singleton
    <3>5. Cardinality(Lists(o)) = 0 /\ Cardinality(Wearers(o)) = 1
      BY <1>10, <3>2, <3>3, <3>4
    <3> QED
      BY <3>5
  <2> QED
    BY <1>4, <2>1, <2>2
<1>12. o \notin live => Lists(o) = {} /\ Wearers(o) = {}
  BY <1>2, <1>3, <1>5, <1>6, <1>7, <1>9
<1>13. \A h \in Lists(o) :
         /\ in_room[o] = IF h \in Room THEN h ELSE NOWHERE
         /\ carried_by[o] = IF h \in Char THEN h ELSE Null
         /\ in_obj[o] = IF h \in Obj THEN h ELSE Null
         /\ h \in Obj => h \in live
         /\ h \in Char => Present(h)
  BY <1>2, <1>6, <1>7 DEF RoomOf, BearerOf, ContainerOf
<1>14. \A x \in Wearers(o) :
         /\ carried_by[o] = x[1] /\ in_room[o] = NOWHERE /\ in_obj[o] = Null
         /\ Present(x[1])
  BY <1>3, <1>5, <1>9
<1> QED
  BY <1>11, <1>12, <1>13, <1>14

\* Whatever the commands, deaths, decays and ferries, in whatever order, an object in
\* the game is in one place and its pointers say which.
THEOREM ObjHeldOnce == ObjSpec => []HeldOnce
  BY ObjInductive, HeldOnceFollows, PTL

LEMMA ItemsCountedFollows == ObjIInv => ItemsCounted
<1> SUFFICES ASSUME ObjIInv, NEW c \in Char, Present(c), <<c, "items">> \notin wrong
             PROVE  Drift(c, "items") = 0
  BY DEF ItemsCounted
<1>1. /\ Typed(Now) /\ Counted(Now, {}) /\ c \in Holder
  BY DEF ObjIInv, Whole, Sound, Placed, Holder
<1>2. carry_items[c] = Cardinality(held[c]) /\ carry_items[c] \in Int
  BY <1>1 DEF Counted, Typed, Now
<1> QED
  BY <1>2 DEF Drift

\* A character who is in the game counts as many things as his list holds, except after
\* the one death that leaves his count as it was.
THEOREM ObjItemsCounted == ObjSpec => []ItemsCounted
  BY ObjInductive, ItemsCountedFollows, PTL

LEMMA LampsLightFollows == ObjIInv => LampsLight
<1> SUFFICES ASSUME ObjIInv, NEW r \in Room, <<r, "light">> \notin wrong
             PROVE  Drift(r, "light") >= 0
  BY DEF LampsLight
<1>1. Typed(Now) /\ Lighted(Now, {})
  BY DEF ObjIInv, Whole, Sound, Placed
<1>2. light[r] >= Cardinality(Alight(Now, r)) /\ light[r] \in Int
  BY <1>1 DEF Lighted, Typed, Now
<1>3. Cardinality(Alight(Now, r)) \in Nat
  BY AlightFinite
<1>4. Drift(r, "light") = light[r] - Cardinality(Alight(Now, r))
  BY DEF Drift
<1> QED
  BY <1>2, <1>3, <1>4

\* No sequence of lighting, dropping, dying, decaying and burning out leaves a room
\* darker than the lamps alight in it.
THEOREM ObjLampsLight == ObjSpec => []LampsLight
  BY ObjInductive, LampsLightFollows, PTL
=============================================================================
