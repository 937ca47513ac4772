------------------------------- MODULE Affects -------------------------------
(***************************************************************************)
(* The registry of characters and the list of what is affected: how        *)
(* abs_number slots are given out and taken back, who has a node on        *)
(* affected_list, and the walk of affect_update over a snapshot of it,     *)
(* whose every body may kill, create, affect and free.                     *)
(*                                                                         *)
(* Char are places in memory: a freed one is given to a later character,   *)
(* with a slot of its own.  A character's affects are counted, not told    *)
(* apart; of a room, those that end are counted and the builder's          *)
(* permanent spells are a flag.  The list is a bag: where a node stands    *)
(* in it decides only the order of a walk, and any order is allowed.       *)
(***************************************************************************)
EXTENDS Integers, FiniteSetsExt, Entities

CONSTANTS
    MaxCharacters,  \* slots of the registry
    MaxAffects,     \* a bound: affects of a character, and passing ones of a room
    None            \* the null pointer

ASSUME MaxCharactersAssumption == MaxCharacters \in Nat \ {0}
ASSUME MaxAffectsAssumption == MaxAffects \in Nat \ {0}
ASSUME NoneAssumption == None \notin Char \cup Room

VARIABLES
    stage,          \* what an address holds, see Stage
    number,         \* c->abs_number, 0 at a free address, where nobody reads it
    owner,          \* characters_by_abs_number, None where the bit is not set
    last,           \* last_control_set
    affects,        \* the length of c->affected
    charNodes,      \* TARGET_CHAR nodes on affected_list that name c and slot s
    passing,        \* room affects without PERMAFFECT
    permanent,      \* rooms with a permanent spell
    roomNodes,      \* TARGET_ROOM nodes on affected_list that name r
    dueChars,       \* the entries of affect_update's snapshot still to come
    dueRooms,
    at              \* the character or room whose update is running

registry == <<stage, number, owner, last>>
list == <<affects, charNodes, passing, permanent, roomNodes>>
walk == <<dueChars, dueRooms, at>>
vars == <<registry, list, walk>>

Slot == 0..(MaxCharacters - 1)
Entry == Char \X Slot

\* Nothing yet; at a menu, never on character_list; in the game.
Stage == {"free", "menu", "player", "mobile"}

Live == {c \in Char : stage[c] # "free"}
World == {c \in Char : stage[c] \in {"player", "mobile"}}

TypeOK ==
    /\ stage \in [Char -> Stage]
    /\ number \in [Char -> Slot]
    /\ owner \in [Slot -> Char \cup {None}]
    /\ last \in Slot \cup {-1}
    /\ affects \in [Char -> 0..MaxAffects]
    /\ charNodes \in [Entry -> Nat]
    /\ passing \in [Room -> 0..MaxAffects]
    /\ permanent \in SUBSET Room
    /\ roomNodes \in [Room -> Nat]
    /\ dueChars \in [Entry -> Nat]
    /\ dueRooms \in [Room -> Nat]
    /\ at \in Char \cup Room \cup {None}

\* The boot lists the rooms whose file gives them a spell.
Init ==
    /\ stage = [c \in Char |-> "free"]
    /\ number = [c \in Char |-> 0]
    /\ owner = [s \in Slot |-> None]
    /\ last = -1
    /\ affects = [c \in Char |-> 0]
    /\ charNodes = [e \in Entry |-> 0]
    /\ passing = [r \in Room |-> 0]
    /\ permanent \in SUBSET Room
    /\ roomNodes = [r \in Room |-> IF r \in permanent THEN 1 ELSE 0]
    /\ dueChars = [e \in Entry |-> 0]
    /\ dueRooms = [r \in Room |-> 0]
    /\ at = None

Ticking == (\E e \in Entry : dueChars[e] > 0) \/ (\E r \in Room : dueRooms[r] > 0)

\* Commands and the other clocks run between two walks; what a spell, a blow or
\* a script may do runs inside an update as well.
Idle == at = None /\ ~ Ticking
Elsewhere == Idle \/ at # None

-----------------------------------------------------------------------------
(* The registry.                                                           *)

\* The slot after the last one given out that is free, from the start again if
\* there is none; with no free slot at all the program exits.
FreeSlots == {s \in Slot : owner[s] = None}

\* Mutant: the slot after the last one, whoever has it.
SlotAfterLast == IF last + 1 \in Slot THEN last + 1 ELSE 0

NextSlot ==
    LET ahead == {s \in FreeSlots : s > last}
    IN  Min(IF ahead # {} THEN ahead ELSE FreeSlots)

\* A new character c at a free address, registered.
Register(c, as) ==
    /\ stage[c] = "free"
    /\ FreeSlots # {}
    /\ stage' = [stage EXCEPT ![c] = as]
    /\ number' = [number EXCEPT ![c] = NextSlot]
    /\ owner' = [owner EXCEPT ![NextSlot] = c]
    /\ last' = NextSlot

\* Who is found under a number is compared with the pointer kept beside it,
\* which may be of somebody freed since.
\* Mutant: only the bit is tested.
ResolvesToAnyone(c, s) == owner[s] # None

Resolves(c, s) == owner[s] = c

-----------------------------------------------------------------------------
(* Affects of characters.                                                  *)

Unlisted(c) == [e \in Entry |-> IF e[1] = c THEN 0 ELSE charNodes[e]]

\* The first affect lists its bearer.
FirstListed(c, n) ==
    IF affects[c] = 0 THEN [charNodes EXCEPT ![<<c, n>>] = @ + 1] ELSE charNodes

AffectToChar(c) ==
    /\ Elsewhere
    /\ c \in Live
    /\ affects[c] < MaxAffects
    /\ affects' = [affects EXCEPT ![c] = @ + 1]
    /\ charNodes' = FirstListed(c, number[c])
    /\ UNCHANGED <<registry, passing, permanent, roomNodes, walk>>

\* The last one to go takes every node of its bearer off the list.
AffectRemove(c) ==
    /\ Elsewhere
    /\ c \in Live
    /\ affects[c] > 0
    /\ affects' = [affects EXCEPT ![c] = @ - 1]
    /\ charNodes' = IF affects[c] = 1 THEN Unlisted(c) ELSE charNodes
    /\ UNCHANGED <<registry, passing, permanent, roomNodes, walk>>

\* while (c->affected) affect_remove(c, c->affected), as free_char and raw_kill
\* do it.
Strip(c) ==
    /\ affects' = [affects EXCEPT ![c] = 0]
    /\ charNodes' = IF affects[c] > 0 THEN Unlisted(c) ELSE charNodes

-----------------------------------------------------------------------------
(* Characters come and go.                                                 *)

\* read_mobile: a fast mobile is born with an affect.
LoadMobile(c, fast) ==
    /\ Elsewhere
    /\ Register(c, "mobile")
    /\ affects' = [affects EXCEPT ![c] = IF fast THEN 1 ELSE 0]
    /\ charNodes' = IF fast THEN [charNodes EXCEPT ![<<c, NextSlot>>] = @ + 1]
                            ELSE charNodes
    /\ UNCHANGED <<passing, permanent, roomNodes, walk>>

\* A character for a descriptor; what is stored of it gives it its affects.
NewPlayer(c) ==
    /\ Idle
    /\ Register(c, "menu")
    /\ UNCHANGED <<list, walk>>

EnterGame(c) ==
    /\ Idle
    /\ stage[c] = "menu"
    /\ stage' = [stage EXCEPT ![c] = "player"]
    /\ UNCHANGED <<number, owner, last, list, walk>>

\* extract_char with a descriptor and nowhere to go: back to the menu.
BackToMenu(c) ==
    /\ Elsewhere
    /\ stage[c] = "player"
    /\ stage' = [stage EXCEPT ![c] = "menu"]
    /\ UNCHANGED <<number, owner, last, list, walk>>

\* raw_kill of a player whose descriptor is there: it goes on without affects.
DieAndReturn(c) ==
    /\ Elsewhere
    /\ stage[c] = "player"
    /\ Strip(c)
    /\ UNCHANGED <<registry, passing, permanent, roomNodes, walk>>

\* Mutant: the affects, and the node, are left behind.
FreeAffected(c) ==
    /\ Elsewhere
    /\ c \in Live
    /\ stage' = [stage EXCEPT ![c] = "free"]
    /\ owner' = [owner EXCEPT ![number[c]] = None]
    /\ number' = [number EXCEPT ![c] = 0]
    /\ UNCHANGED <<last, list, walk>>

\* free_char, from extract_char, close_socket or a menu: the affects go, and the
\* slot of c's number is freed, whoever has it.
FreeChar(c) ==
    /\ Elsewhere
    /\ c \in Live
    /\ Strip(c)
    /\ stage' = [stage EXCEPT ![c] = "free"]
    /\ owner' = [owner EXCEPT ![number[c]] = None]
    /\ number' = [number EXCEPT ![c] = 0]
    /\ UNCHANGED <<last, passing, permanent, roomNodes, walk>>

\* stat file, wizset file: a character made to read a stored one is never
\* registered, has number 0, and frees slot 0 with itself.  Its affects and
\* their node are gone when the command ends.
ScratchChar ==
    /\ Idle
    /\ owner' = [owner EXCEPT ![0] = None]
    /\ UNCHANGED <<stage, number, last, list, walk>>

-----------------------------------------------------------------------------
(* Affects of rooms.                                                       *)

\* A room whose affects are all permanent is listed, whether it is already or
\* not.
AffectToRoom(r) ==
    /\ Elsewhere
    /\ passing[r] < MaxAffects
    /\ passing' = [passing EXCEPT ![r] = @ + 1]
    /\ roomNodes' = IF passing[r] = 0 THEN [roomNodes EXCEPT ![r] = @ + 1] ELSE roomNodes
    /\ UNCHANGED <<registry, affects, charNodes, permanent, walk>>

\* When only permanent ones are left every node of the room goes, the one its
\* own spell had as well.
AffectRemoveRoom(r) ==
    /\ Elsewhere
    /\ passing[r] > 0
    /\ passing' = [passing EXCEPT ![r] = @ - 1]
    /\ roomNodes' = IF passing[r] = 1 THEN [roomNodes EXCEPT ![r] = 0] ELSE roomNodes
    /\ UNCHANGED <<registry, affects, charNodes, permanent, walk>>

\* do_rehash builds the list anew, from character_list and the rooms.
Rehash ==
    /\ Idle
    /\ charNodes' = [e \in Entry |->
            IF e[1] \in World /\ affects[e[1]] > 0 /\ number[e[1]] = e[2] THEN 1 ELSE 0]
    /\ roomNodes' = [r \in Room |-> IF passing[r] > 0 \/ r \in permanent THEN 1 ELSE 0]
    /\ UNCHANGED <<registry, affects, passing, permanent, walk>>

-----------------------------------------------------------------------------
(* affect_update.                                                          *)

BeginTick ==
    /\ Idle
    /\ dueChars' = charNodes
    /\ dueRooms' = roomNodes
    /\ dueChars' # dueChars \/ dueRooms' # dueRooms
    /\ UNCHANGED <<registry, list, at>>

Turn(c, s) ==
    /\ at = None
    /\ dueChars[<<c, s>>] > 0
    /\ dueChars' = [dueChars EXCEPT ![<<c, s>>] = @ - 1]
    /\ UNCHANGED <<registry, affects, passing, permanent, roomNodes, dueRooms>>

\* affect_update_person: what its affects do to it, or let it do, is Elsewhere's.
UpdateChar(c, s) ==
    /\ Turn(c, s)
    /\ Resolves(c, s) /\ affects[c] > 0
    /\ at' = c
    /\ UNCHANGED charNodes

\* drop_stale_character_entry: the node, should it be there still.
DropEntry(c, s) ==
    /\ Turn(c, s)
    /\ ~ (Resolves(c, s) /\ affects[c] > 0)
    /\ charNodes' = [charNodes EXCEPT ![<<c, s>>] = IF @ > 0 THEN @ - 1 ELSE 0]
    /\ UNCHANGED at

\* affect_update_room ticks its spells on those in it and takes off what ended.
UpdateRoom(r) ==
    /\ at = None
    /\ dueRooms[r] > 0
    /\ dueRooms' = [dueRooms EXCEPT ![r] = @ - 1]
    /\ at' = r
    /\ UNCHANGED <<registry, list, dueChars>>

EndUpdate ==
    /\ at # None
    /\ at' = None
    /\ UNCHANGED <<registry, list, dueChars, dueRooms>>

Next ==
    \/ BeginTick \/ EndUpdate \/ Rehash \/ ScratchChar
    \/ \E c \in Char, s \in Slot : UpdateChar(c, s) \/ DropEntry(c, s)
    \/ \E r \in Room : UpdateRoom(r) \/ AffectToRoom(r) \/ AffectRemoveRoom(r)
    \/ \E c \in Char :
          \/ AffectToChar(c) \/ AffectRemove(c)
          \/ LoadMobile(c, TRUE) \/ LoadMobile(c, FALSE)
          \/ NewPlayer(c) \/ EnterGame(c) \/ BackToMenu(c)
          \/ DieAndReturn(c) \/ FreeChar(c)

Spec == Init /\ [][Next]_vars

-----------------------------------------------------------------------------
\* A slot belongs to somebody who exists and bears its number; and whoever has
\* a number has its slot, so that no two have the same one, for every number
\* but 0, which scratch characters free under its owner.
RegistrySound ==
    /\ \A s \in Slot : owner[s] # None => owner[s] \in Live /\ number[owner[s]] = s
    /\ \A c \in Live : number[c] # 0 => owner[number[c]] = c

\* A node names somebody who exists, is affected and bears the number the node
\* was given, and names it once: nothing freed is ever on the list.
NodesNameTheAffected ==
    \A e \in Entry : charNodes[e] > 0 =>
        /\ e[1] \in Live /\ affects[e[1]] > 0 /\ number[e[1]] = e[2]
        /\ charNodes[e] = 1

\* A room affect that is to end is on a room that is listed, whatever else comes
\* and goes in the room.
PassingRoomsListed == \A r \in Room : passing[r] > 0 => roomNodes[r] > 0

ListMatches == NodesNameTheAffected /\ PassingRoomsListed

\* Affected for ever: no walk comes to c again until the list is built anew.
Forgotten(c) ==
    c \in Live /\ affects[c] > 0 /\ \A s \in Slot : charNodes[<<c, s>>] = 0

\* The character an update begins with is there, is affected, and is the one
\* the entry was made for: not somebody who got the address, or the slot, since.
UpdatesTheNamed ==
    at' # at /\ at' \in Char =>
        at' \in Live /\ affects[at'] > 0 /\ dueChars[<<at', number[at']>>] > 0

\* A walk, and all that happens inside it, forgets nobody but the bearer of
\* number 0 whose slot a scratch character freed; and between two walks only a
\* rehash forgets, those who are at a menu.
ForgetsOnlyTheDispossessed ==
    \A c \in Char : Forgotten(c)' /\ ~ Forgotten(c) =>
        \/ Ticking /\ number[c] = 0 /\ owner[0] # c
        \/ Idle /\ c \notin World

WalkSound == [][UpdatesTheNamed /\ ForgetsOnlyTheDispossessed]_vars
=============================================================================
