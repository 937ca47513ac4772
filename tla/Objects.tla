-------------------------------- MODULE Objects ------------------------------
(***************************************************************************)
(* Objects: where each one is (containment.cpp, equipment.cpp), what its   *)
(* carrier weighs and how many things he carries, and the light of the     *)
(* room it stands in, under the commands of act_obj1.cpp and act_obj2.cpp, *)
(* burning out and decay (limits.cpp), death (fight.cpp) and extraction    *)
(* (handler.cpp).                                                          *)
(*                                                                         *)
(* The primitives are functions from a state record to a state record, so  *)
(* that a command which calls several of them is one step.                 *)
(***************************************************************************)
EXTENDS Integers, FiniteSets, FiniteSetsExt, Rooms

CONSTANTS
    Obj,            \* objects the allocator may return
    Corpse,         \* those that are corpses
    Bag,            \* containers that are not
    Lamp,           \* objects of type ITEM_LIGHT, with fuel
    Eternal,        \* lamps that never burn out and cannot be put out (value[3] < 0)
    Bladed,         \* other objects with value[2] and value[3] set, as weapons have
    Fits,           \* <<o, slot>> when o may be worn there
    Own,            \* what each object weighs by itself
    Player,         \* characters that are not NPCs
    MaxItems,       \* CAN_CARRY_N
    MaxWeight,      \* CAN_CARRY_W and the capacity of every bag
    MaxDrift,       \* how far a total may drift and at how many places at once:
    MaxWrong,       \* see Bounded
    Null            \* the null pointer

WearSlot == {"light", "hold", "waist", "belt"}

ASSUME ObjAssumption ==
    /\ Corpse \cup Bag \cup Lamp \cup Bladed \subseteq Obj /\ Eternal \subseteq Lamp
    /\ Corpse \cap (Bag \cup Lamp) = {} /\ Lamp \cap (Bag \cup Bladed) = {}
    /\ Fits \subseteq Obj \X WearSlot /\ Own \in [Obj -> Nat] /\ Null \notin Obj \cup Char
    /\ Player \subseteq Char /\ {MaxItems, MaxWeight, MaxDrift, MaxWrong} \subseteq Nat
ASSUME ObjKindsAssumption == IsFiniteSet(Obj) /\ Obj \cap (Room \cup Char) = {}

Holder == Room \cup Char \cup Bag \cup Corpse

VARIABLES
    live,           \* allocated objects
    loc,            \* the character's room, NOWHERE out of the game
    held,           \* the list at each holder: contents, carrying, contains
    worn,           \* ch->equipment[slot]
    in_room, carried_by, in_obj,    \* the object's pointers back
    lit,            \* value[3]: 0 out, 1 alight, -1 alight for ever
    weight,         \* GET_OBJ_WEIGHT
    light,          \* world[r].light
    carry_items,    \* IS_CARRYING_N
    carry_weight,   \* IS_CARRYING_W
    wrong           \* no variable of the code: the totals that a step the code does not
                    \* account for has left wrong, until they are taken afresh

objVars == <<live, loc, held, worn, in_room, carried_by, in_obj, lit, weight, light,
             carry_items, carry_weight, wrong>>

Now == [live |-> live, loc |-> loc, held |-> held, worn |-> worn, in_room |-> in_room,
        carried_by |-> carried_by, in_obj |-> in_obj, lit |-> lit, weight |-> weight,
        light |-> light, items |-> carry_items, load |-> carry_weight,
        wrong |-> wrong]

Becomes(s) ==
    /\ live' = s.live /\ loc' = s.loc /\ held' = s.held /\ worn' = s.worn
    /\ in_room' = s.in_room /\ carried_by' = s.carried_by /\ in_obj' = s.in_obj
    /\ lit' = s.lit /\ weight' = s.weight /\ light' = s.light
    /\ carry_items' = s.items /\ carry_weight' = s.load
    /\ wrong' = s.wrong

ObjTypeOK ==
    /\ live \subseteq Obj
    /\ loc \in [Char -> Place]
    /\ held \in [Holder -> SUBSET Obj]
    /\ worn \in [Char -> [WearSlot -> Obj \cup {Null}]]
    /\ in_room \in [Obj -> Place]
    /\ carried_by \in [Obj -> Char \cup {Null}]
    /\ in_obj \in [Obj -> Bag \cup Corpse \cup {Null}]
    /\ lit \in [Obj -> {-1, 0, 1}]
    /\ weight \in [Obj -> Int] /\ light \in [Room -> Int]
    /\ carry_items \in [Char -> Int] /\ carry_weight \in [Char -> Int]
    /\ wrong \subseteq (Char \cup Bag \cup Corpse \cup Room) \X {"items", "weight", "light"}

Burn(o) == IF o \in Eternal THEN -1 ELSE 0

ObjInit ==
    /\ live = {}
    /\ loc = [c \in Char |-> NOWHERE]
    /\ held = [h \in Holder |-> {}]
    /\ worn = [c \in Char |-> [p \in WearSlot |-> Null]]
    /\ in_room = [o \in Obj |-> NOWHERE]
    /\ carried_by = [o \in Obj |-> Null]
    /\ in_obj = [o \in Obj |-> Null]
    /\ lit = [o \in Obj |-> Burn(o)]
    /\ weight = Own
    /\ light = [r \in Room |-> 0]
    /\ carry_items = [c \in Char |-> 0]
    /\ carry_weight = [c \in Char |-> 0]
    /\ wrong = {}

-----------------------------------------------------------------------------
(* containment.cpp and equipment.cpp.                                      *)

Shine(s, o) == IF o \in Lamp /\ s.lit[o] # 0 THEN 1 ELSE 0
PutOut(s, o) == IF s.lit[o] = 1 THEN 0 ELSE s.lit[o]
WornBy(s, c) == {s.worn[c][p] : p \in WearSlot} \ {Null}
WornLight(s, c) == Cardinality({o \in WornBy(s, c) : Shine(s, o) = 1})

\* The lamps that light r, worn or on the floor.
Alight(s, r) == {o \in Lamp : s.lit[o] # 0 /\
                    (o \in s.held[r] \/ \E c \in Char : s.loc[c] = r /\ o \in WornBy(s, c))}

ObjToChar(s, o, c) ==
    [s EXCEPT !.held[c] = @ \cup {o}, !.carried_by[o] = c, !.in_room[o] = NOWHERE,
              !.load[c] = @ + s.weight[o], !.items[c] = @ + 1]

ObjToRoom(s, o, r) ==
    IF o \in s.held[r] THEN s
    ELSE [s EXCEPT !.held[r] = @ \cup {o}, !.in_room[o] = r, !.carried_by[o] = Null,
                   !.light[r] = @ + Shine(s, o)]

ObjFromRoom(s, o) ==
    LET r == s.in_room[o] IN
    [s EXCEPT !.held[r] = @ \ {o}, !.in_room[o] = NOWHERE,
              !.light[r] = @ - Shine(s, o), !.lit[o] = PutOut(s, o)]

\* b and the containers it is in, and the outermost of them.
Around(s, b) ==
    {x \in Obj : \A C \in SUBSET Obj :
        b \in C /\ (\A y \in C : s.in_obj[y] # Null => s.in_obj[y] \in C) => x \in C}
Outermost(s, b) == CHOOSE x \in Around(s, b) : s.in_obj[x] = Null

\* Every container around b, and who carries the outermost, is dw heavier.
WeighBags(s, b, dw) ==
    [s EXCEPT !.weight = [x \in Obj |-> IF x \in Around(s, b) THEN @[x] + dw ELSE @[x]]]
Weigh(s, b, dw) ==
    LET c == s.carried_by[Outermost(s, b)] IN
    [WeighBags(s, b, dw) EXCEPT !.load = [d \in Char |-> IF d = c THEN @[d] + dw ELSE @[d]]]

ObjToObj(s, o, b) ==
    Weigh([s EXCEPT !.held[b] = @ \cup {o}, !.in_obj[o] = b], b, s.weight[o])

ObjFromObj(s, o) ==
    LET b == s.in_obj[o] IN
    [Weigh([s EXCEPT !.held[b] = @ \ {o}], b, -s.weight[o]) EXCEPT !.in_obj[o] = Null]

\* Held, but not made to be: neither lit nor put out, nor counted.
MerelyHeld(o, p) == p = "hold" /\ <<o, "hold">> \notin Fits

\* c is given o to wear: lit if c is in a room or on the way into one.
AttachEquipment(s, c, o, p) ==
    LET t == [s EXCEPT !.worn[c][p] = o, !.carried_by[o] = c, !.load[c] = @ + s.weight[o]]
        fire == IF s.lit[o] = 0 THEN 1 ELSE s.lit[o]
    IN  IF o \notin Lamp THEN t
        ELSE IF MerelyHeld(o, p)
             THEN [t EXCEPT !.wrong = @ \cup IF s.lit[o] = 0 THEN {} ELSE {<<s.loc[c], "light">>}]
        ELSE IF s.loc[c] = NOWHERE THEN [t EXCEPT !.lit[o] = fire]
        ELSE [t EXCEPT !.lit[o] = fire, !.light[s.loc[c]] = @ + 1]

DetachEquipment(s, c, p) ==
    LET o == s.worn[c][p]
        t == [s EXCEPT !.worn[c][p] = Null, !.load[c] = @ - s.weight[o]]
    IN  IF s.loc[c] = NOWHERE \/ Shine(s, o) = 0 \/ MerelyHeld(o, p) THEN t
        ELSE [t EXCEPT !.lit[o] = PutOut(s, o), !.light[s.loc[c]] = @ - 1]

ObjFromCharCounted(s, o) ==
    LET c == s.carried_by[o]
        t == IF o \in WornBy(s, c) THEN DetachEquipment(s, c, CHOOSE p \in WearSlot : s.worn[c][p] = o)
             ELSE [s EXCEPT !.held[c] = @ \ {o}]
    IN  [t EXCEPT !.load[c] = @ - t.weight[o], !.items[c] = @ - 1, !.carried_by[o] = Null]
\* From the list of who carries it or, failing that, from what he wears: the
\* weight is taken off once more than detach_equipment took it.
ObjFromChar(s, o) ==
    LET c == s.carried_by[o]
        v == [s EXCEPT !.wrong = @ \cup {<<c, "weight">>}]
        t == IF o \in s.held[c] THEN [s EXCEPT !.held[c] = @ \ {o}, !.items[c] = @ - 1]
             ELSE IF o \notin WornBy(s, c) THEN v
             ELSE DetachEquipment(v, c, CHOOSE p \in WearSlot : s.worn[c][p] = o)
    IN  [t EXCEPT !.load[c] = @ - t.weight[o], !.carried_by[o] = Null, !.in_room[o] = NOWHERE]

\* The memory of the objects in X is freed, and blank when it is used again.
Free(s, X) ==
    [s EXCEPT !.live = @ \ X, !.wrong = {w \in @ : w[1] \notin X},
              !.held = [h \in Holder |-> IF h \in X THEN {} ELSE @[h]],
              !.in_room = [o \in Obj |-> IF o \in X THEN NOWHERE ELSE @[o]],
              !.carried_by = [o \in Obj |-> IF o \in X THEN Null ELSE @[o]],
              !.in_obj = [o \in Obj |-> IF o \in X THEN Null ELSE @[o]],
              !.lit = [o \in Obj |-> IF o \in X THEN Burn(o) ELSE @[o]],
              !.weight = [o \in Obj |-> IF o \in X THEN Own[o] ELSE @[o]]]

\* The objects of X, and whatever is somewhere in one of them, are no more.
Within(s, X) == {x \in s.live : Around(s, x) \cap X # {}}
Erase(s, X) == Free(s, Within(s, X))

\* extract_obj: from a container it is unlinked alone, then all it holds goes.
Unlinked(s, o) ==
    IF s.in_room[o] # NOWHERE THEN ObjFromRoom(s, o)
    ELSE IF s.carried_by[o] # Null THEN ObjFromChar(s, o)
    ELSE IF s.in_obj[o] = Null THEN s
    ELSE [s EXCEPT !.held[s.in_obj[o]] = @ \ {o}, !.wrong = @ \cup {<<s.in_obj[o], "weight">>}]
ExtractObjAlone(s, o) == Free(Unlinked(s, o), {o})
ExtractObj(s, o) == Erase(Unlinked(s, o), {o})

\* recount_light_room: on the floor it does not ask for the type.
RecountLightRoom(s, r) ==
    [s EXCEPT !.wrong = @ \ {<<r, "light">>},
              !.light[r] = Cardinality(Alight(s, r) \cup (s.held[r] \cap Bladed))]

CharFromRoom(s, c) ==
    [s EXCEPT !.light[s.loc[c]] = @ - WornLight(s, c), !.loc[c] = NOWHERE]

CharToRoomDark(s, c, r) == [s EXCEPT !.loc[c] = r]
CharToRoom(s, c, r) == [s EXCEPT !.light[r] = @ + WornLight(s, c), !.loc[c] = r]

\* The loop over the slots, in their order; f does nothing with an empty one.
EachSlot(f(_, _), s) == f(f(f(f(s, "light"), "waist"), "hold"), "belt")

\* What is worn at p falls to the floor of r.
Fall(s, c, p, r) ==
    IF s.worn[c][p] = Null THEN s ELSE ObjToRoom(DetachEquipment(s, c, p), s.worn[c][p], r)

\* The list at h is spliced to the contents of r; Scatter counts the light it sheds.
Splice(s, h, r) ==
    LET X == s.held[h] IN
    [s EXCEPT !.held[r] = @ \cup X, !.held[h] = {},
              !.in_room = [o \in Obj |-> IF o \in X THEN r ELSE @[o]],
              !.carried_by = [o \in Obj |-> IF o \in X THEN Null ELSE @[o]]]
Scatter(s, h, r) ==
    [Splice(s, h, r) EXCEPT !.light[r] = @ + Cardinality({o \in s.held[h] : Shine(s, o) = 1})]

Righted(s, c) == {w \in s.wrong : w[1] # c}

\* extract_char, of the objects and the light: what c carries is spliced to
\* the room's contents, then c leaves the room, then his equipment falls.  The
\* counts of one who stays away are blanked here and not when he comes back.
ExtractChar(s, c, awake) ==
    LET r == s.loc[c]
        fall(t, p) == Fall(t, c, p, r)
        gone == RecountLightRoom(EachSlot(fall, CharFromRoom(Splice(s, c, r), c)), r)
    IN  IF awake # NOWHERE THEN CharToRoom(gone, c, awake)
        ELSE [gone EXCEPT !.items[c] = 0, !.load[c] = 0, !.wrong = Righted(gone, c)]

-----------------------------------------------------------------------------
(* Death.                                                                  *)

\* What is worn at p joins what the corpse k holds.
Pack(s, c, p, k) ==
    IF s.worn[c][p] = Null THEN s ELSE ObjToObj(DetachEquipment(s, c, p), s.worn[c][p], k)

WeightOf(s, X) == MapThenSumSet(LAMBDA o : s.weight[o], X)

\* What is in the bags k holds joins them.  It weighs on k again unless its bag was
\* worn: the others are k's by the list, but their in_obj does not say so yet.
Unpacked(s, k) ==
    LET bags == Bag \cap s.held[k]
        inside == UNION {s.held[b] : b \in bags}
        again == UNION {s.held[b] : b \in {x \in bags : s.in_obj[x] # k}}
    IN  [s EXCEPT !.held = [h \in Holder |-> IF h \in bags THEN {}
                                             ELSE IF h = k THEN @[k] \cup inside ELSE @[h]],
                  !.in_obj = [o \in Obj |-> IF o \in inside THEN k ELSE @[o]],
                  !.weight = [o \in Obj |-> IF o \in bags THEN @[o] - WeightOf(s, s.held[o])
                                            ELSE IF o = k THEN @[k] + WeightOf(s, again)
                                            ELSE @[o]]]

\* c's list becomes the corpse's, his equipment joins it, and when a player has
\* killed him so does what is in his bags; then what it holds is told whose it is,
\* object_list_new_owner clears all that is in it, and c has nothing.
MakeCorpse(s, c, k, byPlayer) ==
    LET pack(t, p) == Pack(t, c, p, k)
        full == EachSlot(pack, [s EXCEPT !.live = @ \cup {k}, !.weight[k] = Own[k] + s.load[c],
                                         !.held[k] = s.held[c], !.held[c] = {}])
        spread == IF byPlayer THEN Unpacked(full, k) ELSE full
        owned == [spread EXCEPT
                    !.items[c] = 0, !.load[c] = 0, !.wrong = Righted(spread, c),
                    !.in_obj = [o \in Obj |-> IF o \in spread.held[k] THEN k ELSE @[o]]]
    IN  ObjToRoom([owned EXCEPT !.carried_by =
                        [o \in Obj |-> IF k \in Around(owned, o) THEN Null ELSE @[o]]],
                  k, s.loc[c])

\* A spirit leaves no corpse: all he has falls, and what it was is still counted.
RemoveAndDropObject(s, c) ==
    LET r == s.loc[c]
        fall(t, p) == Fall(t, c, p, r)
    IN  EachSlot(fall, [Scatter(s, c, r) EXCEPT !.wrong = @ \cup {c} \X {"items", "weight"}])

\* A player with a link awakes in the room of his race, nobody else does.
Awake(c) == {NOWHERE} \cup IF c \in Player THEN Room ELSE {}

Die(c, k, byPlayer) ==
    /\ loc[c] # NOWHERE /\ k \in Corpse \ live
    /\ \E r \in Awake(c) : Becomes(ExtractChar(MakeCorpse(Now, c, k, byPlayer), c, r))

SpiritDies(c) ==
    /\ loc[c] # NOWHERE
    /\ \E r \in Awake(c) : Becomes(ExtractChar(RemoveAndDropObject(Now, c), c, r))

-----------------------------------------------------------------------------
(* Coming and going.                                                       *)

\* A quit, a purge, a menu: whatever c has falls to the floor.
Leave(c) == loc[c] # NOWHERE /\ Becomes(ExtractChar(Now, c, NOWHERE))

\* Crash_rentsave: what c wears is gone before the file is written, what he
\* carries after.
Shed(s, c, p) ==
    IF s.worn[c][p] = Null THEN s ELSE ExtractObj(DetachEquipment(s, c, p), s.worn[c][p])
Rent(c, written) ==
    LET shed(t, p) == Shed(t, c, p)
        bare == EachSlot(shed, Now)
        stored == IF written THEN Erase([bare EXCEPT !.held[c] = {}], bare.held[c]) ELSE bare
    IN  /\ loc[c] # NOWHERE /\ c \in Player
        /\ Becomes(ExtractChar(stored, c, NOWHERE))

\* A new mobile, or a player whose things are loaded before he has a room:
\* reset_char, then Crash_load's equip_char or obj_to_char, then char_to_room.
\* He comes with one thing at most.
Made(o) == [Now EXCEPT !.live = @ \cup {o}]
Enter(c, r) ==
    /\ loc[c] = NOWHERE
    /\ \/ Becomes(CharToRoom(Now, c, r))
       \/ \E o \in Obj \ (live \cup Corpse) :
           \/ Becomes(CharToRoom(ObjToChar(Made(o), o, c), c, r))
           \/ /\ <<o, "light">> \in Fits
              /\ Becomes(CharToRoom(AttachEquipment(Made(o), c, o, "light"), c, r))

Move(c, r) ==
    /\ loc[c] \notin {NOWHERE, r}
    /\ Becomes(CharToRoom(CharFromRoom(Now, c), c, r))

\* A zone reset: read_object, then to a room, to a mobile or into a container.
Load(o, h) ==
    /\ o \notin live \cup Corpse
    /\ \/ h \in Room /\ Becomes(ObjToRoom(Made(o), o, h))
       \/ h \in Char /\ loc[h] # NOWHERE /\ Becomes(ObjToChar(Made(o), o, h))
       \/ h \in Bag \cap live /\ Becomes(ObjToObj(Made(o), o, h))

\* The ferry: the lists are spliced and restamped, and the light stays behind.
RelocateAll(from, to) ==
    LET s == Now IN
    /\ from # to
    /\ Becomes([s EXCEPT !.held[to] = @ \cup s.held[from], !.held[from] = {},
                         !.wrong = @ \cup {<<to, "light">>},
                         !.in_room = [o \in Obj |-> IF o \in s.held[from] THEN to ELSE @[o]],
                         !.loc = [c \in Char |-> IF @[c] = from THEN to ELSE @[c]]])

-----------------------------------------------------------------------------
(* Commands.                                                               *)

Present(c) == loc[c] # NOWHERE
CanTake(c, o) == carry_items[c] < MaxItems /\ carry_weight[c] + weight[o] <= MaxWeight
InReach(c, b) == b \in held[c] \cup held[loc[c]]

GetFromRoom(c, o) ==
    /\ Present(c) /\ o \in held[loc[c]] /\ CanTake(c, o)
    /\ Becomes(ObjToChar(ObjFromRoom(Now, o), o, c))

\* No weight is asked for when the container is one's own.
GetFromContainer(c, o, b) ==
    /\ Present(c) /\ InReach(c, b) /\ o \in held[b] /\ carry_items[c] < MaxItems
    /\ b \in held[c] \/ CanTake(c, o)
    /\ Becomes(ObjToChar(ObjFromObj(Now, o), o, c))

PerformPut(c, o, b) ==
    /\ Present(c) /\ b \in Bag /\ InReach(c, b) /\ o \in held[c] \ {b}
    /\ weight[b] + weight[o] <= MaxWeight
    /\ Becomes(ObjToObj(ObjFromChar(Now, o), o, b))

PerformDrop(c, o) ==
    /\ Present(c) /\ o \in held[c]
    /\ Becomes(ObjToRoom(ObjFromChar(Now, o), o, loc[c]))

PerformGive(c, d, o) ==
    /\ Present(c) /\ d # c /\ loc[d] = loc[c] /\ o \in held[c] /\ CanTake(d, o)
    /\ Becomes(ObjToChar(ObjFromChar(Now, o), o, d))

\* With the belt comes what hangs on it, to the floor if the hands are full.
Removed(s, c, p) ==
    LET t == ObjToChar(DetachEquipment(s, c, p), s.worn[c][p], c)
        q == t.worn[c]["belt"]
        u == DetachEquipment(t, c, "belt")
    IN  IF s.items[c] >= MaxItems THEN s
        ELSE IF p # "waist" \/ q = Null THEN t
        ELSE IF t.items[c] >= MaxItems THEN ObjToRoom(u, q, u.loc[c]) ELSE ObjToChar(u, q, c)

PerformRemove(c, p) ==
    /\ Present(c) /\ worn[c][p] # Null
    /\ Becomes(Removed(Now, c, p))

\* Anything that can be taken may be held.
PerformWear(c, o, p, zapped) ==
    LET s == IF worn[c][p] = Null THEN Now ELSE Removed(Now, c, p)
        t == ObjFromChar(s, o)
    IN  /\ Present(c) /\ o \in held[c]
        /\ <<o, p>> \in Fits \/ p = "hold"
        /\ p = "belt" => worn[c]["waist"] # Null
        /\ worn[c][p] # Null => carry_items[c] < MaxItems
        /\ Becomes(IF zapped THEN ObjToChar(t, o, c) ELSE AttachEquipment(t, c, o, p))

DoLight(c, o) ==
    /\ Present(c) /\ o \in Lamp /\ lit[o] = 0
    /\ o \in held[loc[c]] \cup WornBy(Now, c)
    /\ Becomes([Now EXCEPT !.lit[o] = 1, !.light[loc[c]] = @ + 1])

DoBlowout(c, o) ==
    /\ Present(c) /\ o \in Lamp /\ lit[o] = 1
    /\ o \in held[loc[c]] \cup WornBy(Now, c)
    /\ Becomes([Now EXCEPT !.lit[o] = 0, !.light[loc[c]] = @ - 1])

\* Eaten, quaffed, recited, sold, junked.
UseUp(c, o) == Present(c) /\ o \in held[c] /\ Becomes(ExtractObj(Now, o))

-----------------------------------------------------------------------------
(* The hour's pass over object_list.                                       *)

\* A mobile's lamp does not burn down.
BurnOut(o) ==
    LET c == carried_by[o]
        r == IF c # Null THEN loc[c] ELSE in_room[o]
        out == [Now EXCEPT !.lit[o] = 0]
        seen == IF r = NOWHERE THEN out ELSE RecountLightRoom(out, r)
    IN  /\ o \in live \cap Lamp /\ lit[o] = 1 /\ c \in Player \cup {Null}
        /\ Becomes(ExtractObj(seen, o))

\* What lies in a room decays; what it holds is left there.
Decay(o) ==
    LET r == in_room[o]
        spilt == [Scatter(Now, o, r) EXCEPT
                    !.in_obj = [x \in Obj |-> IF x \in held[o] THEN Null ELSE @[x]]]
    IN  /\ o \in live /\ r # NOWHERE
        /\ Becomes(ExtractObj(IF o \in Bag \cup Corpse THEN spilt ELSE Now, o))

Command(c) ==
    \/ \E o \in Obj :
        \/ GetFromRoom(c, o) \/ PerformDrop(c, o) \/ UseUp(c, o)
        \/ DoLight(c, o) \/ DoBlowout(c, o)
        \/ \E b \in Bag \cup Corpse : GetFromContainer(c, o, b) \/ PerformPut(c, o, b)
        \/ \E d \in Char : PerformGive(c, d, o)
        \/ \E p \in WearSlot, zapped \in BOOLEAN : PerformWear(c, o, p, zapped)
    \/ \E p \in WearSlot : PerformRemove(c, p)

Drift(x, total) ==
    CASE total = "items"                 -> carry_items[x] - Cardinality(held[x])
      [] total = "light"                 -> light[x] - Cardinality(Alight(Now, x))
      [] total = "weight" /\ x \in Char  -> carry_weight[x] - WeightOf(Now, held[x] \cup WornBy(Now, x))
      [] total = "weight" /\ x \in Obj   -> weight[x] - Own[x] - WeightOf(Now, held[x])

Overlit == {r \in Room : Drift(r, "light") > 0}

\* A total that has gone wrong, or a room lit by no lamp, goes further astray with
\* every repetition: at no more places at once, and no further, than this.
Bounded ==
    /\ Cardinality({w[1] : w \in wrong} \cup Overlit) <= MaxWrong
    /\ \A w \in wrong : w[1] \notin Corpse => Drift(w[1], w[2]) \in -MaxDrift..MaxDrift
    /\ \A r \in Overlit : Drift(r, "light") <= MaxDrift

Step ==
    \/ \E c \in Char :
        \/ Command(c) \/ Leave(c) \/ SpiritDies(c)
        \/ \E r \in Room : Enter(c, r) \/ Move(c, r)
        \/ \E k \in Corpse, byPlayer \in BOOLEAN : Die(c, k, byPlayer)
        \/ \E written \in BOOLEAN : Rent(c, written)
    \/ \E o \in Obj : BurnOut(o) \/ Decay(o) \/ \E h \in Holder : Load(o, h)
    \/ \E from, to \in Room : RelocateAll(from, to)

ObjNext == Step /\ Bounded'

ObjSpec == ObjInit /\ [][ObjNext]_objVars

-----------------------------------------------------------------------------
(* Properties.                                                             *)

Lists(o) == {h \in Holder : o \in held[h]}
Wearers(o) == {x \in Char \X WearSlot : worn[x[1]][x[2]] = o}

\* Every object in the game is in one place, and its pointers say which: no list
\* keeps an object that was moved, worn, spliced into a corpse or a room, or freed.
HeldOnce ==
    \A o \in Obj :
        /\ o \in live => Cardinality(Lists(o)) + Cardinality(Wearers(o)) = 1
        /\ o \notin live => Lists(o) = {} /\ Wearers(o) = {}
        /\ \A h \in Lists(o) :
            /\ in_room[o] = IF h \in Room THEN h ELSE NOWHERE
            /\ carried_by[o] = IF h \in Char THEN h ELSE Null
            /\ in_obj[o] = IF h \in Obj THEN h ELSE Null
            /\ h \in Obj => h \in live
        /\ \A x \in Wearers(o) :
            carried_by[o] = x[1] /\ in_room[o] = NOWHERE /\ in_obj[o] = Null
        /\ \A h \in Lists(o) \cap Char : Present(h)
        /\ \A x \in Wearers(o) : Present(x[1])

\* The number of things a character carries, which decides whether he may take
\* another, is the length of his list: no death, theft of a list, decay or
\* extraction leaves him counting what is gone.
ItemsCounted ==
    \A c \in Char : Present(c) /\ <<c, "items">> \notin wrong => Drift(c, "items") = 0

\* What a character is weighed down by is the weight of what he carries and
\* wears, and a bag weighs itself and what is in it, however it got there.
WeightsAddUp ==
    \A x \in {c \in Char : Present(c)} \cup (Bag \cap live) :
        <<x, "weight">> \notin wrong => Drift(x, "weight") = 0

\* No room is darker than the lamps alight in it.
LampsLight == \A r \in Room : <<r, "light">> \notin wrong => Drift(r, "light") >= 0

\* room.h:112 calls light the number of light sources in the room.  It is not when
\* a corpse lies there, which extract_char's recount takes for one.
NumberOfLightSources ==
    \A r \in Room : <<r, "light">> \notin wrong => Drift(r, "light") = 0
=============================================================================
