------------------------------ MODULE Session ------------------------------
(***************************************************************************)
(* Connections and bodies: descriptor_data of comm.cpp, the char_data it   *)
(* plays, and the pointers each keeps to the other, through login, entry   *)
(* into the game, loss of the link, reconnection, usurpation, switching,   *)
(* snooping, death, idling out and extraction.                             *)
(*                                                                         *)
(* A descriptor or body that has been freed keeps its last field values;   *)
(* code that uses one does anything at all.  wild says that this happened, *)
(* and nothing is said of what comes after.                                *)
(***************************************************************************)
EXTENDS Naturals, FiniteSets

CONSTANTS
    Desc,           \* descriptors the allocator may return
    Body,           \* player bodies the allocator may return
    Mob,            \* mobiles
    Person,         \* stored characters, told apart by their idnum
    Rare,           \* the rarer things that happen: see RareAssumption
    None            \* the null pointer

ASSUME BodyAssumption == Body \cap Mob = {} /\ None \notin Desc \cup Body \cup Mob
ASSUME RareAssumption == Rare \subseteq {"blank name", "dc", "switch", "snoop", "linkaccount"}

VARIABLES
    conn,           \* d->connected, "free" when d is not allocated
    open,           \* those whose d->descriptor is a socket, not the 0 of a closed one
    body,           \* d->character
    original,       \* d->original, the body left behind by a switch
    snooping,       \* d->snoop.snooping
    snoop_by,       \* d->snoop.snoop_by
    live,           \* allocated bodies
    world,          \* character_list
    who,            \* the idnum of a player body
    desc,           \* b->desc
    wild            \* freed memory or a null pointer has been used

vars == <<conn, open, body, original, snooping, snoop_by, live, world, who, desc, wild>>

Being == Body \cup Mob

\* Every state of nanny before a stored character is loaded is "login", the
\* character menu and what it leads to "menu".
Conn == {"free", "login", "menu", "playing", "linkpwd", "linkless", "close"}

TypeOK ==
    /\ conn \in [Desc -> Conn]
    /\ open \subseteq Desc
    /\ body \in [Desc -> Being \cup {None}]
    /\ original \in [Desc -> Body \cup {None}]
    /\ snooping \in [Desc -> Being \cup {None}]
    /\ snoop_by \in [Desc -> Being \cup {None}]
    /\ live \subseteq Being
    /\ world \subseteq Being
    /\ who \in [Body -> Person \cup {None}]
    /\ desc \in [Being -> Desc \cup {None}]
    /\ wild \in BOOLEAN

Init ==
    /\ conn = [d \in Desc |-> "free"]
    /\ open = {}
    /\ body = [d \in Desc |-> None]
    /\ original = [d \in Desc |-> None]
    /\ snooping = [d \in Desc |-> None]
    /\ snoop_by = [d \in Desc |-> None]
    /\ live = Mob
    /\ world = Mob
    /\ who = [b \in Body |-> None]
    /\ desc = [b \in Being |-> None]
    /\ wild = FALSE

-----------------------------------------------------------------------------
Freed(d) == conn[d] = "free"
Players == world \cap Body
\* b is allocated and its desc, read in dd, points to an allocated descriptor.
Linked(b, dd) == b \in live /\ dd[b] # None /\ ~ Freed(dd[b])

GoWild ==
    /\ wild' = TRUE
    /\ UNCHANGED <<conn, open, body, original, snooping, snoop_by, live, world, who, desc>>

\* The program has done something it must not, or it is about to.
Undefined == wild \/ ~ world \subseteq live

\* The descriptors of whom d snoops upon and of who snoops upon d, desc read in dd.
Victims(d, dd) == IF d = None \/ snooping[d] = None THEN {} ELSE {dd[snooping[d]]}
Snoopers(d, dd) == IF d = None \/ snoop_by[d] = None THEN {} ELSE {dd[snoop_by[d]]}
SnoopStray(d, dd) == d # None /\ \E b \in {snooping[d], snoop_by[d]} \ {None} : ~ Linked(b, dd)

\* "Forget snooping": both ends for own, the other end alone for the others.
ForgetSnooping(own, snoopers, victims) ==
    /\ snooping' = [e \in Desc |-> IF e \in own \cup snoopers THEN None ELSE snooping[e]]
    /\ snoop_by' = [e \in Desc |-> IF e \in own \cup victims THEN None ELSE snoop_by[e]]

\* close_socket tells d's partners and leaves d's own fields.
LeaveSnooping(d) == ForgetSnooping({}, Snoopers(d, desc), Victims(d, desc))

\* Mutant: the link is dead, whatever the descriptor was doing.
CloseSocketKeeping(d, drop_all) ==
    LET keep == body[d] # None /\ ~ drop_all
    IN  IF SnoopStray(d, desc) \/ body[d] \notin live \cup {None} THEN GoWild
        ELSE /\ conn' = [conn EXCEPT ![d] = IF keep THEN "linkless" ELSE "free"]
             /\ open' = open \ {d}
             /\ LeaveSnooping(d)
             /\ UNCHANGED <<body, original, live, world, who, desc, wild>>

\* close_socket_impl(d, drop_all): a player in the game keeps a closed
\* descriptor unless drop_all; any other body is freed with its descriptor.
CloseSocket(d, drop_all) ==
    LET keep == conn[d] = "playing" /\ body[d] # None /\ ~ drop_all
        freed == IF conn[d] = "playing" THEN {} ELSE {body[d]} \ {None}
    IN  IF SnoopStray(d, desc) \/ body[d] \notin live \cup {None} THEN GoWild
        ELSE /\ conn' = [conn EXCEPT ![d] = IF keep THEN "linkless" ELSE "free"]
             /\ open' = open \ {d}
             /\ live' = live \ freed
             /\ LeaveSnooping(d)
             /\ UNCHANGED <<body, original, world, who, desc, wild>>

-----------------------------------------------------------------------------
(* Connections.                                                            *)

\* What the allocator may hand out, c's own memory freed first.  Memory somebody
\* still points to is left out: its use is undefined before it is handed out
\* again and after.
Unused(c, d) ==
    \A e \in Desc \ {d} : Freed(e) \/ c \notin {body[e], original[e], snooping[e], snoop_by[e]}
Allocatable(d) == {b \in Body \ (live \ {body[d]}) : Unused(b, d)}

Connect(d) ==
    /\ Freed(d)
    /\ \A b \in live : desc[b] # d
    /\ conn' = [conn EXCEPT ![d] = "login"]
    /\ open' = open \cup {d}
    /\ body' = [body EXCEPT ![d] = None]
    /\ original' = [original EXCEPT ![d] = None]
    /\ snooping' = [snooping EXCEPT ![d] = None]
    /\ snoop_by' = [snoop_by EXCEPT ![d] = None]
    /\ UNCHANGED <<live, world, who, desc, wild>>

\* A read or write error, an exceptional condition, a close by nanny itself.
LoseLink(d) == d \in open /\ CloseSocket(d, FALSE)

\* check_pre_login_idle: a descriptor without a body, its socket open or not.
PreLoginIdle(d) == ~ Freed(d) /\ body[d] = None /\ CloseSocket(d, FALSE)

\* Mutant: the pass asks for a body as well.
CloseClosingPlayed(d) == conn[d] = "close" /\ d \in open /\ body[d] # None /\ CloseSocket(d, FALSE)

\* The game loop's own pass over those to be closed.
CloseClosing(d) == conn[d] = "close" /\ d \in open /\ CloseSocket(d, FALSE)

\* The command dc.
Dc(d) == "dc" \in Rare /\ d \in open /\ CloseSocket(d, TRUE)

\* A ban, wrong passwords, an expired deadline, logging out: not in the game.
Refuse(d) ==
    /\ conn[d] \in {"login", "menu"}
    /\ conn' = [conn EXCEPT ![d] = "close"]
    /\ UNCHANGED <<open, body, original, snooping, snoop_by, live, world, who, desc, wild>>

\* Blank input at the first prompt closes the socket, and nanny goes on with d.
BlankName(d) == "blank name" \in Rare /\ conn[d] = "login" /\ GoWild

\* The first line at the first prompt makes a body without a name.
FirstInput(d) ==
    /\ conn[d] = "login"
    /\ body[d] = None
    /\ \E b \in Allocatable(d) :
            /\ body' = [body EXCEPT ![d] = b]
            /\ live' = live \cup {b}
            /\ desc' = [desc EXCEPT ![b] = d]
            /\ who' = [who EXCEPT ![b] = None]
    /\ UNCHANGED <<conn, open, original, snooping, snoop_by, world, wild>>

\* Back to the account menu: "0" keeps the body, a refused entry or a deletion
\* frees it.
LeaveMenu(d) ==
    /\ conn[d] = "menu"
    /\ conn' = [conn EXCEPT ![d] = "login"]
    /\ \/ UNCHANGED <<body, live>>
       \/ /\ body' = [body EXCEPT ![d] = None]
          /\ live' = live \ {body[d]}
    /\ UNCHANGED <<open, original, snooping, snoop_by, world, who, desc, wild>>

-----------------------------------------------------------------------------
(* Logging in and entering the game.                                       *)

\* Mutant: the old descriptor of a player who is still connected keeps it.
ReconnectUnheard(d, t, old) ==
    LET e == desc[t]
        dropped == e # None /\ e \notin open
    IN  IF e # None /\ (Freed(e) \/ (dropped /\ SnoopStray(e, desc))) THEN GoWild
        ELSE /\ conn' = [c \in Desc |-> IF c = d THEN "playing"
                                        ELSE IF c = e /\ dropped THEN "free" ELSE conn[c]]
             /\ body' = [body EXCEPT ![d] = t]
             /\ desc' = [desc EXCEPT ![t] = d]
             /\ live' = live \ {old}
             /\ IF dropped THEN LeaveSnooping(e) ELSE UNCHANGED <<snooping, snoop_by>>
             /\ UNCHANGED <<open, original, world, who, wild>>

\* Mutant: the dead descriptor still points to the body when it is closed.
ReconnectFreeing(d, t, old) ==
    LET e == desc[t]
        dropped == e # None /\ e \notin open
    IN  IF e # None /\ (Freed(e) \/ (dropped /\ SnoopStray(e, desc))) THEN GoWild
        ELSE /\ conn' = [c \in Desc |-> IF c = d THEN "playing"
                                        ELSE IF c # e THEN conn[c]
                                        ELSE IF dropped THEN "free" ELSE "close"]
             /\ body' = [c \in Desc |-> IF c = d THEN t ELSE IF c = e THEN None ELSE body[c]]
             /\ desc' = [desc EXCEPT ![t] = d]
             /\ live' = live \ (IF dropped THEN {old, t} ELSE {old})
             /\ IF dropped THEN LeaveSnooping(e) ELSE UNCHANGED <<snooping, snoop_by>>
             /\ UNCHANGED <<open, original, world, who, wild>>

\* d takes over t, which is in the game, and its own body old is freed.  The
\* descriptor t had is told to close, or closed at once when its link is dead.
Reconnect(d, t, old) ==
    LET e == desc[t]
        dropped == e # None /\ e \notin open
    IN  IF e # None /\ (Freed(e) \/ (dropped /\ SnoopStray(e, desc))) THEN GoWild
        ELSE /\ conn' = [c \in Desc |-> IF c = d THEN "playing"
                                        ELSE IF c # e THEN conn[c]
                                        ELSE IF dropped THEN "free" ELSE "close"]
             /\ body' = [c \in Desc |-> IF c = d THEN t ELSE IF c = e THEN None ELSE body[c]]
             /\ desc' = [desc EXCEPT ![t] = d]
             /\ live' = live \ {old}
             /\ IF dropped THEN LeaveSnooping(e) ELSE UNCHANGED <<snooping, snoop_by>>
             /\ UNCHANGED <<open, original, world, who, wild>>

LoggingIn(d) == conn[d] = "login" /\ d \in open
InPlay(p) == {t \in Players : who[t] = p}
\* Mobiles played through a switch by the person p.
Switched(p) == {m \in world \cap Mob : /\ desc[m] # None
                                       /\ original[desc[m]] # None
                                       /\ who[original[desc[m]]] = p}
StrayMob == \E m \in world \cap Mob : desc[m] # None /\ Freed(desc[m])

\* complete_existing_character_login looks first for a body left by a switch ...
LoginSwitched(d, p) ==
    /\ LoggingIn(d)
    /\ \E m \in Switched(p) :
        LET e == desc[m]
            o == original[e]
        IN  IF Freed(e) THEN GoWild
            ELSE /\ body' = [body EXCEPT ![d] = o, ![e] = None]
                 /\ original' = [original EXCEPT ![e] = None]
                 /\ conn' = [conn EXCEPT ![d] = "playing", ![e] = "close"]
                 /\ desc' = [desc EXCEPT ![o] = d]
                 /\ live' = live \ {body[d]}
                 /\ UNCHANGED <<open, snooping, snoop_by, world, who, wild>>

\* ... then for the same person in the game ...
LoginAgain(d, p) ==
    /\ LoggingIn(d)
    /\ Switched(p) = {}
    /\ \E t \in InPlay(p) : IF StrayMob THEN GoWild ELSE Reconnect(d, t, body[d])

\* ... and else shows the character menu, with a body read from the file.
LoginFresh(d, p) ==
    /\ LoggingIn(d)
    /\ Switched(p) = {}
    /\ InPlay(p) = {}
    /\ IF StrayMob THEN GoWild
       ELSE \E b \in Allocatable(d) :
            /\ body' = [body EXCEPT ![d] = b]
            /\ live' = (live \ {body[d]}) \cup {b}
            /\ desc' = [desc EXCEPT ![b] = d]
            /\ who' = [who EXCEPT ![b] = p]
            /\ conn' = [conn EXCEPT ![d] = "menu"]
            /\ UNCHANGED <<open, original, snooping, snoop_by, world, wild>>

\* Mutant: the character is put in the game without a look at who is there.
EnterTwice(d) ==
    /\ conn[d] = "menu"
    /\ d \in open
    /\ world' = world \cup {body[d]}
    /\ conn' = [conn EXCEPT ![d] = "playing"]
    /\ UNCHANGED <<open, body, original, snooping, snoop_by, live, who, desc, wild>>

\* "1" in the character menu: the same person may have entered meanwhile.
EnterGame(d) ==
    /\ conn[d] = "menu"
    /\ d \in open
    /\ LET b == body[d]
       IN  IF b \notin live \/ b \in world THEN GoWild
           ELSE \/ \E t \in InPlay(who[b]) : Reconnect(d, t, b)
                \/ /\ InPlay(who[b]) = {}
                   /\ world' = world \cup {b}
                   /\ conn' = [conn EXCEPT ![d] = "playing"]
                   /\ UNCHANGED <<open, body, original, snooping, snoop_by, live, who, desc, wild>>

-----------------------------------------------------------------------------
(* Leaving the game.                                                       *)

\* Descriptors that left the body b by a switch and still play another.
LeftBehind(b) == {t \in Desc : ~ Freed(t) /\ original[t] = b}

\* extract_char on the player b, after its link cut (or None) is closed and its
\* descriptor freed.  Whoever left b by a switch returns to it first.  With a
\* live link b stays, in its start room, when it respawns and is shown the
\* character menu when it does not; without one it is freed, its dead
\* descriptor with it.
Extract(b, cut, respawn) ==
    LET d0 == IF cut = None THEN desc[b] ELSE None
        back == IF d0 = None THEN LeftBehind(b) ELSE {}
    IN  \E d \in IF back = {} THEN {d0} ELSE back :
        LET dd == [c \in Being |-> IF c = b THEN d
                                   ELSE IF \E t \in back : body[t] = c THEN None ELSE desc[c]]
            stays == d \in open /\ respawn
            dies == d \notin open
        IN  IF \/ b \notin world \/ SnoopStray(cut, desc)
               \/ d # None /\ (Freed(d) \/ SnoopStray(d, dd)) THEN GoWild
            ELSE /\ body' = [t \in Desc |-> IF t \in back THEN b ELSE body[t]]
                 /\ original' = [t \in Desc |-> IF t \in back THEN None ELSE original[t]]
                 /\ desc' = dd
                 /\ world' = IF stays THEN world ELSE world \ {b}
                 /\ live' = IF dies THEN live \ {b} ELSE live
                 /\ conn' = [t \in Desc |-> IF t = cut THEN "free" ELSE IF t # d \/ stays THEN conn[t]
                                            ELSE IF dies THEN "free" ELSE "menu"]
                 /\ open' = open \ {cut}
                 /\ ForgetSnooping({d}, Snoopers(cut, desc) \cup Snoopers(d, dd),
                                        Victims(cut, desc) \cup Victims(d, dd))
                 /\ UNCHANGED <<who, wild>>

\* Death, by whatever hand: a player of this game respawns.
Die(b) == b \in Players /\ Extract(b, None, TRUE)

\* Mutant: the link of an idle player is cut and the player is left at it.
CastOutUnlinked(b) ==
    /\ b \in Players
    /\ desc[b] \in open
    /\ CloseSocket(desc[b], FALSE)

\* The idle limit, purge and delete: a live link is closed, which frees the
\* body as well unless it is in the game, and then the player is extracted.
CastOut(b) ==
    /\ b \in Players
    /\ IF desc[b] \notin open THEN Extract(b, None, FALSE)
       ELSE IF conn[desc[b]] # "playing" THEN GoWild
       ELSE Extract(b, desc[b], FALSE)

\* A command arrives on d from the body it plays.
Commands(d) == conn[d] = "playing" /\ d \in open /\ body[d] \in live

Quit(d) ==
    /\ Commands(d)
    /\ body[d] \in Body
    /\ desc[body[d]] \in open
    /\ Extract(body[d], None, FALSE)

\* The loop reads the character of each open descriptor.
ServeFreed(d) == d \in open /\ body[d] \notin live \cup {None} /\ GoWild

-----------------------------------------------------------------------------
(* Switching, snooping and linking an account, and mobiles.                *)

\* Mutant: the body left behind keeps its desc.
SwitchKept(d) ==
    /\ "switch" \in Rare
    /\ Commands(d)
    /\ LET b == body[d]
           e == desc[b]
       IN  /\ b \in Body /\ e # None
           /\ snooping[e] = None /\ snoop_by[e] = None
           /\ \E m \in world \cap Mob :
                /\ desc[m] = None
                /\ body' = [body EXCEPT ![e] = m]
                /\ original' = [original EXCEPT ![e] = b]
                /\ desc' = [desc EXCEPT ![m] = e]
           /\ UNCHANGED <<conn, open, snooping, snoop_by, live, world, who, wild>>

Switch(d) ==
    /\ "switch" \in Rare
    /\ Commands(d)
    /\ LET b == body[d]
           e == desc[b]
       IN  /\ b \in Body
           /\ e # None
           /\ IF Freed(e) THEN GoWild
              ELSE /\ snooping[e] = None
                   /\ snoop_by[e] = None
                   /\ \E m \in world \cap Mob :
                        /\ desc[m] = None
                        /\ body' = [body EXCEPT ![e] = m]
                        /\ original' = [original EXCEPT ![e] = b]
                        /\ desc' = [desc EXCEPT ![m] = e, ![b] = None]
                   /\ UNCHANGED <<conn, open, snooping, snoop_by, live, world, who, wild>>

\* do_return on the being c, whose desc is e.
BackFrom(c, e) ==
    /\ body' = [body EXCEPT ![e] = original[e]]
    /\ original' = [original EXCEPT ![e] = None]
    /\ desc' = [desc EXCEPT ![original[e]] = e, ![c] = None]

Return(d) ==
    /\ Commands(d)
    /\ LET e == desc[body[d]]
       IN  /\ e # None
           /\ IF Freed(e) THEN GoWild
              ELSE /\ original[e] # None
                   /\ BackFrom(body[d], e)
                   /\ UNCHANGED <<conn, open, snooping, snoop_by, live, world, who, wild>>

SpawnMob(m) ==
    /\ m \notin live
    /\ Unused(m, None)
    /\ live' = live \cup {m}
    /\ world' = world \cup {m}
    /\ desc' = [desc EXCEPT ![m] = None]
    /\ UNCHANGED <<conn, open, body, original, snooping, snoop_by, who, wild>>

\* extract_char on a mobile, whose player returns to the body left behind.
KillMob(m) ==
    LET e == desc[m]
    IN  /\ m \in world \cap Mob
        /\ IF e # None /\ (Freed(e) \/ SnoopStray(e, desc)) THEN GoWild
           ELSE /\ IF e # None /\ original[e] # None THEN BackFrom(m, e)
                   ELSE UNCHANGED <<body, original, desc>>
                /\ ForgetSnooping({e}, Snoopers(e, desc), Victims(e, desc))
                /\ live' = live \ {m}
                /\ world' = world \ {m}
                /\ UNCHANGED <<conn, open, who, wild>>

\* The command snoop of d's body upon v; upon itself it stops.
Snoop(d, v) ==
    /\ "snoop" \in Rare
    /\ Commands(d)
    /\ v \in world
    /\ LET b == body[d]
           e == desc[b]
           f == desc[v]
           old == snooping[e]
       IN  /\ e # None
           /\ f # None
           /\ IF Freed(e) \/ Freed(f) THEN GoWild
              ELSE /\ v = b \/ snoop_by[f] = None
                   /\ IF old # None /\ ~ Linked(old, desc) THEN GoWild
                      ELSE LET told == [g \in Desc |-> IF old # None /\ g = desc[old] THEN None ELSE snoop_by[g]]
                           IN  /\ snooping' = [snooping EXCEPT ![e] = IF v = b THEN None ELSE v]
                               /\ snoop_by' = IF v = b THEN told ELSE [told EXCEPT ![f] = b]
                               /\ UNCHANGED <<conn, open, body, original, live, world, who, desc, wild>>

LinkAccount(d) ==
    /\ "linkaccount" \in Rare
    /\ Commands(d)
    /\ body[d] \in Body
    /\ LET e == desc[body[d]]
       IN  /\ e # None
           /\ IF Freed(e) THEN GoWild
              ELSE /\ conn' = [conn EXCEPT ![e] = "linkpwd"]
                   /\ UNCHANGED <<open, body, original, snooping, snoop_by, live, world, who, desc, wild>>

\* The password, right, wrong or none: back to the game.
LinkDone(d) ==
    /\ conn[d] = "linkpwd"
    /\ d \in open
    /\ conn' = [conn EXCEPT ![d] = "playing"]
    /\ UNCHANGED <<open, body, original, snooping, snoop_by, live, world, who, desc, wild>>

-----------------------------------------------------------------------------
Next ==
    \/ /\ ~ Undefined
       /\ \/ \E d \in Desc :
                \/ Connect(d) \/ LoseLink(d) \/ PreLoginIdle(d) \/ CloseClosing(d) \/ Dc(d)
                \/ Refuse(d) \/ BlankName(d) \/ FirstInput(d) \/ LeaveMenu(d) \/ EnterGame(d)
                \/ Quit(d) \/ ServeFreed(d) \/ Switch(d) \/ Return(d) \/ LinkAccount(d) \/ LinkDone(d)
                \/ \E p \in Person : LoginSwitched(d, p) \/ LoginAgain(d, p) \/ LoginFresh(d, p)
                \/ \E v \in Being : Snoop(d, v)
          \/ \E b \in Body : Die(b) \/ CastOut(b)
          \/ \E m \in Mob : SpawnMob(m) \/ KillMob(m)
    \/ Undefined /\ UNCHANGED vars

\* The game loop closes who is to be closed in every pulse, and two idle clocks
\* run on with nobody to stop them: that of a player without a link, until the
\* player is taken over, and that of a dead descriptor without a body.
Fairness ==
    /\ \A d \in Desc : WF_vars(CloseClosing(d)) /\ WF_vars(PreLoginIdle(d) /\ d \notin open)
    /\ \A b \in Body : WF_vars(CastOut(b) /\ desc[b] \notin open)

Spec == Init /\ [][Next]_vars /\ Fairness
-----------------------------------------------------------------------------
\* An idnum is in the game once, whatever copies of it the menus hold: two
\* copies loaded before either entered end as one body (the searches of
\* complete_existing_character_login and of CON_SLCT).
OneBody == \A p \in Person : Cardinality(InPlay(p)) <= 1

\* The pointers between a descriptor and what it plays agree, and a player in
\* the game has a descriptor, or was left by one that has not closed.
LinksAgree ==
    /\ \A d \in Desc : conn[d] \in {"menu", "playing", "linkpwd", "linkless"} =>
            body[d] \in live /\ desc[body[d]] = d
    /\ \A b \in Players : /\ desc[b] = None => LeftBehind(b) # {}
                          /\ desc[b] # None => body[desc[b]] = b

\* No use of freed memory, and nothing freed on character_list.
Defined == ~ Undefined

\* A closed descriptor stays only for a link-dead player in the game: every
\* way out of the game and every reconnection frees it.
DeadLinksHeld == \A d \in Desc : ~ Freed(d) /\ d \notin open => body[d] \in world

\* What a player's desc points to plays that player, whatever was switched,
\* snooped, cut or linked on the way.
DescPlays == \A b \in Players : desc[b] # None /\ ~ Freed(desc[b]) => body[desc[b]] = b

\* Who is told to close is closed: at once when its socket is open, and when it
\* is not, which the closing pass leaves alone, by the idle check.
ClosingEnds == \A d \in Desc : conn[d] = "close" ~> conn[d] # "close" \/ Undefined

\* Nobody stands in the game with a dead link for ever.
LinkDead(b) == b \in Players /\ desc[b] # None /\ conn[desc[b]] = "linkless"
LinkLossEnds == \A b \in Body : LinkDead(b) ~> ~ LinkDead(b) \/ Undefined

(* The inductive invariant of a game without the rarer things.             *)

Holds(d) == body[d] \in (Body \cap live) \ world /\ desc[body[d]] = d
InGame(d) == body[d] \in Players /\ desc[body[d]] = d
InTheGame == {"playing", "linkless"}

DescSound(d) ==
    /\ conn[d] # "linkpwd"
    /\ d \in open <=> conn[d] \notin {"free", "linkless"}
    /\ conn[d] \in {"login", "close"} => body[d] = None \/ Holds(d)
    /\ conn[d] = "menu" => Holds(d)
    /\ conn[d] \in InTheGame => InGame(d)

PlayerSound(b) == desc[b] \in Desc /\ conn[desc[b]] \in InTheGame /\ body[desc[b]] = b

OnePerson == \A b, c \in Players : who[b] = who[c] => b = c

Quiet ==
    /\ \A d \in Desc : original[d] = None /\ snooping[d] = None /\ snoop_by[d] = None
    /\ \A m \in Mob : desc[m] = None
    /\ wild = FALSE /\ world \subseteq live

IInv ==
    /\ TypeOK
    /\ Quiet
    /\ \A d \in Desc : DescSound(d)
    /\ \A b \in Players : PlayerSound(b)
    /\ OnePerson

(* The inductive invariant of every game, the rarer things included: it holds  *)
(* for as long as nothing freed has been used.                               *)

\* A body that is allocated is played by what its desc points to.
BodyPlayed(b) == desc[b] # None /\ ~ Freed(desc[b]) => body[desc[b]] = b

\* So is a mobile, but that a login may have taken its player away.
MobPlayed(m) == LET e == desc[m]
                IN  e # None /\ ~ Freed(e) =>
                        body[e] = m \/ (body[e] = None /\ conn[e] \notin {"login", "menu"})

Outside(d) == conn[d] \in {"login", "menu"}
\* The bodies d plays or has left by a switch.
Claims(d) == {body[d], original[d]} \cap Body

Claimed ==
    /\ \A b \in live \cap Body : BodyPlayed(b)
    /\ \A m \in live \cap Mob : m \in world /\ MobPlayed(m)
    /\ \A d \in Desc : ~ Freed(d) /\ original[d] # None =>
            body[d] \in Mob \cap live /\ desc[body[d]] = d
    /\ \A d \in Desc : Outside(d) => Claims(d) \cap world = {}
    /\ \A d, e \in Desc : Outside(d) /\ Outside(e) /\ d # e => Claims(d) \cap Claims(e) = {}

RareIInv ==
    /\ TypeOK
    /\ DescPlays
    /\ OnePerson
    /\ ~ Undefined => Claimed

(* What a comment promises, and the code does not keep.                     *)

\* handler.cpp:583: what free_char frees is registered nowhere.
NothingFreedInTheWorld == world \subseteq live
=============================================================================
