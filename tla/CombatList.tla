----------------------------- MODULE CombatList -----------------------------
(***************************************************************************)
(* Who fights whom: combat_list and the fighting pointers of fight.cpp,    *)
(* with the callers that engage, disengage and extract fighters, and the   *)
(* walk of perform_violence, which keeps its place in combat_next_dude     *)
(* while a blow may remove anybody from the list it walks.                 *)
(*                                                                         *)
(* Most callers of stop_fighting call it several times in a row (everyone  *)
(* who fights ch, then ch; ch and its opponent until ch is free).  agenda  *)
(* holds the calls the running C++ function still has to make: nothing     *)
(* else runs until it is empty, but each call sees what the last one left. *)
(***************************************************************************)
EXTENDS Chains, FiniteSets

CONSTANTS
    Char,           \* characters
    Mystic,         \* those who may get a mental delay
    Frail,          \* those who may be stunned and live on: a bound
    None            \* the null pointer

ASSUME NoneAssumption == None \notin Char
ASSUME MysticAssumption == Mystic \subseteq Char
ASSUME FrailAssumption == Frail \subseteq Char

VARIABLES
    live,           \* allocated characters
    list,           \* combat_list
    fighting,       \* c->specials.fighting
    ready,          \* those with at least ENE_TO_HIT energy
    delayed,        \* those with a mental delay
    stunned,        \* those at POSITION_STUNNED or below, not yet dead
    at,             \* fighter, the character perform_violence stands on
    next_dude,      \* combat_next_dude
    acting,         \* hit() or do_mental() has been called for fighter
    agenda          \* calls still to be made by the function that is running

vars == <<live, list, fighting, ready, delayed, stunned, at, next_dude, acting, agenda>>

Op == {"stop", "stop_him", "leave_room", "free"}

TypeOK ==
    /\ live \subseteq Char
    /\ list \in Seq(Char)
    /\ fighting \in [Char -> Char \cup {None}]
    /\ ready \subseteq Char
    /\ delayed \subseteq Mystic
    /\ stunned \subseteq Char
    /\ at \in Char \cup {None}
    /\ next_dude \in Char \cup {None}
    /\ acting \in BOOLEAN
    /\ agenda \in Seq(Op \X Char)

Init ==
    /\ live = {}
    /\ list = <<>>
    /\ fighting = [c \in Char |-> None]
    /\ ready = {}
    /\ delayed = {}
    /\ stunned = {}
    /\ at = None
    /\ next_dude = None
    /\ acting = FALSE
    /\ agenda = <<>>

Follower(s, c) == IF HasSuccessor(s, c) THEN Successor(s, c) ELSE None

\* The server is single-threaded: other code runs between two rounds and
\* inside a blow, and a function that is running finishes first.
Elsewhere == agenda = <<>> /\ (at = None \/ acting)

Create(c) ==
    /\ Elsewhere
    /\ c \notin live
    /\ live' = live \cup {c}
    /\ fighting' = [fighting EXCEPT ![c] = None]
    /\ ready' = ready \ {c}
    /\ delayed' = delayed \ {c}
    /\ stunned' = stunned \ {c}
    /\ UNCHANGED <<list, at, next_dude, acting, agenda>>

-----------------------------------------------------------------------------
(* The three functions.                                                    *)

\* Mutant: the list is not searched for ch before it is pushed.
SetFightingTwice(c, v) ==
    IF c = v \/ fighting[c] # None
    THEN UNCHANGED <<list, fighting, stunned>>
    ELSE /\ list' = <<c>> \o list
         /\ fighting' = [fighting EXCEPT ![c] = v]
         /\ stunned' = IF v = None THEN stunned ELSE stunned \ {c}

\* set_fighting(c, v): a character that fights somebody already goes on.
SetFighting(c, v) ==
    IF c = v \/ fighting[c] # None
    THEN UNCHANGED <<list, fighting, stunned>>
    ELSE /\ list' = IF c \in Members(list) THEN list ELSE <<c>> \o list
         /\ fighting' = [fighting EXCEPT ![c] = v]
         /\ stunned' = IF v = None THEN stunned ELSE stunned \ {c}

\* Those who are fighting c, other than its own opponent.
OtherAttackers(c) ==
    {d \in Members(list) : fighting[d] = c /\ fighting[c] # d}

\* Mutant: the walk's place is forgotten.
UnlinkOnly(c) ==
    /\ list' = Without(list, c)
    /\ UNCHANGED next_dude

\* Leaving the list moves the place of a walk that would go on to c.
Unlink(c) ==
    /\ list' = Without(list, c)
    /\ next_dude' = IF c = next_dude THEN Follower(list, c) ELSE next_dude

\* Mutant: a character that turns to another attacker leaves the list as well.
StopFightingUnlinked(c) ==
    \E t \in OtherAttackers(c) \cup {None} :
        LET stays == \/ t = None /\ c \notin ready
                     \/ c \in delayed /\ c \notin stunned
        IN  /\ fighting' = [fighting EXCEPT ![c] = IF stays THEN None ELSE t]
            /\ IF stays THEN UNCHANGED <<list, next_dude>> ELSE Unlink(c)

\* stop_fighting(c): t is the first other attacker c can see, if any.  A
\* character that has not regained its energy, or has a mental delay, keeps its
\* place in the list; one with another attacker turns to it; otherwise c leaves.
StopFighting(c) ==
    \E t \in OtherAttackers(c) \cup {None} :
        LET stays == \/ t = None /\ c \notin ready
                     \/ c \in delayed /\ c \notin stunned
        IN  /\ fighting' = [fighting EXCEPT ![c] = IF stays THEN None ELSE t]
            /\ IF stays \/ t # None THEN UNCHANGED <<list, next_dude>>
                                    ELSE Unlink(c)

-----------------------------------------------------------------------------
(* Callers.                                                                *)

\* damage(), do_mental(), damage_stat(), rescue: c and v in one room.
Engage(c, v) ==
    /\ Elsewhere
    /\ {c, v} \subseteq live
    /\ SetFighting(c, v)
    /\ UNCHANGED <<live, ready, delayed, at, next_dude, acting, agenda>>

\* The places that turn a fighter to another of its attackers: do_hit, rescue,
\* damage_stat, MOB_SWITCHING.
Turn(c, v) ==
    /\ Elsewhere
    /\ {c, v} \subseteq live
    /\ c # v /\ fighting[c] \notin {None, v} /\ fighting[v] = c
    /\ fighting' = [fighting EXCEPT ![c] = v]
    /\ UNCHANGED <<live, list, ready, delayed, stunned, at, next_dude, acting, agenda>>

\* set_mental_delay(c): the first delay puts c in the list, which counts it.
SetMentalDelay(c) ==
    /\ Elsewhere
    /\ c \in live \cap Mystic
    /\ IF c \in delayed THEN UNCHANGED <<list, fighting, stunned>>
                        ELSE SetFighting(c, None)
    /\ delayed' = delayed \cup {c}
    /\ UNCHANGED <<live, ready, at, next_dude, acting, agenda>>

\* Damage may stun, and healing or the regaining of energy undo it.
Stun(c) ==
    /\ Elsewhere
    /\ c \in (Frail \cap live) \ stunned
    /\ stunned' = stunned \cup {c}
    /\ UNCHANGED <<live, list, fighting, ready, delayed, at, next_dude, acting, agenda>>

Recover(c) ==
    /\ Elsewhere
    /\ c \in stunned
    /\ stunned' = stunned \ {c}
    /\ UNCHANGED <<live, list, fighting, ready, delayed, at, next_dude, acting, agenda>>

Run(ops) ==
    /\ Elsewhere
    /\ agenda' = ops
    /\ UNCHANGED <<live, list, fighting, stunned, at, next_dude, acting>>

\* The calls of damage() for a victim no longer awake, of hit() and the mage's
\* spells, all made for a character that is fighting.
Stop(c) ==
    /\ c \in live
    /\ fighting[c] # None
    /\ Run(<< <<"stop", c>> >>)
    /\ UNCHANGED <<ready, delayed>>

\* A death ward, or a script that forbids the death.
Spare(c) ==
    /\ c \in live
    /\ Run(<< <<"stop_him", c>>, <<"stop", c>> >>)
    /\ UNCHANGED <<ready, delayed>>

\* char_from_room, once c has been taken out of the chain of its room.
LeaveRoom(c) ==
    /\ c \in live
    /\ Run(<< <<"leave_room", c>> >>)
    /\ UNCHANGED <<ready, delayed>>

\* check_idling takes an idle player into the void: first its opponent stops,
\* whomever that one fights, then the player.
IdleIntoVoid(c) ==
    /\ c \in live
    /\ fighting[c] # None
    /\ Run(<< <<"stop", fighting[c]>>, <<"stop", c>> >>)
    /\ UNCHANGED <<ready, delayed>>

\* Mutant: extract_char without stop_fighting_him.
ExtractOneSided(c, freed) ==
    /\ c \in live
    /\ Run(IF freed THEN << <<"stop", c>>, <<"leave_room", c>>, <<"free", c>> >>
                    ELSE << <<"stop", c>>, <<"leave_room", c>> >>)
    /\ ready' = ready \cup {c}
    /\ delayed' = delayed \ {c}

\* Mutant: extract_char that leaves the energy as it is.
ExtractSpent(c, freed) ==
    /\ c \in live
    /\ Run(<< <<"stop_him", c>>, <<"stop", c>>, <<"leave_room", c>> >>
             \o IF freed THEN << <<"free", c>> >> ELSE <<>>)
    /\ delayed' = delayed \ {c}
    /\ UNCHANGED ready

\* extract_char(c), which frees a mobile and sends a player home: energy and
\* mental delay are set so that stop_fighting really takes c out of the list.
Extract(c, freed) ==
    /\ c \in live
    /\ Run(<< <<"stop_him", c>>, <<"stop", c>>, <<"leave_room", c>> >>
             \o IF freed THEN << <<"free", c>> >> ELSE <<>>)
    /\ ready' = ready \cup {c}
    /\ delayed' = delayed \ {c}

-----------------------------------------------------------------------------
(* The calls, one at a time.                                               *)

\* The function that is running has a call of this kind to make for c.
Due(op, c) == agenda # <<>> /\ Head(agenda) = <<op, c>>

CallStop(c) ==
    /\ Due("stop", c)
    /\ StopFighting(c)
    /\ agenda' = Tail(agenda)
    /\ UNCHANGED <<live, ready, delayed, stunned, at, acting>>

\* stop_fighting_him(c): the list is walked once; d is the next one met that
\* fights c, and stops.  Nobody turns to c, so those passed need no second look.
CallStopHim(c) ==
    /\ Due("stop_him", c)
    /\ IF \E d \in Members(list) : fighting[d] = c
       THEN \E i \in 1..Len(list) :
                /\ fighting[list[i]] = c
                /\ \A j \in 1..(i - 1) : fighting[list[j]] # c
                /\ StopFighting(list[i])
                /\ UNCHANGED agenda
       ELSE /\ agenda' = Tail(agenda)
            /\ UNCHANGED <<list, fighting, next_dude>>
    /\ UNCHANGED <<live, ready, delayed, stunned, at, acting>>

\* Mutant: the opponent is not stopped.
LeaveRoomAlone(c) ==
    << <<"stop", c>>, <<"leave_room", c>> >>

\* One turn of char_from_room's loop.
LeaveRoomTurn(c) ==
    (IF fighting[fighting[c]] = c THEN << <<"stop", fighting[c]>> >> ELSE <<>>)
        \o << <<"stop", c>>, <<"leave_room", c>> >>

CallLeaveRoom(c) ==
    /\ Due("leave_room", c)
    /\ agenda' = IF fighting[c] # None THEN LeaveRoomTurn(c) \o Tail(agenda)
                                       ELSE Tail(agenda)
    /\ UNCHANGED <<live, list, fighting, ready, delayed, stunned, at, next_dude, acting>>

CallFree(c) ==
    /\ Due("free", c)
    /\ live' = live \ {c}
    /\ agenda' = Tail(agenda)
    /\ UNCHANGED <<list, fighting, ready, delayed, stunned, at, next_dude, acting>>

Call(c) == CallStop(c) \/ CallStopHim(c) \/ CallLeaveRoom(c) \/ CallFree(c)

-----------------------------------------------------------------------------
(* perform_violence.                                                       *)

Walking == at # None /\ ~ acting /\ agenda = <<>>

StartRound ==
    /\ agenda = <<>> /\ at = None
    /\ list # <<>>
    /\ at' = Head(list)
    /\ next_dude' = Follower(list, Head(list))
    /\ UNCHANGED <<live, list, fighting, ready, delayed, stunned, acting, agenda>>

\* fighter = combat_next_dude, and combat_next_dude = fighter->next_fighting.
GoOn ==
    /\ at' = next_dude
    /\ next_dude' = Follower(list, next_dude)

\* The fighter's mental delay is counted down and not over.
Meditate ==
    /\ Walking
    /\ at \in delayed
    /\ GoOn
    /\ UNCHANGED <<live, list, fighting, ready, delayed, stunned, acting, agenda>>

\* The fighter gathers energy, or may not act at all, and its mental delay may
\* have run out.
Gather ==
    /\ Walking
    /\ ready' \in {ready, ready \cup {at}}
    /\ delayed' \in {delayed, delayed \ {at}}
    /\ GoOn
    /\ UNCHANGED <<live, list, fighting, stunned, acting, agenda>>

\* do_mental(), which spends no energy, or hit(), which does: whatever follows
\* from it happens before the walk goes on.
Attack ==
    /\ Walking
    /\ at \notin stunned
    /\ fighting[at] # None
    /\ ready' \in {ready, ready \ {at}}
    /\ delayed' \in {delayed, delayed \ {at}}
    /\ acting' = TRUE
    /\ UNCHANGED <<live, list, fighting, stunned, at, next_dude, agenda>>

EndAttack ==
    /\ acting /\ agenda = <<>>
    /\ acting' = FALSE
    /\ GoOn
    /\ UNCHANGED <<live, list, fighting, ready, delayed, stunned, agenda>>

\* A fighter with energy and nobody to hit: stop_fighting(fighter).
NobodyThere ==
    /\ Walking
    /\ at \in ready
    /\ acting' = TRUE
    /\ agenda' = << <<"stop", at>> >>
    /\ UNCHANGED <<live, list, fighting, ready, delayed, stunned, at, next_dude>>

Round == StartRound \/ Meditate \/ Gather \/ Attack \/ EndAttack \/ NobodyThere

Next ==
    \/ Round
    \/ \E c \in Char :
          \/ Create(c) \/ SetMentalDelay(c) \/ Stun(c) \/ Recover(c)
          \/ Stop(c) \/ Spare(c) \/ LeaveRoom(c) \/ IdleIntoVoid(c)
          \/ Extract(c, TRUE) \/ Extract(c, FALSE)
          \/ Call(c)
    \/ \E c, v \in Char : Engage(c, v) \/ Turn(c, v)

Spec == Init /\ [][Next]_vars

-----------------------------------------------------------------------------
\* Whatever a blow removes, the walk goes on from a member of the list, and
\* the list holds no character twice.
ListSound == Distinct(list) /\ next_dude \in Members(list) \cup {None}

\* Freed memory is in the list of no fighter and the target of none: who is in
\* the list fights somebody who exists.
TargetsExist ==
    \A c \in Members(list) :
        c \in live /\ (fighting[c] # None => fighting[c] \in live)

\* Once extract_char has stopped everybody, nobody in the list turns to the
\* character again before it is freed.
NobodyTurnsToTheDead ==
    agenda # <<>> /\ Head(agenda)[1] = "free" =>
        LET c == Head(agenda)[2]
        IN  c \notin Members(list) /\ \A d \in Members(list) : fighting[d] # c

\* Who fights without being in the list is never served, and is passed over by
\* stop_fighting_him.
Stray(c) == fighting[c] # None /\ c \notin Members(list)

\* Every fighter is on the one chain of the game, as docs/systems/combat-loop.md
\* has it, but for one way out of it: stop_fighting called for somebody who is
\* not fighting and has attackers, as check_idling does to the idle's opponent,
\* turns it to one of them without linking it.  Nothing else makes a stray,
\* whoever stops, turns, is stunned or dies in a blow.
OnlyTheVoidStrays ==
    [][\A c \in live' : Stray(c)' => \/ Stray(c)
                                     \/ Due("stop", c) /\ fighting[c] = None]_vars
=============================================================================
