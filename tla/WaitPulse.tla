----------------------------- MODULE WaitPulse ------------------------------
(***************************************************************************)
(* How many pulses a delay really lasts.  The walk of game_loop reads the  *)
(* link of a character after running its command, and a command that       *)
(* delays, aborts or kills its own character has unlinked it by then: the  *)
(* walk ends there, and those behind are not counted down in that pulse.   *)
(* A history variable over WaitList says who was passed over and where     *)
(* they stood.                                                             *)
(***************************************************************************)
EXTENDS WaitList

VARIABLE
    stood       \* where those stood when the pulse began whom it has yet to count

pulseVars == <<vars, stood>>

Position(s, c) == CHOOSE i \in 1..Len(s) : s[i] = c

\* c is counted, or no longer waits for the delay the pulse found it with.
Forget(c) == [x \in DOMAIN stood \ {c} |-> stood[x]]

Nobody == [c \in {} |-> 0]

PulseInit == Init /\ stood = Nobody

PulseEnds == at' \in {None, Wild}

PulseNext ==
    \/ /\ StartPulse
       /\ stood' = [c \in {d \in Members(list) : wait[d] > 0} |-> Position(list, c)]
    \/ /\ CountDown \/ CompleteDelay \/ Return \/ ReturnToFreed
       /\ stood' = IF PulseEnds THEN Nobody ELSE Forget(at)
    \/ \E c \in Char :
       /\ \/ Create(c) \/ AbortDelay(c) \/ ExtractChar(c) \/ BreakSpell(c)
          \/ \E cycle \in Cycle, p \in Priority, blocking \in BOOLEAN :
                Delay(c, cycle, p, blocking)
       /\ stood' = Forget(c)

\* game_loop runs for ever, and so does its walk; a command it runs returns.
PulseSpec == PulseInit /\ [][PulseNext]_pulseVars /\ WF_vars(Walk)

\* The inductive strengthening the proofs use: whoever the pulse has yet to
\* count is in the list, no further back than it stood, and either the walk is
\* still on its way to it or somebody in front of it has left already.
StoodSound ==
    /\ at \in {None, Wild} => DOMAIN stood = {}
    /\ \A c \in DOMAIN stood :
          /\ c \in Members(list)
          /\ stood[c] \in Nat
          /\ Position(list, c) <= stood[c]
          /\ \/ c = at
             \/ Before(list, at, c)
             \/ Position(list, c) < stood[c]

\* Being passed over is bounded: whoever a pulse leaves uncounted has moved up
\* in the list, because the one who cut the walk short stood in front of it and
\* left or went to the end.  So a delay of n pulses asked for behind k others
\* ends within n + k pulses.
PassedOverMovesUp ==
    [][at # None /\ at' = None =>
         \A c \in DOMAIN stood \ {at} : Position(list', c) < stood[c]]_pulseVars
=============================================================================
