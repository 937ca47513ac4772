------------------------------ MODULE WaitList ------------------------------
(***************************************************************************)
(* Delayed commands: the waiting list, the WAIT_STATE macros of utils.h,   *)
(* complete_delay, abort_delay and break_spell of comm.cpp, and the walk   *)
(* by which game_loop counts the delays down once per pulse.               *)
(*                                                                         *)
(* A character whose command takes time is linked into waiting_list with a *)
(* number of pulses to wait (negative: until somebody interrupts it) and   *)
(* usually carries AFF_WAITING, which stops the loop from reading its      *)
(* player's input.  When the count reaches 0 the walk runs the command,    *)
(* and a command may do anything to the list the walk stands on: delay its *)
(* own character again, abort, interrupt or kill it or any other.          *)
(***************************************************************************)
EXTENDS Chains

CONSTANTS
    Char,           \* characters
    Cycle,          \* the delays commands ask for; negative: until interrupted
    Priority,       \* delay priorities
    None,           \* the walk is not under way, or has reached the end
    Wild            \* the walk has followed a link out of freed memory

ASSUME CycleAssumption == Cycle \subseteq Int /\ 0 \notin Cycle
ASSUME PriorityAssumption == Priority \subseteq Nat
ASSUME WalkAssumption == None \notin Char /\ Wild \notin Char /\ None # Wild

VARIABLES
    live,           \* allocated characters
    list,           \* waiting_list
    wait,           \* c->delay.wait_value
    prio,           \* c->delay.priority
    waiting,        \* those affected by AFF_WAITING
    at,             \* wait_ch, the character game_loop's walk stands on
    running         \* complete_delay(wait_ch) has been called from the walk

vars == <<live, list, wait, prio, waiting, at, running>>

TypeOK ==
    /\ live \subseteq Char
    /\ list \in Seq(Char)
    /\ wait \in [Char -> Cycle \cup Nat]
    /\ prio \in [Char -> Nat]
    /\ waiting \subseteq Char
    /\ at \in Char \cup {None, Wild}
    /\ running \in BOOLEAN

Init ==
    /\ live = {}
    /\ list = <<>>
    /\ wait = [c \in Char |-> 0]
    /\ prio = [c \in Char |-> 0]
    /\ waiting = {}
    /\ at = None
    /\ running = FALSE

\* The server is single-threaded: other code runs between walks, and inside
\* the command the walk is running.
Elsewhere == at = None \/ running

\* A new character, in memory that may have been another's.
Create(c) ==
    /\ Elsewhere
    /\ c \notin live
    /\ live' = live \cup {c}
    /\ wait' = [wait EXCEPT ![c] = 0]
    /\ prio' = [prio EXCEPT ![c] = 0]
    /\ waiting' = waiting \ {c}
    /\ UNCHANGED <<list, at, running>>

-----------------------------------------------------------------------------
(* WAIT_STATE_BRIEF, WAIT_STATE_FULL, WAIT_STATE.                          *)

\* Mutant: pushed on the front, as set_fighting does with the combat list.
QueueAtHead(c, cycle, p) ==
    /\ wait' = [wait EXCEPT ![c] = cycle]
    /\ prio' = [prio EXCEPT ![c] = p]
    /\ list' = <<c>> \o Without(list, c)

\* Mutant: linked at the end without being unlinked first.
QueueTwice(c, cycle, p) ==
    /\ wait' = [wait EXCEPT ![c] = cycle]
    /\ prio' = [prio EXCEPT ![c] = p]
    /\ list' = Append(list, c)

\* The tail of the macros: c gets its delay and goes to the end of the list,
\* from wherever in it c was.
Queue(c, cycle, p) ==
    /\ wait' = [wait EXCEPT ![c] = cycle]
    /\ prio' = [prio EXCEPT ![c] = p]
    /\ list' = Append(Without(list, c), c)

\* Only an indefinite delay leaves its character free to type commands
\* (CMD_PREPARE, CMD_TRAP).
Blocks(cycle, blocking) == cycle > 0 => blocking

\* The character is not delayed, or its spell was broken and has not been
\* cleaned up by the walk yet: then the broken command is overwritten.
DelayIdle(c, cycle, p, blocking) ==
    /\ wait[c] = 0
    /\ Queue(c, cycle, p)
    /\ waiting' = IF blocking THEN waiting \cup {c} ELSE waiting

\* A delay of lower priority than the current one is dropped ("double delay").
DelayRefused(c, p) ==
    /\ wait[c] # 0
    /\ p < prio[c]
    /\ UNCHANGED <<list, wait, prio, waiting>>

\* A delay of at least the current priority completes the current command with
\* subcmd -1.  If that command asks for another delay (cycle2, p2) it is kept
\* and the new one is dropped; if not, abort_delay and the new one is queued.
DelayInterrupts(c, cycle, p, blocking) ==
    /\ wait[c] # 0
    /\ p >= prio[c]
    /\ \/ /\ Queue(c, cycle, p)
          /\ waiting' = IF blocking THEN waiting \cup {c} ELSE waiting \ {c}
       \/ \E cycle2 \in Cycle, p2 \in Priority, blocking2 \in BOOLEAN :
            /\ Blocks(cycle2, blocking2)
            /\ Queue(c, cycle2, p2)
            /\ waiting' = IF blocking2 THEN waiting \cup {c} ELSE waiting \ {c}

Delay(c, cycle, p, blocking) ==
    /\ Elsewhere
    /\ c \in live
    /\ Blocks(cycle, blocking)
    /\ \/ DelayIdle(c, cycle, p, blocking)
       \/ DelayRefused(c, p)
       \/ DelayInterrupts(c, cycle, p, blocking)
    /\ UNCHANGED <<live, at, running>>

-----------------------------------------------------------------------------
\* Mutant: the flag AFF_WAITING is forgotten.
UndelayStillWaiting(c) ==
    /\ list' = Without(list, c)
    /\ wait' = [wait EXCEPT ![c] = 0]
    /\ prio' = [prio EXCEPT ![c] = 0]
    /\ UNCHANGED waiting

\* The body of abort_delay(c).
Undelay(c) ==
    /\ list' = Without(list, c)
    /\ wait' = [wait EXCEPT ![c] = 0]
    /\ prio' = [prio EXCEPT ![c] = 0]
    /\ waiting' = waiting \ {c}

\* abort_delay(c), by any handler; also the death of a player, who stays
\* allocated: raw_kill completes a positive delay before it aborts it, and
\* whatever the completed command asks for is aborted too.
AbortDelay(c) ==
    /\ Elsewhere
    /\ c \in live
    /\ Undelay(c)
    /\ UNCHANGED <<live, at, running>>

\* extract_char(c) of a mobile: abort_delay, and a second unlinking that finds
\* nothing, before free_char.
ExtractChar(c) ==
    /\ Elsewhere
    /\ c \in live
    /\ Undelay(c)
    /\ live' = live \ {c}
    /\ UNCHANGED <<at, running>>

\* break_spell(c): a blank line, damage, earthquake, mind block.  Callers have
\* seen AFF_WAITWHEEL on c, or a positive delay.  The flags and the list keep c
\* until the walk completes the delay, now with subcmd -1.
BreakSpell(c) ==
    /\ Elsewhere
    /\ c \in live
    /\ c \in waiting \/ wait[c] > 0
    /\ wait' = [wait EXCEPT ![c] = 0]
    /\ UNCHANGED <<live, list, prio, waiting, at, running>>

-----------------------------------------------------------------------------
(* The walk of game_loop.                                                  *)

\* What follows c: abort_delay leaves delay.next 0 in what it unlinks.
Follower(c) == IF HasSuccessor(list, c) THEN Successor(list, c) ELSE None

StartPulse ==
    /\ at = None
    /\ list # <<>>
    /\ at' = Head(list)
    /\ UNCHANGED <<live, list, wait, prio, waiting, running>>

\* More than this pulse to go, or no end in sight.
StillWaiting(n) == n > 1 \/ n < 0

\* Mutant: a copy of the count is decremented.
CountDownCopy ==
    /\ at \in Char
    /\ ~ running
    /\ StillWaiting(wait[at])
    /\ at' = Follower(at)
    /\ UNCHANGED <<live, list, wait, prio, waiting, running>>

CountDown ==
    /\ at \in Char
    /\ ~ running
    /\ StillWaiting(wait[at])
    /\ wait' = [wait EXCEPT ![at] = IF @ > 0 THEN @ - 1 ELSE @]
    /\ at' = Follower(at)
    /\ UNCHANGED <<live, list, prio, waiting, running>>

\* The count reaches 0: complete_delay(wait_ch) starts its command.
CompleteDelay ==
    /\ at \in Char
    /\ ~ running
    /\ ~ StillWaiting(wait[at])
    /\ wait' = [wait EXCEPT ![at] = 0]
    /\ waiting' = waiting \ {at}
    /\ running' = TRUE
    /\ UNCHANGED <<live, list, prio, at>>

\* The command returns: the walk reads wait_ch->delay.next, then aborts the
\* delay unless the command asked for another.
Return ==
    /\ running
    /\ at \in live
    /\ running' = FALSE
    /\ at' = Follower(at)
    /\ IF wait[at] = 0 THEN Undelay(at)
                       ELSE UNCHANGED <<list, wait, prio, waiting>>
    /\ UNCHANGED live

\* The command freed its own character: delay.next is read, and written, in
\* freed memory, which holds the 0 abort_delay left there or anything else.
ReturnToFreed ==
    /\ running
    /\ at \notin live
    /\ running' = FALSE
    /\ at' \in {None, Wild}
    /\ UNCHANGED <<live, list, wait, prio, waiting>>

Walk == StartPulse \/ CountDown \/ CompleteDelay \/ Return \/ ReturnToFreed

Next ==
    \/ Walk
    \/ \E c \in Char : Create(c) \/ AbortDelay(c) \/ ExtractChar(c) \/ BreakSpell(c)
    \/ \E c \in Char, cycle \in Cycle, p \in Priority, blocking \in BOOLEAN :
          Delay(c, cycle, p, blocking)

Spec == Init /\ [][Next]_vars

-----------------------------------------------------------------------------
\* Nobody is frozen: a character that is delayed, or whose player's input is
\* held back by AFF_WAITING, is in the list the walk counts down.
NeverFrozen ==
    \A c \in live : wait[c] # 0 \/ c \in waiting => c \in Members(list)

\* The list is a list: no character is met twice and none is freed memory,
\* whatever the commands did to the list the walk was standing on.
ListSound == Distinct(list) /\ Members(list) \subseteq live

\* The walk stands on freed memory, or on a character the list has lost, only
\* while the command that freed or aborted it runs.
WalkSound == at \in Char /\ ~ running => at \in Members(list)

\* Those who stay in the list are served in the order they were delayed: only
\* the character being delayed anew moves, and it moves to the end.
FirstComeFirstServed ==
    [][\A c, d \in Members(list') :
          Before(list, c, d) /\ ~ Before(list', c, d) => list'[Len(list')] = c]_vars

\* The inductive strengthening the proofs use.
IInv == TypeOK /\ NeverFrozen /\ ListSound /\ WalkSound

DelayedAnew(c) == Len(list') > 0 /\ list'[Len(list')] = c /\ wait'[c] # 0
                  /\ Elsewhere

\* However many commands cut the walk short by delaying or aborting their own
\* character, every counted delay ends: a character with a positive delay gets
\* rid of it, unless it is delayed anew over and over, the walk is lost, or one
\* pulse never ends, its commands queueing others at the tail with broken spells.
EveryDelayEnds ==
    \A c \in Char : \/ []<>(wait[c] <= 0)
                    \/ []<><<DelayedAnew(c)>>_vars
                    \/ <>(at = Wild)
                    \/ <>[](at # None)
=============================================================================
