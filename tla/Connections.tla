---------------------------- MODULE Connections -----------------------------
(***************************************************************************)
(* The main loop of comm.cpp over descriptor_list: each pulse it accepts a *)
(* connection, drops broken ones, reads, runs one command each, writes,    *)
(* closes those that asked for it, and lets the world go on.  A command    *)
(* may close any connection of the list the walk stands in.  Text waits in *)
(* a small buffer of the connection's own, then in a large one of a shared *)
(* pool, and is lost once it does not fit that either.                     *)
(*                                                                         *)
(* The unit of text is one small buffer or a part of it: only what fits    *)
(* where is told apart.                                                    *)
(***************************************************************************)
EXTENDS Chains, FiniteSets

CONSTANTS
    Desc,           \* descriptors that may be allocated
    Buffer,         \* large buffers that may be created
    Small, Large,   \* capacity of a small and of a large buffer
    MaxText,        \* longest text queued at once
    Own,            \* stands for a connection's small buffer
    None            \* the null pointer

ASSUME NullAssumption == None \notin Desc \cup Buffer /\ Own \notin Buffer \cup {None}
ASSUME CapacityAssumption == Small \in Nat /\ Large \in Nat /\ Small <= Large
ASSUME TextAssumption == MaxText \in Nat

VARIABLES
    list,           \* descriptor_list
    open,           \* those whose socket is open
    conn,           \* d->connected, as far as closing and hearing go
    held,           \* how much text waits in d->output
    over,           \* those in the overflow state
    output,         \* d->output: its own small buffer or a large one
    large,          \* d->large_outbuf
    pool,           \* bufpool, last returned first
    made,           \* large buffers created so far
    phase,          \* the part of the pulse
    at,             \* the descriptor the walk stands on
    next,           \* next_point, or next_to_process
    running         \* a handler is running for at, or the heartbeat

walkVars == <<phase, at, next, running>>
bufVars == <<held, over, output, large, pool, made>>
vars == <<list, open, conn, bufVars, walkVars>>

Walk == {"kick", "input", "commands", "output", "closing"}

TypeOK ==
    /\ list \in Seq(Desc)
    /\ open \subseteq Desc
    /\ conn \in [Desc -> {"free", "login", "play", "linkless", "close"}]
    /\ held \in [Desc -> 0..Large]
    /\ over \subseteq Desc
    /\ output \in [Desc -> Buffer \cup {Own}]
    /\ large \in [Desc -> Buffer \cup {None}]
    /\ pool \in Seq(Buffer)
    /\ made \subseteq Buffer
    /\ phase \in Walk \cup {"poll", "greet", "heart"}
    /\ at \in Desc \cup {None}
    /\ next \in Desc \cup {None}
    /\ running \in BOOLEAN

Init ==
    /\ list = <<>>
    /\ open = {}
    /\ conn = [d \in Desc |-> "free"]
    /\ held = [d \in Desc |-> 0]
    /\ over = {}
    /\ output = [d \in Desc |-> Own]
    /\ large = [d \in Desc |-> None]
    /\ pool = <<>>
    /\ made = {}
    /\ phase = "poll"
    /\ at = None
    /\ next = None
    /\ running = FALSE

-----------------------------------------------------------------------------
(* Output.                                                                 *)

Space(d) == (IF output[d] = Own THEN Small ELSE Large) - held[d]

\* Mutant: the buffer is used and stays in the pool.
TakeBufferShared(b) ==
    \/ /\ pool # <<>>
       /\ b = Head(pool)
       /\ UNCHANGED <<pool, made>>
    \/ /\ pool = <<>>
       /\ b \in Buffer \ made
       /\ made' = made \cup {b}
       /\ UNCHANGED pool

\* Where the next large buffer comes from.
TakeBuffer(b) ==
    \/ /\ pool # <<>>
       /\ b = Head(pool)
       /\ pool' = Tail(pool)
       /\ UNCHANGED made
    \/ /\ pool = <<>>
       /\ b \in Buffer \ made
       /\ made' = made \cup {b}
       /\ UNCHANGED pool

\* write_to_output(n units, d): into the buffer in use, else into a large one
\* with what was waiting, else nowhere.
Write(d, n) ==
    /\ d \notin over
    /\ \/ /\ n <= Space(d)
          /\ held' = [held EXCEPT ![d] = @ + n]
          /\ UNCHANGED <<over, output, large, pool, made>>
       \/ /\ n > Space(d)
          /\ large[d] # None \/ held[d] + n > Large
          /\ over' = over \cup {d}
          /\ UNCHANGED <<held, output, large, pool, made>>
       \/ /\ n > Space(d)
          /\ large[d] = None /\ held[d] + n <= Large
          /\ \E b \in Buffer :
                /\ TakeBuffer(b)
                /\ large' = [large EXCEPT ![d] = b]
                /\ output' = [output EXCEPT ![d] = b]
          /\ held' = [held EXCEPT ![d] = @ + n]
          /\ UNCHANGED over

\* The pool once d has given its large buffer back.
Returned(d) == IF large[d] = None THEN pool ELSE <<large[d]>> \o pool

\* Mutant: process_output forgets to go back to the small buffer.
EmptiedInPlace(d) ==
    /\ pool' = Returned(d)
    /\ large' = [large EXCEPT ![d] = None]
    /\ held' = [held EXCEPT ![d] = 0]
    /\ over' = over \ {d}
    /\ UNCHANGED <<made, output>>

\* process_output(d), once the socket has taken the text.
Emptied(d) ==
    /\ pool' = Returned(d)
    /\ large' = [large EXCEPT ![d] = None]
    /\ output' = [output EXCEPT ![d] = IF large[d] = None THEN @ ELSE Own]
    /\ held' = [held EXCEPT ![d] = 0]
    /\ over' = over \ {d}
    /\ UNCHANGED made

-----------------------------------------------------------------------------
(* Walks.                                                                  *)

Follower(s, d) == IF HasSuccessor(s, d) THEN Successor(s, d) ELSE None

First(s) == IF s = <<>> THEN None ELSE s[1]

\* The walk comes to x, a member of s or None, and takes note of what follows.
ComeTo(x, s) ==
    /\ at' = x
    /\ next' = IF x = None THEN None ELSE Follower(s, x)
    /\ running' = FALSE

Begin(p, s) == phase' = p /\ ComeTo(First(s), s)

\* Mutant: freeing a descriptor leaves the place of the walk alone.
FreeNotNoticed(d) ==
    /\ list' = Without(list, d)
    /\ UNCHANGED next

\* The end of close_socket_impl for a descriptor that is freed.
Free(d) ==
    /\ list' = Without(list, d)
    /\ next' = IF next = d THEN Follower(list, d) ELSE next

\* close_socket_impl(d, drop_all).  The large buffer goes back to the pool;
\* a player in the game keeps the descriptor, whose output still points into
\* the buffer it gave back.
CloseSocket(d, dropAll) ==
    /\ open' = open \ {d}
    /\ pool' = Returned(d)
    /\ large' = [large EXCEPT ![d] = None]
    /\ IF conn[d] = "play" /\ ~dropAll
       THEN /\ conn' = [conn EXCEPT ![d] = "linkless"]
            /\ UNCHANGED <<list, next, held, over, output>>
       ELSE /\ Free(d)
            /\ conn' = [conn EXCEPT ![d] = "free"]
            /\ held' = [held EXCEPT ![d] = 0]
            /\ over' = over \ {d}
            /\ output' = [output EXCEPT ![d] = Own]
    /\ UNCHANGED made

-----------------------------------------------------------------------------
(* A new connection.                                                       *)

\* pnew_descriptor prepends it.
Connect(d) ==
    /\ phase = "poll"
    /\ conn[d] = "free"
    /\ list' = <<d>> \o list
    /\ open' = open \cup {d}
    /\ conn' = [conn EXCEPT ![d] = "login"]
    /\ phase' = "greet" /\ at' = d
    /\ UNCHANGED <<bufVars, next, running>>

\* The greeting fits a large buffer.
Greet(n) ==
    /\ phase = "greet" /\ at # None /\ ~running
    /\ n <= Large
    /\ Write(at, n)
    /\ running' = TRUE
    /\ UNCHANGED <<list, open, conn, phase, at, next>>

Greeted ==
    /\ phase = "greet" /\ running
    /\ at' = None /\ running' = FALSE
    /\ UNCHANGED phase

\* It is sent at once, or waits for the output walk; a connection that cannot
\* be written to is freed.
GreetingSent ==
    /\ Greeted
    /\ Emptied(at)
    /\ UNCHANGED <<list, open, conn, next>>

GreetingWaits ==
    /\ Greeted
    /\ UNCHANGED <<list, open, conn, bufVars, next>>

GreetingFails ==
    /\ Greeted
    /\ CloseSocket(at, FALSE)

StartPulse ==
    /\ phase \in {"poll", "greet"} /\ at = None
    /\ Begin("kick", list)
    /\ UNCHANGED <<list, open, conn, bufVars>>

-----------------------------------------------------------------------------
(* What the walks do at a descriptor.                                      *)

\* The descriptor the walk of p has just come to, if its socket is open.
Reached(p) == phase = p /\ at \in open /\ ~running

\* The exceptional set, a failed read, a failed write, CON_CLOSE.
Drop ==
    /\ \/ Reached("kick") \/ Reached("input")
       \/ Reached("output") /\ held[at] > 0
       \/ Reached("closing") /\ conn[at] = "close"
    /\ CloseSocket(at, FALSE)
    /\ running' = TRUE
    /\ UNCHANGED <<phase, at>>

\* A line is read, or a command found in the queue.
Handle ==
    /\ Reached("input") \/ Reached("commands")
    /\ running' = TRUE
    /\ UNCHANGED <<list, open, conn, bufVars, phase, at, next>>

\* Mutant: an overflowed connection counts as one with nothing to send.
AcceptUnlessOver ==
    /\ Reached("output") /\ held[at] > 0 /\ at \notin over
    /\ running' = TRUE
    /\ UNCHANGED <<list, open, conn, bufVars, phase, at, next>>

\* flush_pending_output: the socket takes the text, and the snooper is shown
\* a copy before the buffer goes back.
Accept ==
    /\ Reached("output") /\ held[at] > 0
    /\ running' = TRUE
    /\ UNCHANGED <<list, open, conn, bufVars, phase, at, next>>

Sent ==
    /\ phase = "output" /\ running /\ at \in open
    /\ Emptied(at)
    /\ ComeTo(next, list)
    /\ UNCHANGED <<list, open, conn, phase>>

\* Nothing to do at this one (or it would block), or the handler is done.
Advance ==
    /\ phase \in Walk /\ at # None
    /\ running => phase # "output" \/ at \notin open
    /\ Reached("closing") => conn[at] # "close"
    /\ ComeTo(next, list)
    /\ UNCHANGED <<list, open, conn, bufVars, phase>>

Following == [kick |-> "input", input |-> "commands", commands |-> "output",
              output |-> "closing"]

NextWalk ==
    /\ phase \in Walk /\ at = None
    /\ IF phase = "closing"
       THEN /\ phase' = "heart" /\ running' = TRUE
            /\ UNCHANGED <<at, next>>
       ELSE Begin(Following[phase], list)
    /\ UNCHANGED <<list, open, conn, bufVars>>

EndPulse ==
    /\ phase = "heart"
    /\ phase' = "poll" /\ running' = FALSE
    /\ UNCHANGED <<list, open, conn, bufVars, at, next>>

-----------------------------------------------------------------------------
(* What a handler does: a command, the heartbeat, a lost link told to the  *)
(* room, a copy for a snooper.                                             *)

\* Those in the game, link-dead or not, hear the room; a handler answers its
\* own connection, unless that is the one being emptied.
Hears(d) ==
    \/ conn[d] \in {"play", "linkless"} /\ ~(phase = "output" /\ d = at)
    \/ d = at /\ d \in open /\ phase \in {"input", "commands"}
    \/ phase = "heart" /\ conn[d] = "close"

Hear(d, n) ==
    /\ running /\ phase # "greet"
    /\ Hears(d)
    /\ Write(d, n)
    /\ UNCHANGED <<list, open, conn, walkVars>>

\* Commands and the world change who is connected.
Acting == running /\ phase \in {"commands", "heart"}

Unchanged == UNCHANGED <<list, open, bufVars, walkVars>>

\* The character of the running command's connection enters the game.
Enter ==
    /\ Acting /\ phase = "commands"
    /\ at \in open /\ conn[at] = "login"
    /\ conn' = [conn EXCEPT ![at] = "play"]
    /\ Unchanged

\* quit, death, deletion: back to the menu, or out.  A login that takes a
\* switched body closes the connection it had, whether that has a link or not.
Leave(d, to) ==
    /\ Acting
    /\ \/ d \in open /\ conn[d] = "play"
       \/ conn[d] = "linkless" /\ to = "close"
    /\ conn' = [conn EXCEPT ![d] = to]
    /\ Unchanged

\* A refused login, a goodbye, a deadline.
Refuse(d) ==
    /\ Acting
    /\ d \in open /\ conn[d] = "login"
    /\ phase = "commands" => d = at
    /\ conn' = [conn EXCEPT ![d] = "close"]
    /\ Unchanged

\* close_socket for any connection: dc, purge, a reconnection, link-dead
\* characters that idle out, logins that idle out.
Close(d, dropAll) ==
    /\ Acting
    /\ conn[d] # "free"
    /\ CloseSocket(d, dropAll)
    /\ UNCHANGED <<phase, at, running>>

Loop ==
    \/ StartPulse \/ GreetingSent \/ GreetingWaits \/ GreetingFails
    \/ \E n \in 1..MaxText : Greet(n)
    \/ Drop \/ Handle \/ Accept \/ Sent \/ Advance \/ NextWalk \/ EndPulse

Next ==
    \/ Loop
    \/ \E d \in Desc :
          \/ Connect(d)
          \/ \E n \in 1..MaxText : Hear(d, n)
          \/ \E to \in {"login", "close"} : Leave(d, to)
          \/ Refuse(d)
          \/ \E dropAll \in BOOLEAN : Close(d, dropAll)
    \/ Enter

Spec == Init /\ [][Next]_vars
-----------------------------------------------------------------------------
(* Properties.                                                             *)

\* Every large buffer ever created is in the pool, once, or belongs to one
\* connection, however that connection was closed: none is lost, and none is
\* handed to two.
BuffersOnce ==
    /\ Distinct(pool)
    /\ \A d \in Desc : large[d] # None => large[d] \in made \ Members(pool)
    /\ \A d, e \in Desc : large[d] # None /\ large[d] = large[e] => d = e
    /\ \A b \in made : b \in Members(pool) \/ \E d \in Desc : large[d] = b

\* Text for an open connection goes into a buffer nobody else writes to and
\* nobody can be given (a link-dead one may still write into a buffer it has
\* given back).
PrivateOutput ==
    \A d \in open :
        /\ output[d] \notin Members(pool)
        /\ \A e \in open : output[e] = output[d] => e = d \/ output[d] = Own

\* Whatever a handler closes, the walk goes on with a connection of the list,
\* the one that follows where it stands: nobody is visited twice, passed over
\* or read after being freed.
WalkSafe ==
    /\ next \in Members(list) \cup {None}
    /\ phase \in Walk /\ ~running => at \in Members(list) \cup {None}
    /\ phase \in Walk /\ at \in Members(list) => next = Follower(list, at)

\* The loop goes on, handlers return, and a socket that is written to again
\* and again takes the text at last.
Fairness ==
    /\ WF_vars(Loop)
    /\ \A d \in Desc : SF_vars(at = d /\ Accept)

FairSpec == Spec /\ Fairness

\* What waits for a connection is sent, or the connection is closed.
TextSent ==
    \A d \in Desc :
        d \in open /\ held[d] > 0 ~> held[d] = 0 \/ d \notin open
=============================================================================
