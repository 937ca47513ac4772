--------------------------- MODULE WaitListProofs ---------------------------
(***************************************************************************)
(* For any characters, delays and priorities: nobody delayed is ever out   *)
(* of the list that would release it, the list is a list of live           *)
(* characters, and the walk stands on one of them.  The four hold          *)
(* together: that the walk's character is in the list is what keeps it     *)
(* from being frozen when its count is written back, and that the list has *)
(* no duplicate is what keeps the walk from standing on what it unlinks.   *)
(*                                                                         *)
(* The order follows: commands that come due run first come, first served  *)
(* within a priority, and who a pulse passes over has moved up.            *)
(***************************************************************************)
EXTENDS WaitPulse, ChainLemmas

\* WAIT_STATE leaves its character last in a sound list, and every other
\* member where it was.
LEMMA QueueOutcome ==
    ASSUME TypeOK, ListSound, NEW c \in live, NEW n \in Cycle, NEW p \in Priority,
           Queue(c, n, p)
    PROVE  /\ list' \in Seq(Char) /\ Distinct(list')
           /\ Members(list') = Members(list) \cup {c}
           /\ wait' \in [Char -> Cycle \cup Nat] /\ prio' \in [Char -> Nat]
           /\ \A d \in Char \ {c} : wait'[d] = wait[d]
<1>1. list \in Seq(Char) /\ Distinct(list) /\ c \in Char
  BY DEF TypeOK, ListSound
<1> DEFINE rest == Without(list, c)
<1>2. rest \in Seq(Char) /\ Members(rest) = Members(list) \ {c} /\ Distinct(rest)
  BY <1>1, WithoutMembers
<1>3. list' = Append(rest, c) /\ c \notin Members(rest)
  BY <1>2 DEF Queue
<1> HIDE DEF rest
<1>4. /\ list' \in Seq(Char) /\ Distinct(list')
      /\ Members(list') = Members(rest) \cup {c}
  BY <1>1, <1>2, <1>3, AppendMembers
<1>5. /\ wait' \in [Char -> Cycle \cup Nat] /\ prio' \in [Char -> Nat]
      /\ \A d \in Char \ {c} : wait'[d] = wait[d]
  BY PriorityAssumption DEF Queue, TypeOK
<1> QED
  BY <1>2, <1>4, <1>5

\* abort_delay leaves its character out of the list and neither delayed nor
\* flagged.
LEMMA UndelayOutcome ==
    ASSUME TypeOK, ListSound, NEW c \in Char, Undelay(c)
    PROVE  /\ list' \in Seq(Char) /\ Distinct(list')
           /\ Members(list') = Members(list) \ {c}
           /\ wait' \in [Char -> Cycle \cup Nat] /\ prio' \in [Char -> Nat]
           /\ wait'[c] = 0 /\ waiting' = waiting \ {c}
           /\ \A d \in Char \ {c} : wait'[d] = wait[d]
<1>1. list \in Seq(Char) /\ Distinct(list) /\ list' = Without(list, c)
  BY DEF TypeOK, ListSound, Undelay
<1>2. list' \in Seq(Char) /\ Distinct(list') /\ Members(list') = Members(list) \ {c}
  BY <1>1, WithoutMembers
<1>3. /\ wait' \in [Char -> Cycle \cup Nat] /\ prio' \in [Char -> Nat]
      /\ wait'[c] = 0 /\ waiting' = waiting \ {c}
      /\ \A d \in Char \ {c} : wait'[d] = wait[d]
  BY DEF Undelay, TypeOK
<1> QED
  BY <1>2, <1>3

\* The walk goes on to another member of the list, or ends.
LEMMA FollowerOutcome ==
    ASSUME TypeOK, ListSound, NEW c \in Char
    PROVE  Follower(c) \in (Members(list) \ {c}) \cup {None}
<1>1. list \in Seq(Char) /\ Distinct(list)
  BY DEF TypeOK, ListSound
<1> QED
  BY <1>1, SuccessorMember DEF Follower

LEMMA MembersAreCharacters == TypeOK => Members(list) \subseteq Char
<1> SUFFICES ASSUME TypeOK PROVE Members(list) \subseteq Char
  OBVIOUS
<1>1. list \in Seq(Char)
  BY DEF TypeOK
<1> QED
  BY <1>1 DEF Members

LEMMA InitInvariant == Init => IInv
<1> SUFFICES ASSUME Init PROVE IInv
  OBVIOUS
<1>1. TypeOK
  <2>1. list \in Seq(Char)
    BY DEF Init
  <2>4. at \in Char \cup {None, Wild} /\ running \in BOOLEAN
    BY Zenon DEF Init
  <2>2. wait \in [Char -> Cycle \cup Nat] /\ prio \in [Char -> Nat]
    BY DEF Init
  <2>3. live \subseteq Char /\ waiting \subseteq Char
    BY DEF Init
  <2> QED
    BY <2>1, <2>2, <2>3, <2>4 DEF TypeOK
<1>2. list = <<>> /\ Len(<<>>) = 0 /\ 1..0 = {}
  BY DEF Init
<1>3. Members(list) = {} /\ Distinct(list)
  BY <1>2 DEF Members, Distinct
<1> QED
  BY <1>1, <1>3, WalkAssumption DEF Init, IInv, NeverFrozen, ListSound, WalkSound

LEMMA CreateStep ==
    ASSUME IInv, NEW c \in Char, Create(c)
    PROVE  IInv'
<1>1. TypeOK'
  BY DEF IInv, TypeOK, Create
<1>2. Members(list') = Members(list) /\ (Distinct(list) => Distinct(list'))
  BY DEF Create, Members, Distinct
<1>3. \A d \in Char : d # c => wait'[d] = wait[d]
  BY DEF IInv, TypeOK, Create
<1>4. wait'[c] = 0
  BY DEF IInv, TypeOK, Create
<1>5. NeverFrozen'
  BY <1>2, <1>3, <1>4 DEF IInv, TypeOK, NeverFrozen, Create
<1>6. ListSound' /\ WalkSound'
  BY <1>2 DEF IInv, ListSound, WalkSound, Create
<1> QED
  BY <1>1, <1>5, <1>6 DEF IInv

LEMMA DelayStep ==
    ASSUME IInv, NEW c \in Char, NEW n \in Cycle, NEW p \in Priority,
           NEW b \in BOOLEAN, Delay(c, n, p, b)
    PROVE  IInv'
<1>1. c \in live /\ Elsewhere /\ UNCHANGED <<live, at, running>>
  BY DEF Delay
<1>2. ASSUME NEW n2 \in Cycle, NEW p2 \in Priority, Queue(c, n2, p2),
             waiting' \subseteq waiting \cup {c}
      PROVE  IInv'
  <2>1. /\ list' \in Seq(Char) /\ Distinct(list')
        /\ Members(list') = Members(list) \cup {c}
        /\ wait' \in [Char -> Cycle \cup Nat] /\ prio' \in [Char -> Nat]
        /\ \A d \in Char \ {c} : wait'[d] = wait[d]
    BY <1>1, <1>2, QueueOutcome DEF IInv
  <2>2. TypeOK'
    BY <1>1, <1>2, <2>1 DEF IInv, TypeOK
  <2>3. NeverFrozen'
    BY <1>1, <1>2, <2>1 DEF IInv, TypeOK, NeverFrozen
  <2>4. ListSound' /\ WalkSound'
    BY <1>1, <2>1 DEF IInv, ListSound, WalkSound
  <2> QED
    BY <2>2, <2>3, <2>4 DEF IInv
<1>3. CASE DelayIdle(c, n, p, b)
  BY <1>2, <1>3 DEF DelayIdle
<1>4. CASE DelayRefused(c, p)
  BY <1>1, <1>4 DEF DelayRefused, IInv, TypeOK, NeverFrozen, ListSound, WalkSound,
                    Members, Distinct
<1>5. CASE DelayInterrupts(c, n, p, b)
  BY <1>2, <1>5 DEF DelayInterrupts
<1> QED
  BY <1>3, <1>4, <1>5 DEF Delay

LEMMA UndelayStep ==
    ASSUME IInv, NEW c \in Char, AbortDelay(c) \/ ExtractChar(c)
    PROVE  IInv'
<1>1. /\ Undelay(c) /\ UNCHANGED <<at, running>> /\ Elsewhere
      /\ live' \in {live, live \ {c}}
  BY DEF AbortDelay, ExtractChar
<1>2. /\ list' \in Seq(Char) /\ Distinct(list')
      /\ Members(list') = Members(list) \ {c}
      /\ wait' \in [Char -> Cycle \cup Nat] /\ prio' \in [Char -> Nat]
      /\ wait'[c] = 0 /\ waiting' = waiting \ {c}
      /\ \A d \in Char \ {c} : wait'[d] = wait[d]
  BY <1>1, UndelayOutcome DEF IInv
<1>3. TypeOK' /\ NeverFrozen'
  BY <1>1, <1>2 DEF IInv, TypeOK, NeverFrozen
<1>4. ListSound'
  BY <1>1, <1>2 DEF IInv, ListSound
<1>5. WalkSound'
  BY <1>1, WalkAssumption DEF Elsewhere, WalkSound
<1> QED
  BY <1>3, <1>4, <1>5 DEF IInv

LEMMA BreakSpellStep ==
    ASSUME IInv, NEW c \in Char, BreakSpell(c)
    PROVE  IInv'
<1>1. TypeOK' /\ NeverFrozen'
  BY DEF IInv, TypeOK, NeverFrozen, BreakSpell, Members
<1>2. ListSound' /\ WalkSound'
  BY DEF IInv, ListSound, WalkSound, BreakSpell, Members, Distinct
<1> QED
  BY <1>1, <1>2 DEF IInv

\* The two steps of the walk that leave the list alone and go on.
LEMMA GoOnStep ==
    ASSUME IInv, StartPulse \/ CountDown
    PROVE  IInv'
<1>1. /\ UNCHANGED <<live, list, prio, waiting, running>>
      /\ at' \in Members(list) \cup {None}
  <2>1. CASE StartPulse
    <3>1. list \in Seq(Char) /\ list # <<>> /\ at' = Head(list)
      BY <2>1 DEF IInv, TypeOK, StartPulse
    <3>2. 1 \in 1..Len(list) /\ at' = list[1]
      BY <3>1
    <3> QED
      BY <2>1, <3>2 DEF StartPulse, Members
  <2>2. CASE CountDown
    BY <2>2, FollowerOutcome DEF IInv, CountDown
  <2> QED
    BY <2>1, <2>2
<1>2. /\ wait' \in [Char -> Cycle \cup Nat]
      /\ \A d \in Char : wait'[d] # 0 => wait[d] # 0
  <2>1. CASE StartPulse
    <3>1. wait' = wait
      BY <2>1 DEF StartPulse
    <3> QED
      BY <3>1 DEF IInv, TypeOK
  <2>2. CASE CountDown
    <3>1. /\ wait \in [Char -> Cycle \cup Nat] /\ StillWaiting(wait[at]) /\ at \in Char
          /\ wait' = [wait EXCEPT ![at] = IF @ > 0 THEN @ - 1 ELSE @]
      BY <2>2 DEF IInv, TypeOK, CountDown
    <3>5. wait[at] \in Cycle \cup Nat
      BY <3>1
    <3>6. Cycle \subseteq Int /\ Nat \subseteq Int
      BY CycleAssumption
    <3>7. wait[at] \in Int
      BY <3>5, <3>6
    <3>2. wait[at] # 0 /\ wait[at] \in Int
      BY <3>1, <3>7 DEF StillWaiting
    <3>3. (IF wait[at] > 0 THEN wait[at] - 1 ELSE wait[at]) \in Cycle \cup Nat
      BY <3>1, <3>2
    <3>4. wait' \in [Char -> Cycle \cup Nat] /\ \A d \in Char \ {at} : wait'[d] = wait[d]
      BY <3>1, <3>3
    <3> QED
      BY <3>2, <3>4
  <2> QED
    BY <2>1, <2>2
<1>4. Members(list) \subseteq Char
  BY MembersAreCharacters DEF IInv
<1>5. TypeOK'
  BY <1>1, <1>2, <1>4 DEF IInv, TypeOK
<1>6. Members(list') = Members(list) /\ (Distinct(list) => Distinct(list'))
  BY <1>1
<1>7. NeverFrozen'
  BY <1>1, <1>2, <1>6 DEF IInv, TypeOK, NeverFrozen
<1>8. ListSound' /\ WalkSound'
  BY <1>1, <1>6, WalkAssumption DEF IInv, ListSound, WalkSound
<1> QED
  BY <1>5, <1>7, <1>8 DEF IInv

LEMMA CompleteDelayStep ==
    ASSUME IInv, CompleteDelay
    PROVE  IInv'
<1>1. TypeOK' /\ NeverFrozen'
  BY DEF IInv, TypeOK, NeverFrozen, CompleteDelay, Members
<1>2. ListSound' /\ WalkSound'
  BY DEF IInv, ListSound, WalkSound, CompleteDelay, Members, Distinct
<1> QED
  BY <1>1, <1>2 DEF IInv

LEMMA ReturnStep ==
    ASSUME IInv, Return
    PROVE  IInv'
<1>1. at \in live /\ at \in Char /\ at' = Follower(at) /\ running' = FALSE /\ live' = live
  BY DEF IInv, TypeOK, Return
<1>2. at' \in (Members(list) \ {at}) \cup {None}
  BY <1>1, FollowerOutcome DEF IInv
<1>3. Members(list) \subseteq Char
  BY MembersAreCharacters DEF IInv
<1>4. CASE wait[at] = 0
  <2>1. Undelay(at)
    BY <1>4 DEF Return
  <2>2. /\ list' \in Seq(Char) /\ Distinct(list')
        /\ Members(list') = Members(list) \ {at}
        /\ wait' \in [Char -> Cycle \cup Nat] /\ prio' \in [Char -> Nat]
        /\ wait'[at] = 0 /\ waiting' = waiting \ {at}
        /\ \A d \in Char \ {at} : wait'[d] = wait[d]
    BY <1>1, <2>1, UndelayOutcome DEF IInv
  <2>3. TypeOK' /\ NeverFrozen'
    BY <1>1, <1>2, <1>3, <2>2 DEF IInv, TypeOK, NeverFrozen
  <2>4. ListSound'
    BY <1>1, <2>2 DEF IInv, ListSound
  <2>5. WalkSound'
    BY <1>2, <2>2, WalkAssumption DEF WalkSound
  <2> QED
    BY <2>3, <2>4, <2>5 DEF IInv
<1>5. CASE wait[at] # 0
  <2>1. UNCHANGED <<live, list, wait, prio, waiting>>
    BY <1>1, <1>5 DEF Return
  <2>2. TypeOK' /\ NeverFrozen'
    BY <1>1, <1>2, <1>3, <2>1 DEF IInv, TypeOK, NeverFrozen, Members
  <2>3. ListSound'
    BY <2>1 DEF IInv, ListSound, Members, Distinct
  <2>4. WalkSound'
    BY <1>2, <2>1, WalkAssumption DEF WalkSound, Members
  <2> QED
    BY <2>2, <2>3, <2>4 DEF IInv
<1> QED
  BY <1>4, <1>5

LEMMA ReturnToFreedStep ==
    ASSUME IInv, ReturnToFreed
    PROVE  IInv'
<1>1. TypeOK' /\ NeverFrozen'
  BY DEF IInv, TypeOK, NeverFrozen, ReturnToFreed, Members
<1>2. ListSound' /\ WalkSound'
  BY WalkAssumption DEF IInv, ListSound, WalkSound, ReturnToFreed, Members, Distinct
<1> QED
  BY <1>1, <1>2 DEF IInv

LEMMA NextInvariant == IInv /\ [Next]_vars => IInv'
<1> SUFFICES ASSUME IInv, [Next]_vars PROVE IInv'
  OBVIOUS
<1>1. CASE UNCHANGED vars
  BY <1>1 DEF vars, IInv, TypeOK, NeverFrozen, ListSound, WalkSound, Members, Distinct
<1>2. CASE Walk
  BY <1>2, GoOnStep, CompleteDelayStep, ReturnStep, ReturnToFreedStep DEF Walk
<1>3. ASSUME NEW c \in Char,
             Create(c) \/ AbortDelay(c) \/ ExtractChar(c) \/ BreakSpell(c)
      PROVE  IInv'
  BY <1>3, CreateStep, UndelayStep, BreakSpellStep
<1>4. ASSUME NEW c \in Char, NEW n \in Cycle, NEW p \in Priority, NEW b \in BOOLEAN,
             Delay(c, n, p, b)
      PROVE  IInv'
  BY <1>4, DelayStep
<1> QED
  BY <1>1, <1>2, <1>3, <1>4 DEF Next

\* The state of the waiting list keeps its types, and an indefinite delay is
\* never counted down to another negative number.
THEOREM TypeCorrect == Spec => []TypeOK
<1>1. IInv => TypeOK
  BY DEF IInv
<1> QED
  BY InitInvariant, NextInvariant, <1>1, PTL DEF Spec

\* No command, interruption, abort or death, in any order and from inside any
\* other command, leaves a live character delayed or flagged outside the list.
THEOREM NobodyFrozen == Spec => []NeverFrozen
<1>1. IInv => NeverFrozen
  BY DEF IInv
<1> QED
  BY InitInvariant, NextInvariant, <1>1, PTL DEF Spec

\* The list holds each delayed character once and nothing that was freed, and
\* the walk, when no command is running, stands in the list.
THEOREM WalkIsSafe == Spec => [](ListSound /\ WalkSound)
<1>1. IInv => ListSound /\ WalkSound
  BY DEF IInv
<1> QED
  BY InitInvariant, NextInvariant, <1>1, PTL DEF Spec

(***************************************************************************)
(* The order of service.                                                   *)
(***************************************************************************)

\* Two members that stay in the list keep their order, unless the first is the
\* one put at its end.
LEMMA QueueOrder ==
    ASSUME NEW s \in Seq(Char), Distinct(s), NEW x \in Char, NEW c, NEW d, c # x,
           Before(s, c, d)
    PROVE  Before(Append(Without(s, x), x), c, d)
<1>1. Without(s, x) \in Seq(Char) /\ Members(Without(s, x)) = Members(s) \ {x}
  BY WithoutMembers
<1>2. CASE d = x
  <2>1. c \in Members(Without(s, x))
    BY <1>1, BeforeMembers
  <2> QED
    BY <1>1, <1>2, <2>1, AppendOrder
<1>3. CASE d # x
  <2>1. Before(Without(s, x), c, d)
    BY <1>3, WithoutOrder
  <2> QED
    BY <1>1, <2>1, AppendOrder
<1> QED
  BY <1>2, <1>3

\* What a step can do to the list: nothing, take one character out, or put one
\* at its end.
LEMMA ListOutcome ==
    ASSUME IInv, [Next]_vars
    PROVE  \/ list' = list
           \/ \E x \in Char : list' = Without(list, x)
           \/ \E x \in live : list' = Append(Without(list, x), x)
<1>1. CASE Walk
  <2>1. Return => at \in Char
    BY DEF IInv, TypeOK, Return
  <2> QED
    BY <1>1, <2>1
       DEF Walk, Return, Undelay, StartPulse, CountDown, CompleteDelay, ReturnToFreed
<1>2. ASSUME NEW c \in Char,
             Create(c) \/ AbortDelay(c) \/ ExtractChar(c) \/ BreakSpell(c)
      PROVE  list' = list \/ list' = Without(list, c)
  BY <1>2 DEF Create, AbortDelay, ExtractChar, BreakSpell, Undelay
<1>3. ASSUME NEW c \in Char, NEW n \in Cycle, NEW p \in Priority, NEW b \in BOOLEAN,
             Delay(c, n, p, b)
      PROVE  c \in live /\ (list' = list \/ list' = Append(Without(list, c), c))
  BY <1>3 DEF Delay, DelayIdle, DelayRefused, DelayInterrupts, Queue
<1> QED
  BY <1>1, <1>2, <1>3 DEF Next, vars

\* Those who stay in the list are served in the order they were delayed: only
\* the character being delayed anew moves, and it moves to the end.
THEOREM ServedInOrder == Spec => FirstComeFirstServed
<1>1. ASSUME IInv, [Next]_vars, NEW c \in Members(list'), NEW d \in Members(list'),
             Before(list, c, d), ~ Before(list', c, d)
      PROVE  list'[Len(list')] = c
  <2>1. list \in Seq(Char) /\ Distinct(list) /\ live \subseteq Char
    BY <1>1 DEF IInv, TypeOK, ListSound
  <2>2. ASSUME NEW x \in Char, list' = Without(list, x)
        PROVE  FALSE
    <3>1. Members(list') = Members(list) \ {x}
      BY <2>1, <2>2, WithoutMembers
    <3> QED
      BY <1>1, <2>1, <2>2, <3>1, WithoutOrder
  <2>3. ASSUME NEW x \in Char, list' = Append(Without(list, x), x)
        PROVE  list'[Len(list')] = c
    <3>1. c = x
      BY <1>1, <2>1, <2>3, QueueOrder
    <3>2. Without(list, x) \in Seq(Char)
      BY <2>1, WithoutMembers
    <3> QED
      BY <2>3, <3>1, <3>2
  <2> QED
    BY <1>1, <2>1, <2>2, <2>3, ListOutcome
<1>2. IInv /\ [Next]_vars =>
        [\A c, d \in Members(list') :
           Before(list, c, d) /\ ~ Before(list', c, d) => list'[Len(list')] = c]_vars
  BY <1>1
<1> QED
  BY <1>2, InitInvariant, NextInvariant, PTL DEF Spec, FirstComeFirstServed

(***************************************************************************)
(* Being passed over.  A pulse that is cut short leaves some delays        *)
(* uncounted; StoodSound says what it owes them.                           *)
(***************************************************************************)

LEMMA PositionBounds ==
    ASSUME NEW s \in Seq(Char), NEW c \in Members(s)
    PROVE  Position(s, c) \in 1..Len(s) /\ s[Position(s, c)] = c
BY DEF Position, Members

LEMMA PositionUnique ==
    ASSUME NEW s \in Seq(Char), Distinct(s), NEW i \in 1..Len(s)
    PROVE  Position(s, s[i]) = i
<1>1. s[i] \in Members(s)
  BY DEF Members
<1>2. Position(s, s[i]) \in 1..Len(s) /\ s[Position(s, s[i])] = s[i]
  BY <1>1, PositionBounds
<1> QED
  BY <1>2 DEF Distinct

\* Before compares positions.
LEMMA BeforePosition ==
    ASSUME NEW s \in Seq(Char), Distinct(s), NEW c, NEW d, Before(s, c, d)
    PROVE  Position(s, c) < Position(s, d)
<1>1. PICK i \in 1..Len(s), j \in 1..Len(s) : i < j /\ s[i] = c /\ s[j] = d
  BY DEF Before
<1> QED
  BY <1>1, PositionUnique

\* Who stays moves up by one when somebody in front of it leaves, and otherwise
\* stays where it stood.
LEMMA WithoutPosition ==
    ASSUME NEW s \in Seq(Char), Distinct(s), NEW x, NEW c \in Members(s), c # x
    PROVE  /\ Position(Without(s, x), c) \in Nat
           /\ Position(Without(s, x), c) <= Position(s, c)
           /\ Before(s, x, c) => Position(Without(s, x), c) < Position(s, c)
<1>1. Position(s, c) \in 1..Len(s) /\ s[Position(s, c)] = c
  BY PositionBounds
<1>2. CASE x \notin Members(s)
  <2>1. ~ Before(s, x, c)
    BY <1>2, BeforeMembers
  <2> QED
    BY <1>1, <1>2, <2>1 DEF Without
<1>3. CASE x \in Members(s)
  <2> DEFINE i == CHOOSE k \in 1..Len(s) : FoundAt(s, x, k)
             u == Unlinked(s, i)
             p == Position(s, c)
             q == IF p < i THEN p ELSE p - 1
  <2>1. PICK k \in 1..Len(s) : s[k] = x
    BY <1>3 DEF Members
  <2>2. FoundAt(s, x, k)
    BY <2>1 DEF FoundAt, Distinct
  <2>3. i \in 1..Len(s) /\ s[i] = x
    BY <2>2 DEF FoundAt
  <2>4. Without(s, x) = u
    BY <1>3 DEF Without
  <2> HIDE DEF i
  <2>5. u \in Seq(Char) /\ Distinct(u)
    BY <2>3, UnlinkedMembers
  <2>6. /\ Len(u) = Len(s) - 1
        /\ \A j \in 1..Len(u) : u[j] = IF j < i THEN s[j] ELSE s[j + 1]
    BY <2>3 DEF Unlinked
  <2>7. p \in 1..Len(s) /\ s[p] = c /\ p # i /\ Len(s) \in Nat
    BY <1>1, <2>3
  <2> HIDE DEF u, p
  <2>8. q \in 1..Len(u) /\ u[q] = c
    BY <2>3, <2>6, <2>7
  <2>9. Position(u, c) = q
    BY <2>5, <2>8, PositionUnique
  <2>10. Before(s, x, c) => i < p
    <3>1. Position(s, s[i]) = i
      BY <2>3, PositionUnique
    <3> QED
      BY <2>3, <3>1, BeforePosition DEF p
  <2> QED
    BY <2>3, <2>4, <2>7, <2>8, <2>9, <2>10 DEF p
<1> QED
  BY <1>2, <1>3

LEMMA AppendPosition ==
    ASSUME NEW s \in Seq(Char), Distinct(s), NEW x \in Char, x \notin Members(s),
           NEW c \in Members(s)
    PROVE  Position(Append(s, x), c) = Position(s, c)
<1> DEFINE t == Append(s, x)
           p == Position(s, c)
<1>1. p \in 1..Len(s) /\ s[p] = c
  BY PositionBounds
<1>2. t \in Seq(Char) /\ Distinct(t)
  BY AppendMembers
<1>3. Len(t) = Len(s) + 1 /\ \A i \in 1..Len(s) : t[i] = s[i]
  OBVIOUS
<1> HIDE DEF t, p
<1>4. p \in 1..Len(t) /\ t[p] = c
  BY <1>1, <1>3
<1>5. Position(t, c) = p
  BY <1>2, <1>4, PositionUnique
<1> QED
  BY <1>5 DEF t, p

\* The list loses x or puts it at its end: everybody else is still there, no
\* further back, behind whom it was behind, and has moved up if x was in front.
LEMMA OthersMoveUp ==
    ASSUME NEW s \in Seq(Char), Distinct(s), NEW x \in Char,
           NEW t \in {Without(s, x), Append(Without(s, x), x)},
           NEW c \in Members(s), c # x
    PROVE  /\ c \in Members(t)
           /\ Position(t, c) \in Nat
           /\ Position(t, c) <= Position(s, c)
           /\ Before(s, x, c) => Position(t, c) < Position(s, c)
           /\ \A a : a # x /\ Before(s, a, c) => Before(t, a, c)
<1> DEFINE w == Without(s, x)
<1>1. w \in Seq(Char) /\ Distinct(w) /\ Members(w) = Members(s) \ {x}
  BY WithoutMembers
<1>2. /\ Position(w, c) \in Nat /\ Position(w, c) <= Position(s, c)
      /\ Before(s, x, c) => Position(w, c) < Position(s, c)
  BY WithoutPosition
<1>3. \A a : a # x /\ Before(s, a, c) => Before(w, a, c)
  BY WithoutOrder
<1> HIDE DEF w
<1>4. CASE t = w
  BY <1>1, <1>2, <1>3, <1>4
<1>5. CASE t = Append(w, x)
  <2>1. Position(t, c) = Position(w, c) /\ Members(t) = Members(w) \cup {x}
    BY <1>1, <1>5, AppendPosition, AppendMembersOnly
  <2>2. \A a : Before(w, a, c) => Before(t, a, c)
    BY <1>1, <1>5, AppendOrder
  <2> QED
    BY <1>1, <1>2, <1>3, <2>1, <2>2
<1> QED
  BY <1>4, <1>5 DEF w

\* Where the walk goes on to is the next in front of everybody it had yet to
\* reach.
LEMMA FollowerIsNext ==
    ASSUME TypeOK, ListSound, NEW c \in Members(list), Before(list, at, c)
    PROVE  Follower(at) = c \/ Before(list, Follower(at), c)
<1>1. list \in Seq(Char) /\ Distinct(list)
  BY DEF TypeOK, ListSound
<1>2. PICK i \in 1..Len(list), j \in 1..Len(list) : i < j /\ list[i] = at /\ list[j] = c
  BY DEF Before
<1> DEFINE k == CHOOSE n \in 1..(Len(list) - 1) : list[n] = at
<1>3. i \in 1..(Len(list) - 1)
  BY <1>1, <1>2
<1>4. k \in 1..(Len(list) - 1) /\ list[k] = at
  BY <1>2, <1>3
<1>5. Follower(at) = list[k + 1]
  BY <1>2, <1>3 DEF Follower, HasSuccessor, Successor
<1> HIDE DEF k
<1>6. k = i
  BY <1>1, <1>2, <1>3, <1>4 DEF Distinct
<1>7. CASE j = i + 1
  BY <1>2, <1>5, <1>6, <1>7
<1>8. CASE j > i + 1
  <2>1. i + 1 \in 1..Len(list) /\ i + 1 < j
    BY <1>2, <1>8
  <2> QED
    BY <1>2, <1>5, <1>6, <2>1 DEF Before
<1> QED
  BY <1>2, <1>7, <1>8

LEMMA PulseNextIsNext == [PulseNext]_pulseVars => [Next]_vars
<1> SUFFICES ASSUME [PulseNext]_pulseVars PROVE [Next]_vars
  OBVIOUS
<1>1. CASE UNCHANGED pulseVars
  BY <1>1 DEF pulseVars
<1>2. CASE PulseNext
  BY <1>2 DEF PulseNext, Next, Walk
<1> QED
  BY <1>1, <1>2

LEMMA ForgetIs ==
    ASSUME NEW c
    PROVE  /\ DOMAIN Forget(c) = DOMAIN stood \ {c}
           /\ \A d \in DOMAIN Forget(c) : Forget(c)[d] = stood[d]
BY DEF Forget

LEMMA InitStood == PulseInit => StoodSound
BY DEF PulseInit, StoodSound, Nobody

\* What other code, or the command the walk is running, does to one character.
LEMMA CommandStood ==
    ASSUME IInv, StoodSound, NEW x \in Char, at' = at, stood' = Forget(x),
           list' \in {list, Without(list, x), Append(Without(list, x), x)}
    PROVE  StoodSound'
<1>1. list \in Seq(Char) /\ Distinct(list)
  BY DEF IInv, TypeOK, ListSound
<1>2. DOMAIN stood' = DOMAIN stood \ {x} /\ \A d \in DOMAIN stood' : stood'[d] = stood[d]
  BY ForgetIs
<1>3. at' \in {None, Wild} => DOMAIN stood' = {}
  BY <1>2 DEF StoodSound
<1>4. ASSUME NEW c \in DOMAIN stood'
      PROVE  /\ c \in Members(list')
             /\ stood'[c] \in Nat
             /\ Position(list', c) <= stood'[c]
             /\ \/ c = at'
                \/ Before(list', at', c)
                \/ Position(list', c) < stood'[c]
  <2>1. /\ c \in DOMAIN stood /\ c # x /\ stood'[c] = stood[c]
    BY <1>2, <1>4
  <2>2. /\ c \in Members(list)
        /\ stood[c] \in Nat
        /\ Position(list, c) <= stood[c]
        /\ \/ c = at
           \/ Before(list, at, c)
           \/ Position(list, c) < stood[c]
    BY <2>1 DEF StoodSound
  <2>3. CASE list' = list
    BY <2>1, <2>2, <2>3
  <2>4. CASE list' \in {Without(list, x), Append(Without(list, x), x)}
    <3>1. /\ c \in Members(list')
          /\ Position(list', c) \in Nat
          /\ Position(list', c) <= Position(list, c)
          /\ Before(list, x, c) => Position(list', c) < Position(list, c)
          /\ \A a : a # x /\ Before(list, a, c) => Before(list', a, c)
      BY <1>1, <2>1, <2>2, <2>4, OthersMoveUp
    <3>2. Position(list, c) \in Nat
      BY <1>1, <2>2, PositionBounds
    <3>3. CASE c = at
      BY <2>1, <2>2, <3>1, <3>2, <3>3
    <3>4. CASE Before(list, at, c)
      <4>1. CASE at = x
        BY <4>1, <2>1, <2>2, <3>1, <3>2, <3>4
      <4>2. CASE at # x
        BY <4>2, <2>1, <2>2, <3>1, <3>2, <3>4
      <4> QED
        BY <4>1, <4>2
    <3>5. CASE Position(list, c) < stood[c]
      BY <2>1, <2>2, <3>1, <3>2, <3>5
    <3> QED
      BY <2>2, <3>3, <3>4, <3>5
  <2> QED
    BY <2>3, <2>4
<1> QED
  BY <1>3, <1>4 DEF StoodSound

\* The walk begins: it stands in front of everybody whose delay is counted.
LEMMA StartStood ==
    ASSUME IInv, StartPulse,
           stood' = [c \in {d \in Members(list) : wait[d] > 0} |-> Position(list, c)]
    PROVE  StoodSound'
<1>1. list \in Seq(Char) /\ Distinct(list) /\ list # <<>> /\ Len(list) \in Nat
  BY DEF IInv, TypeOK, ListSound, StartPulse
<1>2. at' = list[1] /\ list' = list /\ 1 \in 1..Len(list)
  BY <1>1 DEF StartPulse
<1>3. at' \in Char
  BY <1>1, <1>2
<1>4. ASSUME NEW c \in DOMAIN stood'
      PROVE  /\ c \in Members(list') /\ stood'[c] \in Nat
             /\ Position(list', c) <= stood'[c]
             /\ c = at' \/ Before(list', at', c)
  <2>1. c \in Members(list) /\ stood'[c] = Position(list, c)
    OBVIOUS
  <2>2. PICK i \in 1..Len(list) : list[i] = c
    BY <2>1 DEF Members
  <2>3. Position(list, c) = i
    BY <1>1, <2>2, PositionUnique
  <2>4. c = list[1] \/ Before(list, list[1], c)
    BY <1>1, <2>2 DEF Before
  <2> QED
    BY <1>1, <1>2, <2>1, <2>3, <2>4
<1> QED
  BY <1>3, <1>4, WalkAssumption DEF StoodSound

\* What going on from where the walk stands owes to those it has yet to count:
\* they have moved up, or it is on its way to them.
LEMMA WalkOn ==
    ASSUME IInv, StoodSound, at \in Char, list' \in {list, Without(list, at)},
           NEW c \in DOMAIN stood, c # at
    PROVE  /\ c \in Members(list')
           /\ stood[c] \in Nat
           /\ Position(list', c) <= stood[c]
           /\ \/ c = Follower(at)
              \/ Before(list', Follower(at), c)
              \/ Position(list', c) < stood[c]
<1>1. list \in Seq(Char) /\ Distinct(list) /\ TypeOK /\ ListSound
  BY DEF IInv, TypeOK, ListSound
<1>2. /\ c \in Members(list)
      /\ stood[c] \in Nat
      /\ Position(list, c) <= stood[c]
      /\ Before(list, at, c) \/ Position(list, c) < stood[c]
  BY DEF StoodSound
<1>3. Before(list, at, c) => Follower(at) = c \/ Before(list, Follower(at), c)
  BY <1>1, <1>2, FollowerIsNext
<1>4. Follower(at) # at
  BY <1>1, FollowerOutcome, WalkAssumption
<1>5. CASE list' = list
  BY <1>2, <1>3, <1>5
<1>6. CASE list' = Without(list, at)
  <2>1. /\ c \in Members(list')
        /\ Position(list', c) \in Nat
        /\ Position(list', c) <= Position(list, c)
        /\ Before(list, at, c) => Position(list', c) < Position(list, c)
        /\ \A a : a # at /\ Before(list, a, c) => Before(list', a, c)
    BY <1>1, <1>2, <1>6, OthersMoveUp
  <2>2. Position(list, c) \in Nat
    BY <1>1, <1>2, PositionBounds
  <2>3. Position(list', c) <= stood[c]
    BY <1>2, <2>1, <2>2
  <2>4. Before(list, at, c) => Position(list', c) < stood[c]
    BY <1>2, <2>1, <2>2
  <2>5. Position(list, c) < stood[c] => Position(list', c) < stood[c]
    BY <1>2, <2>1, <2>2
  <2> QED
    BY <1>2, <2>1, <2>3, <2>4, <2>5
<1> QED
  BY <1>5, <1>6

\* The property of one step.
PassedOver ==
    at # None /\ at' = None =>
        \A c \in DOMAIN stood \ {at} : Position(list', c) < stood[c]

LEMMA GoOnStood ==
    ASSUME IInv, StoodSound, CountDown \/ Return,
           stood' = IF PulseEnds THEN Nobody ELSE Forget(at)
    PROVE  StoodSound' /\ PassedOver
<1>1. /\ at \in Char /\ at' = Follower(at) /\ list' \in {list, Without(list, at)}
  BY DEF CountDown, Return, Undelay, IInv, TypeOK
<1>2. ASSUME NEW c \in DOMAIN stood, c # at
      PROVE  /\ c \in Members(list')
             /\ stood[c] \in Nat
             /\ Position(list', c) <= stood[c]
             /\ \/ c = at'
                \/ Before(list', at', c)
                \/ Position(list', c) < stood[c]
  BY <1>1, <1>2, WalkOn
<1>3. list' \in Seq(Char) /\ Members(list') \subseteq Char
  <2>1. list \in Seq(Char) /\ Distinct(list)
    BY DEF IInv, TypeOK, ListSound
  <2>2. list' \in Seq(Char)
    BY <1>1, <2>1, WithoutMembers
  <2> QED
    BY <2>2, ElementOfSeq DEF Members
<1>4. ASSUME at' = None, NEW c \in DOMAIN stood, c # at
      PROVE  Position(list', c) < stood[c]
  <2>1. c \in Char /\ None \notin Members(list')
    BY <1>2, <1>3, <1>4, WalkAssumption
  <2>2. ~ Before(list', None, c)
    BY <1>3, <2>1, BeforeMembers
  <2> QED
    BY <1>2, <1>4, <2>1, <2>2, WalkAssumption
<1>5. PassedOver
  BY <1>4 DEF PassedOver
<1>6. CASE PulseEnds
  <2>1. DOMAIN stood' = {}
    BY <1>6 DEF Nobody
  <2> QED
    BY <1>5, <2>1 DEF StoodSound
<1>7. CASE ~ PulseEnds
  <2>1. at' \notin {None, Wild}
    BY <1>7 DEF PulseEnds
  <2>2. DOMAIN stood' = DOMAIN stood \ {at} /\ \A d \in DOMAIN stood' : stood'[d] = stood[d]
    BY <1>7, ForgetIs
  <2> QED
    BY <1>2, <1>5, <2>1, <2>2 DEF StoodSound
<1> QED
  BY <1>6, <1>7

\* A command that freed its own character has taken it out of the list, so
\* everybody the walk loses has moved up.
LEMMA LostStood ==
    ASSUME IInv, StoodSound, ReturnToFreed,
           stood' = IF PulseEnds THEN Nobody ELSE Forget(at)
    PROVE  StoodSound' /\ PassedOver
<1>1. /\ list' = list /\ PulseEnds /\ at \notin live
      /\ list \in Seq(Char) /\ Members(list) \subseteq live
  BY DEF ReturnToFreed, PulseEnds, IInv, TypeOK, ListSound
<1>2. ASSUME NEW c \in DOMAIN stood, c # at
      PROVE  Position(list', c) < stood[c]
  <2>1. ~ Before(list, at, c)
    BY <1>1, BeforeMembers
  <2> QED
    BY <1>1, <1>2, <2>1 DEF StoodSound
<1>3. DOMAIN stood' = {}
  BY <1>1 DEF Nobody
<1> QED
  BY <1>2, <1>3 DEF StoodSound, PassedOver

LEMMA PulseStep ==
    ASSUME IInv, StoodSound, [PulseNext]_pulseVars
    PROVE  StoodSound' /\ [PassedOver]_pulseVars
<1>1. CASE UNCHANGED pulseVars
  BY <1>1 DEF pulseVars, vars, StoodSound
<1>2. CASE StartPulse /\ stood' = [c \in {d \in Members(list) : wait[d] > 0} |-> Position(list, c)]
  <2>1. at = None
    BY <1>2 DEF StartPulse
  <2> QED
    BY <1>2, <2>1, StartStood DEF PassedOver
<1>3. CASE CompleteDelay /\ stood' = IF PulseEnds THEN Nobody ELSE Forget(at)
  <2>1. at \in Char /\ at' = at /\ list' = list
    BY <1>3 DEF CompleteDelay
  <2>2. stood' = Forget(at)
    BY <1>3, <2>1, WalkAssumption DEF PulseEnds
  <2> QED
    BY <2>1, <2>2, CommandStood DEF PassedOver
<1>4. ASSUME NEW c \in Char,
             \/ Create(c) \/ AbortDelay(c) \/ ExtractChar(c) \/ BreakSpell(c)
             \/ \E n \in Cycle, p \in Priority, b \in BOOLEAN : Delay(c, n, p, b),
             stood' = Forget(c)
      PROVE  StoodSound' /\ PassedOver
  <2>1. at' = at
    BY <1>4 DEF Create, AbortDelay, ExtractChar, BreakSpell, Delay
  <2>2. CASE Create(c) \/ AbortDelay(c) \/ ExtractChar(c) \/ BreakSpell(c)
    <3>1. list' \in {list, Without(list, c)}
      BY <2>2 DEF Create, AbortDelay, ExtractChar, BreakSpell, Undelay
    <3> QED
      BY <1>4, <2>1, <3>1, CommandStood DEF PassedOver
  <2>3. ASSUME NEW n \in Cycle, NEW p \in Priority, NEW b \in BOOLEAN, Delay(c, n, p, b)
        PROVE  list' \in {list, Append(Without(list, c), c)}
    BY <2>3 DEF Delay, DelayIdle, DelayRefused, DelayInterrupts, Queue
  <2> QED
    BY <1>4, <2>1, <2>2, <2>3, CommandStood DEF PassedOver
<1> QED
  BY <1>1, <1>2, <1>3, <1>4, GoOnStood, LostStood DEF PulseNext

\* Whoever a pulse leaves uncounted has moved up in the list: for any number of
\* characters, commands and interruptions, so a delay of n pulses asked for
\* behind k others ends within n + k pulses of a walk that is not lost.
THEOREM MovesUp == PulseSpec => PassedOverMovesUp
<1>1. PulseInit => IInv /\ StoodSound
  BY InitInvariant, InitStood DEF PulseInit
<1>2. IInv /\ StoodSound /\ [PulseNext]_pulseVars => IInv' /\ StoodSound'
  BY PulseNextIsNext, NextInvariant, PulseStep
<1>3. IInv /\ StoodSound /\ [PulseNext]_pulseVars =>
        [at # None /\ at' = None =>
           \A c \in DOMAIN stood \ {at} : Position(list', c) < stood[c]]_pulseVars
  BY PulseStep DEF PassedOver
<1> QED
  BY <1>1, <1>2, <1>3, PTL DEF PulseSpec, PassedOverMovesUp

\* The history changes nothing: what is proved of Spec holds of PulseSpec.
THEOREM HistoryOnly == PulseSpec => Spec
BY PulseNextIsNext, PTL DEF PulseSpec, PulseInit, Spec
=============================================================================
