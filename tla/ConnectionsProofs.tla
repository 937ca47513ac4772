-------------------------- MODULE ConnectionsProofs --------------------------
(***************************************************************************)
(* Proofs about Connections, for any number of connections and buffers and *)
(* any capacities: every large buffer is accounted for once, open          *)
(* connections do not share output, and every walk of the main loop goes   *)
(* on with the right connection whatever its handlers close.               *)
(***************************************************************************)
EXTENDS Connections, ChainLemmas

-----------------------------------------------------------------------------
(* Followers.                                                              *)

\* In a chain without duplicates the follower is the element one further on.
LEMMA FollowerAt ==
    ASSUME NEW S, NEW s \in Seq(S), Distinct(s), NEW i \in 1..Len(s)
    PROVE  Follower(s, s[i]) = IF i < Len(s) THEN s[i + 1] ELSE None
<1>0. Len(s) \in Nat
  OBVIOUS
<1>1. CASE i < Len(s)
  <2> DEFINE k == CHOOSE j \in 1..(Len(s) - 1) : s[j] = s[i]
  <2>1. i \in 1..(Len(s) - 1)
    BY <1>0, <1>1
  <2>2. k \in 1..(Len(s) - 1) /\ s[k] = s[i]
    BY <2>1
  <2>3. HasSuccessor(s, s[i]) /\ Successor(s, s[i]) = s[k + 1]
    BY <2>1 DEF HasSuccessor, Successor
  <2> HIDE DEF k
  <2>4. k = i
    BY <2>2, <1>0 DEF Distinct
  <2> QED
    BY <2>3, <2>4, <1>1 DEF Follower
<1>2. CASE ~(i < Len(s))
  <2>1. ASSUME NEW j \in 1..(Len(s) - 1)
        PROVE  s[j] # s[i]
    BY <1>0, <1>2 DEF Distinct
  <2>2. ~HasSuccessor(s, s[i])
    BY <2>1 DEF HasSuccessor
  <2> QED
    BY <2>2, <1>2 DEF Follower
<1> QED
  BY <1>1, <1>2

\* A follower is another member, or there is none.
LEMMA FollowerMember ==
    ASSUME NEW S, NEW s \in Seq(S), NEW c, Distinct(s)
    PROVE  Follower(s, c) \in (Members(s) \ {c}) \cup {None}
BY SuccessorMember DEF Follower

\* Taking d out of a chain changes the follower of the member before it only:
\* that one is then followed by what followed d.
LEMMA FollowerWithout ==
    ASSUME NEW S, NEW s \in Seq(S), Distinct(s),
           NEW c \in Members(s), NEW d \in Members(s), c # d, None \notin S
    PROVE  Follower(Without(s, d), c) =
               IF Follower(s, c) = d THEN Follower(s, d) ELSE Follower(s, c)
<1>0. Len(s) \in Nat
  OBVIOUS
<1>1. PICK i \in 1..Len(s) : s[i] = c
  BY DEF Members
<1> DEFINE k == CHOOSE j \in 1..Len(s) : FoundAt(s, d, j)
<1>2. k \in 1..Len(s) /\ s[k] = d /\ Without(s, d) = Unlinked(s, k)
  <2>1. PICK j \in 1..Len(s) : s[j] = d
    BY DEF Members
  <2>2. FoundAt(s, d, j)
    BY <2>1 DEF FoundAt, Distinct
  <2>3. k \in 1..Len(s) /\ FoundAt(s, d, k)
    BY <2>2
  <2> QED
    BY <2>3 DEF FoundAt, Without
<1> HIDE DEF k
<1> DEFINE u == Unlinked(s, k)
<1>3. u \in Seq(S) /\ Distinct(u)
  BY <1>2, UnlinkedMembers
<1>4. u = [j \in 1..(Len(s) - 1) |-> IF j < k THEN s[j] ELSE s[j + 1]]
  BY DEF Unlinked
<1>5. Len(u) = Len(s) - 1
  <2>1. \A j \in 1..(Len(s) - 1) : (IF j < k THEN s[j] ELSE s[j + 1]) \in S
    BY <1>0, ElementOfSeq
  <2>2. u \in [1..(Len(s) - 1) -> S]
    BY <2>1, <1>4
  <2>3. Len(s) - 1 \in Nat
    BY <1>0, <1>2
  <2> QED
    BY <2>2, <2>3
<1>6. \A j \in 1..Len(u) : u[j] = IF j < k THEN s[j] ELSE s[j + 1]
  BY <1>4, <1>5
<1> HIDE DEF u
<1>7. i # k
  BY <1>1, <1>2
<1> DEFINE p == IF i < k THEN i ELSE i - 1
<1>8. p \in 1..Len(u) /\ u[p] = c
  BY <1>0, <1>1, <1>2, <1>5, <1>6, <1>7
<1>9. Follower(u, c) = IF p < Len(u) THEN u[p + 1] ELSE None
  BY <1>3, <1>8, FollowerAt
<1>10. Follower(s, c) = IF i < Len(s) THEN s[i + 1] ELSE None
  BY <1>1, FollowerAt
<1>11. Follower(s, d) = IF k < Len(s) THEN s[k + 1] ELSE None
  BY <1>2, FollowerAt
<1>12. Follower(s, c) = d <=> k = i + 1
  <2>1. CASE i < Len(s)
    <3>1. i + 1 \in 1..Len(s)
      BY <2>1, <1>0
    <3> QED
      BY <3>1, <2>1, <1>10, <1>2 DEF Distinct
  <2>2. CASE ~(i < Len(s))
    <3>1. d # None
      BY <1>2, ElementOfSeq
    <3> QED
      BY <3>1, <2>2, <1>10, <1>0, <1>2
  <2> QED
    BY <2>1, <2>2
<1>13. CASE k = i + 1
  <2>1. p = i /\ (p < Len(u) <=> k < Len(s))
    BY <1>13, <1>0, <1>5, <1>2
  <2>2. p < Len(u) => u[p + 1] = s[k + 1]
    BY <2>1, <1>13, <1>0, <1>5, <1>6
  <2> QED
    BY <2>1, <2>2, <1>9, <1>11, <1>12, <1>13, <1>2 DEF u
<1>14. CASE k # i + 1
  <2>1. p < Len(u) <=> i < Len(s)
    BY <1>14, <1>7, <1>0, <1>5, <1>2
  <2>2. ASSUME p < Len(u)
        PROVE  u[p + 1] = s[i + 1]
    <3>1. p + 1 \in 1..Len(u)
      BY <2>2, <1>8, <1>0, <1>5
    <3>2. CASE i < k
      BY <3>1, <3>2, <1>6, <1>14, <1>2
    <3>3. CASE i > k
      BY <3>1, <3>3, <1>6, <1>2
    <3> QED
      BY <3>2, <3>3, <1>7, <1>2
  <2> QED
    BY <2>1, <2>2, <1>9, <1>10, <1>12, <1>14, <1>2 DEF u
<1> QED
  BY <1>13, <1>14

-----------------------------------------------------------------------------
(* The inductive invariant.                                                *)

\* The buffers, and where open connections write.
BufInv ==
    /\ held \in [Desc -> 0..Large]
    /\ over \subseteq Desc
    /\ output \in [Desc -> Buffer \cup {Own}]
    /\ large \in [Desc -> Buffer \cup {None}]
    /\ pool \in Seq(Buffer)
    /\ made \subseteq Buffer
    /\ BuffersOnce
    /\ Members(pool) \subseteq made
    /\ \A d \in open : output[d] = IF large[d] = None THEN Own ELSE large[d]

\* The list holds exactly the allocated descriptors.
ListInv ==
    /\ list \in Seq(Desc)
    /\ open \subseteq Desc
    /\ conn \in [Desc -> {"free", "login", "play", "linkless", "close"}]
    /\ Distinct(list)
    /\ \A d \in Desc : conn[d] = "free" <=> d \notin Members(list)
    /\ open \subseteq Members(list)

\* The walks stand where they should; between them nothing is pointed to.
WalkInv ==
    /\ phase \in Walk \cup {"poll", "greet", "heart"}
    /\ at \in Desc \cup {None}
    /\ next \in Desc \cup {None}
    /\ running \in BOOLEAN
    /\ WalkSafe
    /\ phase \in {"poll", "heart"} => at = None
    /\ phase \notin Walk \/ at = None => next = None
    /\ phase = "greet" /\ at # None => at \in open
    /\ phase = "greet" /\ running => at # None

\* A descriptor that may be allocated has nothing left of an earlier one.
FreeInv ==
    \A d \in Desc : conn[d] = "free" => output[d] = Own /\ large[d] = None

IInv == BufInv /\ ListInv /\ FreeInv /\ WalkInv

LEMMA InitInvariant == Init => IInv
<1> SUFFICES ASSUME Init PROVE IInv
  OBVIOUS
<1> USE NullAssumption, CapacityAssumption
<1>1. Members(<<>>) = {} /\ Distinct(<<>>)
  BY DEF Members, Distinct
<1>2. BufInv
  BY <1>1 DEF Init, BufInv, BuffersOnce
<1>3. ListInv
  BY <1>1 DEF Init, ListInv
<1>4. WalkInv
  BY <1>1 DEF Init, WalkInv, WalkSafe, Walk
<1>5. FreeInv
  BY DEF Init, FreeInv
<1> QED
  BY <1>2, <1>3, <1>4, <1>5 DEF IInv

\* The pool once d's large buffer is back in it.
LEMMA ReturnedPool ==
    ASSUME BufInv, NEW d \in Desc
    PROVE  /\ Returned(d) \in Seq(Buffer)
           /\ Distinct(Returned(d))
           /\ Members(Returned(d)) = Members(pool) \cup ({large[d]} \ {None})
<1>1. CASE large[d] = None
  BY <1>1 DEF Returned, BufInv, BuffersOnce
<1>2. CASE large[d] # None
  <2>1. large[d] \in Buffer /\ large[d] \notin Members(pool) /\ Distinct(pool)
        /\ pool \in Seq(Buffer)
    BY <1>2 DEF BufInv, BuffersOnce
  <2> QED
    BY <1>2, <2>1, PrependMembers DEF Returned
<1> QED
  BY <1>1, <1>2

\* Giving d's large buffer back loses no buffer and shares none.
LEMMA GivenBack ==
    ASSUME BufInv, NEW d \in Desc, pool' = Returned(d),
           large' = [large EXCEPT ![d] = None], made' = made
    PROVE  BuffersOnce' /\ Members(pool)' \subseteq made'
<1>1. /\ Distinct(pool')
      /\ Members(pool') = Members(pool) \cup ({large[d]} \ {None})
  BY ReturnedPool
<1>2. large \in [Desc -> Buffer \cup {None}]
  BY DEF BufInv
<1>3. \A e \in Desc : large'[e] = IF e = d THEN None ELSE large[e]
  BY <1>2
<1>4. \A e \in Desc : large'[e] # None => large'[e] \in made' \ Members(pool')
  BY <1>1, <1>3 DEF BufInv, BuffersOnce
<1>5. \A e, f \in Desc : large'[e] # None /\ large'[e] = large'[f] => e = f
  BY <1>3 DEF BufInv, BuffersOnce
<1>6. \A b \in made' : b \in Members(pool') \/ \E e \in Desc : large'[e] = b
  BY <1>1, <1>3, NullAssumption DEF BufInv, BuffersOnce
<1>7. Members(pool') \subseteq made'
  BY <1>1 DEF BufInv, BuffersOnce
<1> QED
  BY <1>1, <1>4, <1>5, <1>6, <1>7 DEF BuffersOnce

\* process_output keeps the buffers sound.
LEMMA EmptiedStep ==
    ASSUME BufInv, NEW d \in Desc, Emptied(d), open' \subseteq open, open \subseteq Desc
    PROVE  BufInv'
<1>1. BuffersOnce' /\ Members(pool)' \subseteq made'
  BY GivenBack DEF Emptied
<1>2. pool' \in Seq(Buffer)
  BY ReturnedPool DEF Emptied
<1>3. /\ held' \in [Desc -> 0..Large]
      /\ over' \subseteq Desc
      /\ output' \in [Desc -> Buffer \cup {Own}]
      /\ large' \in [Desc -> Buffer \cup {None}]
      /\ made' \subseteq Buffer
  BY CapacityAssumption DEF Emptied, BufInv
<1>4. ASSUME NEW e \in open'
      PROVE  output'[e] = IF large'[e] = None THEN Own ELSE large'[e]
  BY <1>4 DEF Emptied, BufInv
<1> QED
  BY <1>1, <1>2, <1>3, <1>4 DEF BufInv

\* A buffer is taken for d: from the pool, or a new one.
LEMMA BufferTaken ==
    ASSUME BufInv, NEW d \in Desc, NEW b \in Buffer, TakeBuffer(b),
           large[d] = None, large' = [large EXCEPT ![d] = b]
    PROVE  /\ pool' \in Seq(Buffer)
           /\ made' \subseteq Buffer
           /\ BuffersOnce'
           /\ Members(pool)' \subseteq made'
<1>1. /\ pool' \in Seq(Buffer)
      /\ Distinct(pool')
      /\ Members(pool') = Members(pool) \ {b}
      /\ made' = made \cup {b}
      /\ \A e \in Desc : large[e] # b
  <2>1. CASE pool # <<>> /\ b = Head(pool) /\ pool' = Tail(pool) /\ UNCHANGED made
    <3>1. pool \in Seq(Buffer) /\ Distinct(pool)
      BY DEF BufInv, BuffersOnce
    <3>2. b \in Members(pool) /\ pool' \in Seq(Buffer)
          /\ Members(pool') = Members(pool) \ {b} /\ Distinct(pool')
      BY <2>1, <3>1, TailMembers
    <3> QED
      BY <2>1, <3>2, NullAssumption DEF BufInv, BuffersOnce
  <2>2. CASE pool = <<>> /\ b \in Buffer \ made /\ made' = made \cup {b} /\ UNCHANGED pool
    BY <2>2, NullAssumption DEF BufInv, BuffersOnce
  <2> QED
    BY <2>1, <2>2 DEF TakeBuffer
<1>2. \A e \in Desc : large'[e] = IF e = d THEN b ELSE large[e]
  BY DEF BufInv
<1>3. \A e \in Desc : large'[e] # None => large'[e] \in made' \ Members(pool')
  BY <1>1, <1>2 DEF BufInv, BuffersOnce
<1>4. \A e, f \in Desc : large'[e] # None /\ large'[e] = large'[f] => e = f
  BY <1>1, <1>2 DEF BufInv, BuffersOnce
<1>5. \A c \in made' : c \in Members(pool') \/ \E e \in Desc : large'[e] = c
  <2> SUFFICES ASSUME NEW c \in made', c \notin Members(pool')
               PROVE  \E e \in Desc : large'[e] = c
    OBVIOUS
  <2>1. CASE c = b
    BY <2>1, <1>2
  <2>2. CASE c # b
    <3>1. PICK e \in Desc : large[e] = c
      BY <2>2, <1>1 DEF BufInv, BuffersOnce
    <3>2. e # d
      BY <3>1, <1>1, NullAssumption DEF BufInv
    <3> QED
      BY <3>1, <3>2, <1>2
  <2> QED
    BY <2>1, <2>2
<1>6. Members(pool') \subseteq made' /\ made' \subseteq Buffer
  BY <1>1 DEF BufInv
<1> QED
  BY <1>1, <1>3, <1>4, <1>5, <1>6 DEF BuffersOnce

\* write_to_output keeps the buffers sound.
LEMMA WriteStep ==
    ASSUME BufInv, NEW d \in Desc, NEW n \in 1..MaxText, Write(d, n),
           open' = open, open \subseteq Desc
    PROVE  BufInv'
<1>0. MaxText \in Nat /\ Small \in Nat /\ Large \in Nat /\ Small <= Large /\ n \in Nat
      /\ held[d] \in 0..Large /\ held \in [Desc -> 0..Large]
  BY CapacityAssumption, TextAssumption DEF BufInv
<1>1. CASE /\ n <= Space(d)
           /\ held' = [held EXCEPT ![d] = @ + n]
           /\ UNCHANGED <<over, output, large, pool, made>>
  <2>1. held[d] + n \in 0..Large
    BY <1>0, <1>1 DEF Space
  <2>2. held' \in [Desc -> 0..Large]
    BY <1>0, <1>1, <2>1
  <2> QED
    BY <1>1, <2>2 DEF BufInv, BuffersOnce
<1>2. CASE /\ over' = over \cup {d}
           /\ UNCHANGED <<held, output, large, pool, made>>
  BY <1>2 DEF BufInv, BuffersOnce
<1>3. ASSUME /\ large[d] = None /\ held[d] + n <= Large
             /\ held' = [held EXCEPT ![d] = @ + n]
             /\ UNCHANGED over,
             NEW b \in Buffer,
             TakeBuffer(b),
             large' = [large EXCEPT ![d] = b],
             output' = [output EXCEPT ![d] = b]
      PROVE  BufInv'
  <2>1. held' \in [Desc -> 0..Large]
    BY <1>0, <1>3
  <2>2. /\ pool' \in Seq(Buffer)
        /\ made' \subseteq Buffer
        /\ BuffersOnce'
        /\ Members(pool)' \subseteq made'
    BY <1>3, BufferTaken
  <2>3. /\ output' \in [Desc -> Buffer \cup {Own}]
        /\ large' \in [Desc -> Buffer \cup {None}]
        /\ over' \subseteq Desc
    BY <1>3 DEF BufInv
  <2>4. \A e \in open' : output'[e] = IF large'[e] = None THEN Own ELSE large'[e]
    BY <1>3, NullAssumption DEF BufInv
  <2> QED
    BY <2>1, <2>2, <2>3, <2>4 DEF BufInv
<1> QED
  BY <1>1, <1>2, <1>3 DEF Write

-----------------------------------------------------------------------------
(* Closing and walking.                                                    *)

\* Where a walk that is not disturbed may be.
Placed(s, n) == n \in Members(s) \cup {None}

InOrder(s, a, n) == a \in Members(s) => n = Follower(s, a)

\* close_socket_impl keeps the buffers and the list sound, and leaves the walk
\* a place it can go on from, whichever descriptor it frees.
LEMMA CloseStep ==
    ASSUME BufInv, ListInv, FreeInv, NEW d \in Members(list), NEW b \in BOOLEAN,
           CloseSocket(d, b), Placed(list, next)
    PROVE  /\ BufInv' /\ ListInv' /\ FreeInv'
           /\ Placed(list, next)'
           /\ InOrder(list, at, next) => InOrder(list', at, next')
           /\ next = None => next' = None
           /\ \A a \in open : a # d => a \in open'
<1>0. d \in Desc /\ list \in Seq(Desc) /\ Distinct(list) /\ None \notin Desc
  BY NullAssumption, ElementOfSeq DEF ListInv, Members
<1>1. open' = open \ {d} /\ pool' = Returned(d) /\ made' = made
      /\ large' = [large EXCEPT ![d] = None]
  BY DEF CloseSocket
<1>2. BufInv'
  <2>1. BuffersOnce' /\ Members(pool)' \subseteq made'
    BY <1>0, <1>1, GivenBack
  <2>2. pool' \in Seq(Buffer)
    BY <1>0, <1>1, ReturnedPool
  <2>3. /\ held' \in [Desc -> 0..Large]
        /\ over' \subseteq Desc
        /\ output' \in [Desc -> Buffer \cup {Own}]
        /\ large' \in [Desc -> Buffer \cup {None}]
        /\ made' \subseteq Buffer
    <3>1. \/ UNCHANGED <<held, over, output>>
          \/ /\ held' = [held EXCEPT ![d] = 0]
             /\ over' = over \ {d}
             /\ output' = [output EXCEPT ![d] = Own]
      BY DEF CloseSocket
    <3>2. 0 \in 0..Large
      BY CapacityAssumption
    <3>3. held \in [Desc -> 0..Large] /\ over \subseteq Desc
          /\ output \in [Desc -> Buffer \cup {Own}]
      BY DEF BufInv
    <3>4. /\ held' \in [Desc -> 0..Large]
          /\ over' \subseteq Desc
          /\ output' \in [Desc -> Buffer \cup {Own}]
      BY <3>1, <3>2, <3>3
    <3>5. /\ large' \in [Desc -> Buffer \cup {None}]
          /\ made' \subseteq Buffer
      BY <1>1 DEF BufInv
    <3> QED
      BY <3>4, <3>5
  <2>4. \A e \in open' : output'[e] = IF large'[e] = None THEN Own ELSE large'[e]
    BY <1>0, <1>1 DEF CloseSocket, BufInv, ListInv
  <2> QED
    BY <2>1, <2>2, <2>3, <2>4 DEF BufInv
<1>3. CASE conn[d] = "play" /\ ~b
  <2>1. conn' = [conn EXCEPT ![d] = "linkless"] /\ list' = list /\ next' = next
    BY <1>3 DEF CloseSocket
  <2>2. ListInv'
    BY <2>1, <1>0, <1>1, <1>3 DEF ListInv
  <2>3. FreeInv'
    BY <2>1, <1>1, <1>3, <1>0 DEF FreeInv, CloseSocket, ListInv, BufInv
  <2> QED
    BY <2>1, <2>2, <2>3, <1>1, <1>2 DEF Placed
<1>4. CASE ~(conn[d] = "play" /\ ~b)
  <2>1. /\ conn' = [conn EXCEPT ![d] = "free"]
        /\ list' = Without(list, d)
        /\ next' = IF next = d THEN Follower(list, d) ELSE next
    BY <1>4 DEF CloseSocket, Free
  <2>2. /\ list' \in Seq(Desc)
        /\ Members(list') = Members(list) \ {d}
        /\ Distinct(list')
    BY <2>1, <1>0, WithoutMembers
  <2>3. ListInv'
    BY <2>1, <2>2, <1>0, <1>1 DEF ListInv
  <2>4. Placed(list', next')
    BY <2>1, <2>2, <1>0, FollowerMember DEF Placed
  <2>5. InOrder(list, at, next) => InOrder(list', at, next')
    <3> SUFFICES ASSUME InOrder(list, at, next), at \in Members(list')
                 PROVE  next' = Follower(list', at)
      BY DEF InOrder
    <3>1. at \in Members(list) /\ at # d /\ next = Follower(list, at)
      BY <2>2 DEF InOrder
    <3>2. Follower(list', at) = IF Follower(list, at) = d THEN Follower(list, d)
                                                          ELSE Follower(list, at)
      BY <2>1, <3>1, <1>0, FollowerWithout
    <3> QED
      BY <2>1, <3>1, <3>2
  <2>6. next = None => next' = None
    BY <2>1, <1>0
  <2>7. FreeInv'
    BY <1>1, <1>4, <1>0 DEF FreeInv, CloseSocket, ListInv, BufInv
  <2> QED
    BY <2>3, <2>4, <2>5, <2>6, <2>7, <1>1, <1>2 DEF Placed
<1> QED
  BY <1>3, <1>4

\* A walk that comes to a member of the list, or to its end, stands in order.
LEMMA ComeToStep ==
    ASSUME ListInv, NEW x \in Members(list) \cup {None}, ComeTo(x, list),
           list' = list, phase' \in Walk
    PROVE  WalkInv'
<1>1. list \in Seq(Desc) /\ Distinct(list) /\ Members(list) \subseteq Desc
  BY ElementOfSeq DEF ListInv, Members
<1>2. at' = x /\ running' = FALSE /\ next' = IF x = None THEN None ELSE Follower(list, x)
  BY DEF ComeTo
<1>3. next' \in Members(list) \cup {None}
  BY <1>1, <1>2, FollowerMember
<1>4. WalkSafe'
  BY <1>1, <1>2, <1>3, NullAssumption DEF WalkSafe
<1> QED
  BY <1>1, <1>2, <1>3, <1>4 DEF WalkInv, Walk

\* The head of the list is a member.
LEMMA FirstMember ==
    ASSUME ListInv
    PROVE  First(list) \in Members(list) \cup {None}
<1>1. CASE list = <<>>
  BY <1>1 DEF First
<1>2. CASE list # <<>>
  <2>1. 1 \in 1..Len(list)
    BY <1>2, EmptySeq DEF ListInv
  <2> QED
    BY <1>2, <2>1 DEF First, Members
<1> QED
  BY <1>1, <1>2

-----------------------------------------------------------------------------
(* One lemma for each kind of step.                                        *)

\* The invariant gives CloseStep what it asks of the walk.
LEMMA WalkPlaced ==
    ASSUME ListInv, WalkInv
    PROVE  Placed(list, next) /\ (phase \in Walk \/ at = None => InOrder(list, at, next))
<1>1. None \notin Members(list)
  BY NullAssumption, ElementOfSeq DEF ListInv, Members
<1> QED
  BY <1>1 DEF WalkInv, WalkSafe, Placed, InOrder

LEMMA ConnectStep ==
    ASSUME IInv, NEW d \in Desc, Connect(d)
    PROVE  IInv'
<1>1. d \notin Members(list) /\ d \notin open /\ output[d] = Own /\ large[d] = None
  BY DEF Connect, IInv, ListInv, FreeInv
<1>2. /\ list' \in Seq(Desc)
      /\ Members(list') = Members(list) \cup {d}
      /\ Distinct(list')
  BY <1>1, PrependMembers DEF Connect, IInv, ListInv
<1>3. ListInv'
  BY <1>2 DEF Connect, IInv, ListInv
<1>4. BufInv'
  BY <1>1 DEF Connect, IInv, BufInv, BuffersOnce, bufVars
<1>5. FreeInv'
  BY DEF Connect, IInv, ListInv, FreeInv, bufVars
<1>6. WalkInv'
  <2>1. phase = "poll" /\ phase' = "greet" /\ at' = d /\ d \in open'
        /\ next' = next /\ running' = running
    BY DEF Connect
  <2>2. "poll" \notin Walk /\ "greet" \notin Walk
    BY DEF Walk
  <2>3. next = None /\ d # None
    BY <2>1, <2>2, NullAssumption DEF IInv, WalkInv
  <2> QED
    BY <2>1, <2>2, <2>3 DEF IInv, WalkInv, WalkSafe
<1> QED
  BY <1>3, <1>4, <1>5, <1>6 DEF IInv

\* A new text for d, an allocated descriptor, in any part of the pulse.
LEMMA TextStep ==
    ASSUME IInv, NEW d \in Desc, conn[d] # "free", NEW n \in 1..MaxText, Write(d, n),
           UNCHANGED <<list, open, conn, phase, at, next>>,
           running' \in BOOLEAN, running => running', running' => running \/ phase = "greet",
           phase = "greet" => at # None
    PROVE  IInv'
<1>1. BufInv'
  BY WriteStep DEF IInv, ListInv
<1>2. FreeInv'
  BY DEF Write, IInv, FreeInv, ListInv, BufInv
<1>3. phase \in Walk => phase # "greet"
  BY DEF Walk
<1>4. ListInv' /\ WalkInv'
  BY <1>3 DEF IInv, ListInv, WalkInv, WalkSafe
<1> QED
  BY <1>1, <1>2, <1>4 DEF IInv

\* d's text is gone and the rest of the connection stays as it was.
LEMMA EmptyStep ==
    ASSUME IInv, NEW d \in open, Emptied(d), UNCHANGED <<list, open, conn>>
    PROVE  BufInv' /\ ListInv' /\ FreeInv'
<1>1. d \in Desc /\ open \subseteq Desc
  BY DEF IInv, ListInv
<1>2. BufInv'
  BY <1>1, EmptiedStep DEF IInv
<1>3. ListInv'
  BY DEF IInv, ListInv
<1>4. FreeInv'
  BY <1>1 DEF Emptied, IInv, FreeInv, BufInv
<1> QED
  BY <1>2, <1>3, <1>4

\* The walk ends, or begins, or goes on: only the loop's own variables change.
LEMMA MoveStep ==
    ASSUME IInv, UNCHANGED <<list, open, conn, bufVars>>, WalkInv'
    PROVE  IInv'
BY DEF IInv, BufInv, BuffersOnce, ListInv, FreeInv, bufVars

LEMMA BeginStep ==
    ASSUME ListInv, NEW p \in Walk, Begin(p, list), list' = list
    PROVE  WalkInv'
BY FirstMember, ComeToStep DEF Begin

\* A handler closes d.
LEMMA ClosingStep ==
    ASSUME IInv, NEW d \in Members(list), NEW b \in BOOLEAN, CloseSocket(d, b),
           phase \in Walk \/ at = None,
           UNCHANGED <<phase, at>>, running' \in BOOLEAN,
           phase \in Walk => running', phase # "greet"
    PROVE  IInv'
<1>1. Placed(list, next) /\ InOrder(list, at, next)
  BY WalkPlaced DEF IInv
<1>2. /\ BufInv' /\ ListInv' /\ FreeInv'
      /\ Placed(list', next') /\ InOrder(list', at, next')
      /\ next = None => next' = None
  BY <1>1, CloseStep DEF IInv, Placed
<1>3. next' \in Desc \cup {None}
  BY <1>2, ElementOfSeq DEF Placed, ListInv, Members
<1>4. WalkInv'
  BY <1>2, <1>3 DEF IInv, WalkInv, WalkSafe, Placed, InOrder
<1> QED
  BY <1>2, <1>4 DEF IInv

-----------------------------------------------------------------------------
(* The actions.                                                            *)

LEMMA GreetStep ==
    ASSUME IInv, NEW n \in 1..MaxText, Greet(n)
    PROVE  IInv'
<1>1. at \in open /\ at \in Desc /\ conn[at] # "free"
  BY DEF Greet, IInv, WalkInv, ListInv
<1>2. /\ Write(at, n) /\ running' = TRUE /\ phase = "greet"
      /\ UNCHANGED <<list, open, conn, phase, at, next>>
  BY DEF Greet
<1> QED
  BY <1>1, <1>2, TextStep, NullAssumption

LEMMA GreetedStep ==
    ASSUME IInv, GreetingSent \/ GreetingWaits \/ GreetingFails
    PROVE  IInv'
<1>1. /\ phase = "greet" /\ phase' = "greet" /\ at' = None /\ running' = FALSE
      /\ at \in open /\ at \in Desc /\ conn[at] # "free" /\ at \in Members(list)
      /\ next = None /\ "greet" \notin Walk
  BY DEF GreetingSent, GreetingWaits, GreetingFails, Greeted, IInv, WalkInv, ListInv, Walk
<1>2. next' = None => WalkInv'
  BY <1>1 DEF WalkInv, WalkSafe
<1>3. CASE GreetingSent
  BY <1>1, <1>2, <1>3, EmptyStep DEF GreetingSent, IInv
<1>4. CASE GreetingWaits
  BY <1>1, <1>2, <1>4, MoveStep DEF GreetingWaits
<1>5. CASE GreetingFails
  <2>1. CloseSocket(at, FALSE)
    BY <1>5 DEF GreetingFails
  <2>2. BufInv' /\ ListInv' /\ FreeInv' /\ next' = None
    BY <2>1, <1>1, CloseStep DEF IInv, Placed
  <2> QED
    BY <2>2, <1>2 DEF IInv
<1> QED
  BY <1>3, <1>4, <1>5

LEMMA DropStep == IInv /\ Drop => IInv'
<1> SUFFICES ASSUME IInv, Drop PROVE IInv'
  OBVIOUS
<1>1. /\ phase \in Walk /\ phase # "greet" /\ at \in Members(list)
      /\ CloseSocket(at, FALSE) /\ running' = TRUE /\ UNCHANGED <<phase, at>>
  BY DEF Drop, Reached, Walk, IInv, ListInv
<1> QED
  BY <1>1, ClosingStep

LEMMA StartStep == IInv /\ (Handle \/ Accept) => IInv'
<1> SUFFICES ASSUME IInv, Handle \/ Accept PROVE IInv'
  OBVIOUS
<1>1. /\ phase \in Walk /\ phase # "greet" /\ running' = TRUE
      /\ UNCHANGED <<list, open, conn, bufVars, phase, at, next>>
  BY DEF Handle, Accept, Reached, Walk
<1>2. WalkInv'
  BY <1>1 DEF IInv, WalkInv, WalkSafe
<1> QED
  BY <1>1, <1>2, MoveStep

LEMMA GoOnStep == IInv /\ (Sent \/ Advance) => IInv'
<1> SUFFICES ASSUME IInv, Sent \/ Advance PROVE IInv'
  OBVIOUS
<1>1. /\ phase' \in Walk /\ ComeTo(next, list) /\ UNCHANGED <<list, open, conn>>
      /\ next \in Members(list) \cup {None}
  BY DEF Sent, Advance, Walk, IInv, WalkInv, WalkSafe
<1>2. WalkInv'
  BY <1>1, ComeToStep DEF IInv
<1>3. CASE Sent
  BY <1>1, <1>2, <1>3, EmptyStep DEF Sent, IInv
<1>4. CASE Advance
  BY <1>1, <1>2, <1>4, MoveStep DEF Advance
<1> QED
  BY <1>3, <1>4

LEMMA PhaseStep == IInv /\ (StartPulse \/ NextWalk \/ EndPulse) => IInv'
<1> SUFFICES ASSUME IInv, StartPulse \/ NextWalk \/ EndPulse PROVE IInv'
  OBVIOUS
<1>0. UNCHANGED <<list, open, conn, bufVars>>
  BY DEF StartPulse, NextWalk, EndPulse
<1>1. CASE StartPulse
  BY <1>0, <1>1, BeginStep, MoveStep DEF StartPulse, IInv, Walk
<1>2. CASE NextWalk
  <2>1. CASE phase = "closing"
    <3>1. /\ phase' = "heart" /\ running' = TRUE /\ at' = at /\ next' = next /\ at = None
          /\ "heart" \notin Walk
      BY <1>2, <2>1 DEF NextWalk, Walk
    <3>2. next = None
      BY <3>1 DEF IInv, WalkInv
    <3> QED
      BY <3>1, <3>2, <1>0, MoveStep DEF IInv, WalkInv, WalkSafe
  <2>2. CASE phase # "closing"
    <3>1. Following[phase] \in Walk /\ Begin(Following[phase], list)
      BY <1>2, <2>2 DEF NextWalk, Walk, Following
    <3> QED
      BY <3>1, <1>0, BeginStep, MoveStep DEF IInv
  <2> QED
    BY <2>1, <2>2
<1>3. CASE EndPulse
  <2>1. /\ phase = "heart" /\ phase' = "poll" /\ running' = FALSE /\ UNCHANGED <<at, next>>
        /\ "heart" \notin Walk /\ "poll" \notin Walk
    BY <1>3 DEF EndPulse, Walk
  <2>2. WalkInv'
    BY <2>1, <1>0 DEF IInv, WalkInv, WalkSafe
  <2> QED
    BY <2>2, <1>0, MoveStep
<1> QED
  BY <1>1, <1>2, <1>3

LEMMA HearStep ==
    ASSUME IInv, NEW d \in Desc, NEW n \in 1..MaxText, Hear(d, n)
    PROVE  IInv'
<1>1. /\ conn[d] # "free" /\ phase # "greet" /\ Write(d, n)
      /\ UNCHANGED <<list, open, conn, phase, at, next, running>>
  BY DEF Hear, Hears, IInv, ListInv, walkVars
<1>2. running' \in BOOLEAN
  BY <1>1 DEF IInv, WalkInv
<1> QED
  BY <1>1, <1>2, TextStep

\* Who is connected how has no part in the buffers or the walk, as long as
\* nobody is allocated or freed.
LEMMA ChangeStep ==
    ASSUME IInv, NEW d \in Desc, conn[d] # "free",
           NEW to \in {"login", "play", "close"}, conn' = [conn EXCEPT ![d] = to],
           UNCHANGED <<list, open, bufVars, walkVars>>
    PROVE  IInv'
<1>1. ListInv' /\ FreeInv'
  BY DEF IInv, ListInv, FreeInv, bufVars
<1>2. BufInv' /\ WalkInv'
  BY DEF IInv, BufInv, BuffersOnce, WalkInv, WalkSafe, bufVars, walkVars
<1> QED
  BY <1>1, <1>2 DEF IInv

LEMMA CloseAnyStep ==
    ASSUME IInv, NEW d \in Desc, NEW b \in BOOLEAN, Close(d, b)
    PROVE  IInv'
<1>1. /\ d \in Members(list) /\ CloseSocket(d, b) /\ UNCHANGED <<phase, at, running>>
      /\ running /\ phase \in {"commands", "heart"}
  BY DEF Close, Acting, IInv, ListInv
<1>2. phase \in Walk \/ at = None
  BY <1>1 DEF Walk, IInv, WalkInv
<1> QED
  BY <1>1, <1>2, ClosingStep

LEMMA NextInvariant == IInv /\ [Next]_vars => IInv'
<1> SUFFICES ASSUME IInv, [Next]_vars PROVE IInv'
  OBVIOUS
<1>1. CASE UNCHANGED vars
  BY <1>1 DEF vars, bufVars, walkVars, IInv, BufInv, BuffersOnce, ListInv, FreeInv,
              WalkInv, WalkSafe
<1>2. CASE Loop
  BY <1>2, GreetStep, GreetedStep, DropStep, StartStep, GoOnStep, PhaseStep DEF Loop
<1>3. ASSUME NEW d \in Desc, Connect(d)
      PROVE  IInv'
  BY <1>3, ConnectStep
<1>4. ASSUME NEW d \in Desc, NEW n \in 1..MaxText, Hear(d, n)
      PROVE  IInv'
  BY <1>4, HearStep
<1>5. ASSUME NEW d \in Desc, NEW to \in {"login", "close"}, Leave(d, to)
      PROVE  IInv'
  BY <1>5, ChangeStep DEF Leave, Unchanged
<1>6. ASSUME NEW d \in Desc, Refuse(d)
      PROVE  IInv'
  BY <1>6, ChangeStep DEF Refuse, Unchanged
<1>7. ASSUME NEW d \in Desc, NEW b \in BOOLEAN, Close(d, b)
      PROVE  IInv'
  BY <1>7, CloseAnyStep
<1>8. CASE Enter
  <2>1. at \in Desc
    BY <1>8 DEF Enter, IInv, ListInv
  <2> QED
    BY <1>8, <2>1, ChangeStep DEF Enter, Unchanged
<1> QED
  BY <1>1, <1>2, <1>3, <1>4, <1>5, <1>6, <1>7, <1>8 DEF Next

-----------------------------------------------------------------------------
(* Theorems.                                                               *)

\* The connections, their output and the place of the walk keep their types;
\* no connection holds more text than a large buffer takes.
THEOREM TypeCorrect == Spec => []TypeOK
<1>1. IInv => TypeOK
  BY DEF IInv, BufInv, ListInv, WalkInv, TypeOK
<1> QED
  BY InitInvariant, NextInvariant, <1>1, PTL DEF Spec

\* However connections are closed, lost or kept link-dead, every large buffer
\* is in the pool exactly once or belongs to exactly one of them.
THEOREM BuffersAccounted == Spec => []BuffersOnce
<1>1. IInv => BuffersOnce
  BY DEF IInv, BufInv
<1> QED
  BY InitInvariant, NextInvariant, <1>1, PTL DEF Spec

\* No two open connections write into one buffer, and none writes into a buffer
\* that may be given to another.
THEOREM OutputIsPrivate == Spec => []PrivateOutput
<1>1. IInv => PrivateOutput
  <2> SUFFICES ASSUME IInv, NEW d \in open
               PROVE  /\ output[d] \notin Members(pool)
                      /\ \A e \in open : output[e] = output[d] => e = d \/ output[d] = Own
    BY DEF PrivateOutput
  <2>1. Own \notin Members(pool)
    BY NullAssumption, ElementOfSeq DEF IInv, BufInv, Members
  <2> QED
    BY <2>1, NullAssumption DEF IInv, BufInv, ListInv, BuffersOnce
<1> QED
  BY InitInvariant, NextInvariant, <1>1, PTL DEF Spec

\* Whatever the handlers of a walk close, it goes on with the connection that
\* follows in the list, and never with one that was freed.
THEOREM WalksAreSafe == Spec => []WalkSafe
<1>1. IInv => WalkSafe
  BY DEF IInv, WalkInv
<1> QED
  BY InitInvariant, NextInvariant, <1>1, PTL DEF Spec
=============================================================================
