---------------------------- MODULE ChainLemmas -----------------------------
(***************************************************************************)
(* What the chain operations keep: used by every proof about a list of the *)
(* server.                                                                 *)
(***************************************************************************)
EXTENDS Chains, SequenceTheorems, TLAPS

\* Taking position i out of a duplicate-free chain removes exactly its
\* occupant and leaves the rest duplicate-free.
LEMMA UnlinkedMembers ==
    ASSUME NEW S, NEW s \in Seq(S), NEW i \in 1..Len(s), Distinct(s)
    PROVE  /\ Unlinked(s, i) \in Seq(S)
           /\ Members(Unlinked(s, i)) = Members(s) \ {s[i]}
           /\ Distinct(Unlinked(s, i))
<1> DEFINE u == Unlinked(s, i)
<1>1. Len(s) \in Nat /\ Len(s) - 1 \in Nat
  BY DEF Unlinked
<1>2. \A j \in 1..(Len(s) - 1) : (IF j < i THEN s[j] ELSE s[j + 1]) \in S
  BY <1>1, ElementOfSeq
<1>3. u \in [1..(Len(s) - 1) -> S]
  BY <1>2 DEF Unlinked
<1>4. u \in Seq(S) /\ Len(u) = Len(s) - 1
  BY <1>1, <1>3
<1>5. \A j \in 1..Len(u) : u[j] = IF j < i THEN s[j] ELSE s[j + 1]
  BY <1>4 DEF Unlinked
<1>6. Distinct(u)
  <2> SUFFICES ASSUME NEW j \in 1..Len(u), NEW k \in 1..Len(u), u[j] = u[k]
               PROVE  j = k
    BY DEF Distinct
  <2> DEFINE at(n) == IF n < i THEN n ELSE n + 1
  <2>1. at(j) \in 1..Len(s) /\ at(k) \in 1..Len(s)
    BY <1>1, <1>4
  <2>2. s[at(j)] = s[at(k)]
    BY <1>5
  <2>3. at(j) = at(k)
    BY <2>1, <2>2 DEF Distinct
  <2> QED
    BY <2>3, <1>1, <1>4
<1>7. Members(u) = Members(s) \ {s[i]}
  <2>1. ASSUME NEW j \in 1..Len(u)
        PROVE  u[j] \in Members(s) \ {s[i]}
    <3> DEFINE n == IF j < i THEN j ELSE j + 1
    <3>1. n \in 1..Len(s) /\ n # i /\ u[j] = s[n]
      BY <1>1, <1>4, <1>5
    <3> QED
      BY <3>1 DEF Members, Distinct
  <2>2. ASSUME NEW n \in 1..Len(s), s[n] # s[i]
        PROVE  s[n] \in Members(u)
    <3> DEFINE j == IF n < i THEN n ELSE n - 1
    <3>1. j \in 1..Len(u) /\ u[j] = s[n]
      BY <1>1, <1>4, <1>5, <2>2
    <3> QED
      BY <3>1 DEF Members
  <2> QED
    BY <2>1, <2>2 DEF Members
<1> QED
  BY <1>4, <1>6, <1>7

\* Appending a character that is not in the chain adds exactly it.
LEMMA AppendMembers ==
    ASSUME NEW S, NEW s \in Seq(S), NEW c \in S, c \notin Members(s), Distinct(s)
    PROVE  /\ Append(s, c) \in Seq(S)
           /\ Members(Append(s, c)) = Members(s) \cup {c}
           /\ Distinct(Append(s, c))
<1> DEFINE t == Append(s, c)
<1>1. t \in Seq(S)
  OBVIOUS
<1>5. /\ Len(t) = Len(s) + 1
      /\ \A i \in 1..Len(s) : t[i] = s[i]
      /\ t[Len(s) + 1] = c
  OBVIOUS
<1>2. Len(s) \in Nat
  OBVIOUS
<1> HIDE DEF t
<1>3. Members(t) = Members(s) \cup {c}
  BY <1>5, <1>2 DEF Members
<1>4. Distinct(t)
  BY <1>5, <1>2 DEF Members, Distinct
<1> QED
  BY <1>1, <1>3, <1>4 DEF t

\* Splicing two disjoint duplicate-free chains keeps every occupant of both.
LEMMA ConcatMembers ==
    ASSUME NEW S, NEW s \in Seq(S), NEW t \in Seq(S),
           Distinct(s), Distinct(t), Members(s) \cap Members(t) = {}
    PROVE  /\ s \o t \in Seq(S)
           /\ Members(s \o t) = Members(s) \cup Members(t)
           /\ Distinct(s \o t)
<1>1. /\ s \o t \in Seq(S)
      /\ Len(s \o t) = Len(s) + Len(t)
      /\ \A i \in 1..(Len(s) + Len(t)) :
            (s \o t)[i] = IF i <= Len(s) THEN s[i] ELSE t[i - Len(s)]
  BY ConcatProperties
<1>2. Len(s) \in Nat /\ Len(t) \in Nat
  OBVIOUS
<1>3. \A i \in 1..Len(s) : (s \o t)[i] = s[i]
  BY <1>1, <1>2
<1>4. \A i \in 1..Len(t) : i + Len(s) \in 1..(Len(s) + Len(t)) /\ (s \o t)[i + Len(s)] = t[i]
  BY <1>1, <1>2
<1>5. Members(s \o t) = Members(s) \cup Members(t)
  <2>1. ASSUME NEW i \in 1..Len(s \o t)
        PROVE  (s \o t)[i] \in Members(s) \cup Members(t)
    <3>1. CASE i <= Len(s)
      BY <3>1, <1>1, <1>2 DEF Members
    <3>2. CASE i > Len(s)
      <4>1. i - Len(s) \in 1..Len(t) /\ (s \o t)[i] = t[i - Len(s)]
        BY <3>2, <1>1, <1>2
      <4> QED
        BY <4>1 DEF Members
    <3> QED
      BY <3>1, <3>2, <1>1, <1>2
  <2>2. ASSUME NEW i \in 1..Len(s)
        PROVE  s[i] \in Members(s \o t)
    BY <1>1, <1>2, <1>3 DEF Members
  <2>3. ASSUME NEW i \in 1..Len(t)
        PROVE  t[i] \in Members(s \o t)
    BY <1>1, <1>2, <1>4 DEF Members
  <2> QED
    BY <2>1, <2>2, <2>3 DEF Members
<1>6. Distinct(s \o t)
  <2> SUFFICES ASSUME NEW i \in 1..Len(s \o t), NEW j \in 1..Len(s \o t),
                      (s \o t)[i] = (s \o t)[j]
               PROVE  i = j
    BY DEF Distinct
  <2>1. CASE i <= Len(s) /\ j <= Len(s)
    BY <2>1, <1>1, <1>2 DEF Distinct
  <2>2. CASE i > Len(s) /\ j > Len(s)
    <3>1. i - Len(s) \in 1..Len(t) /\ j - Len(s) \in 1..Len(t)
      BY <2>2, <1>1, <1>2
    <3>2. t[i - Len(s)] = t[j - Len(s)]
      BY <2>2, <1>1, <1>2
    <3> QED
      BY <3>1, <3>2, <1>1, <1>2 DEF Distinct
  <2>3. ASSUME NEW a \in 1..Len(s \o t), NEW b \in 1..Len(s \o t),
               a <= Len(s), b > Len(s), (s \o t)[a] = (s \o t)[b]
        PROVE  FALSE
    <3>1. a \in 1..Len(s) /\ b - Len(s) \in 1..Len(t)
      BY <2>3, <1>1, <1>2
    <3>2. s[a] = t[b - Len(s)]
      BY <2>3, <1>1, <1>2
    <3> QED
      BY <3>1, <3>2 DEF Members
  <2> QED
    BY <2>1, <2>2, <2>3, <1>1, <1>2
<1> QED
  BY <1>1, <1>5, <1>6

\* Unlinking a member of a duplicate-free list removes it and only it; a
\* search for a non-member leaves the list as it was.
LEMMA WithoutMembers ==
    ASSUME NEW S, NEW s \in Seq(S), NEW c, Distinct(s)
    PROVE  /\ Without(s, c) \in Seq(S)
           /\ Members(Without(s, c)) = Members(s) \ {c}
           /\ Distinct(Without(s, c))
<1>1. CASE c \notin Members(s)
  BY <1>1 DEF Without
<1>2. CASE c \in Members(s)
  <2> DEFINE i == CHOOSE k \in 1..Len(s) : FoundAt(s, c, k)
  <2>1. PICK k \in 1..Len(s) : s[k] = c
    BY <1>2 DEF Members
  <2>2. \A j \in 1..(k - 1) : s[j] # c
    BY <2>1 DEF Distinct
  <2>3. FoundAt(s, c, k)
    BY <2>1, <2>2 DEF FoundAt
  <2>4. i \in 1..Len(s) /\ FoundAt(s, c, i)
    BY <2>3
  <2>5. s[i] = c
    BY <2>4 DEF FoundAt
  <2>6. Without(s, c) = Unlinked(s, i)
    BY <1>2 DEF Without
  <2> HIDE DEF i
  <2> QED
    BY <2>4, <2>5, <2>6, UnlinkedMembers
<1> QED
  BY <1>1, <1>2

\* A walk that follows the link of c reaches another member.
LEMMA SuccessorMember ==
    ASSUME NEW S, NEW s \in Seq(S), NEW c, Distinct(s), HasSuccessor(s, c)
    PROVE  Successor(s, c) \in Members(s) \ {c}
<1> DEFINE i == CHOOSE k \in 1..(Len(s) - 1) : s[k] = c
<1>1. i \in 1..(Len(s) - 1) /\ s[i] = c
  BY DEF HasSuccessor
<1>2. Successor(s, c) = s[i + 1]
  BY DEF Successor
<1> HIDE DEF i
<1>3. i \in 1..Len(s) /\ i + 1 \in 1..Len(s) /\ i # i + 1
  BY <1>1
<1>4. s[i + 1] # c
  BY <1>1, <1>3 DEF Distinct
<1> QED
  BY <1>2, <1>3, <1>4 DEF Members

\* Putting a new element in front adds exactly it.
LEMMA PrependMembers ==
    ASSUME NEW S, NEW s \in Seq(S), NEW c \in S, c \notin Members(s), Distinct(s)
    PROVE  /\ <<c>> \o s \in Seq(S)
           /\ Members(<<c>> \o s) = Members(s) \cup {c}
           /\ Distinct(<<c>> \o s)
<1> DEFINE o == <<c>>
<1>1. o \in Seq(S) /\ Len(o) = 1 /\ o[1] = c
  OBVIOUS
<1> HIDE DEF o
<1>2. Members(o) = {c} /\ Distinct(o)
  BY <1>1 DEF Members, Distinct
<1>3. /\ o \o s \in Seq(S)
      /\ Members(o \o s) = Members(o) \cup Members(s)
      /\ Distinct(o \o s)
  BY <1>1, <1>2, ConcatMembers
<1> QED
  BY <1>2, <1>3 DEF o

\* Taking the head off removes exactly it.
LEMMA TailMembers ==
    ASSUME NEW S, NEW s \in Seq(S), s # <<>>, Distinct(s)
    PROVE  /\ Head(s) \in Members(s)
           /\ Tail(s) \in Seq(S)
           /\ Members(Tail(s)) = Members(s) \ {Head(s)}
           /\ Distinct(Tail(s))
<1> DEFINE t == Tail(s)
<1>1. /\ Len(s) \in Nat \ {0}
      /\ Head(s) = s[1]
      /\ t \in Seq(S) /\ Len(t) = Len(s) - 1
      /\ \A j \in 1..Len(t) : t[j] = s[j + 1]
  BY EmptySeq, HeadTailProperties
<1> HIDE DEF t
<1>2. Distinct(t)
  BY <1>1 DEF Distinct
<1>3. Members(t) = Members(s) \ {s[1]}
  <2>1. ASSUME NEW j \in 1..Len(t)
        PROVE  t[j] \in Members(s) \ {s[1]}
    <3>1. j + 1 \in 1..Len(s) /\ 1 \in 1..Len(s) /\ j + 1 # 1
      BY <1>1
    <3> QED
      BY <3>1, <1>1 DEF Members, Distinct
  <2>2. ASSUME NEW j \in 1..Len(s), s[j] # s[1]
        PROVE  s[j] \in Members(t)
    <3>1. j - 1 \in 1..Len(t) /\ t[j - 1] = s[j]
      BY <1>1, <2>2
    <3> QED
      BY <3>1 DEF Members
  <2> QED
    BY <2>1, <2>2 DEF Members
<1>4. s[1] \in Members(s)
  BY <1>1 DEF Members
<1> QED
  BY <1>1, <1>2, <1>3, <1>4 DEF t

\* Unlinking one member leaves the others in their order.
LEMMA UnlinkedOrder ==
    ASSUME NEW S, NEW s \in Seq(S), NEW i \in 1..Len(s),
           NEW c, NEW d, c # s[i], d # s[i], Before(s, c, d)
    PROVE  Before(Unlinked(s, i), c, d)
<1> DEFINE u == Unlinked(s, i)
           at(n) == IF n < i THEN n ELSE n - 1
<1>1. Len(s) \in Nat /\ Len(s) - 1 \in Nat
  OBVIOUS
<1>2. /\ Len(u) = Len(s) - 1
      /\ \A j \in 1..Len(u) : u[j] = IF j < i THEN s[j] ELSE s[j + 1]
  BY <1>1 DEF Unlinked
<1> HIDE DEF u
<1>3. PICK j \in 1..Len(s), k \in 1..Len(s) : j < k /\ s[j] = c /\ s[k] = d
  BY DEF Before
<1>4. j # i /\ k # i
  BY <1>3
<1>5. /\ at(j) \in 1..Len(u) /\ u[at(j)] = s[j]
      /\ at(k) \in 1..Len(u) /\ u[at(k)] = s[k]
      /\ at(j) < at(k)
  BY <1>1, <1>2, <1>3, <1>4
<1> HIDE DEF at
<1>6. Before(u, c, d)
  BY <1>3, <1>5 DEF Before
<1> QED
  BY <1>6 DEF u

\* The same of the search that unlinks: whoever else is in the list keeps its
\* place among the rest.
LEMMA WithoutOrder ==
    ASSUME NEW S, NEW s \in Seq(S), NEW x, NEW c, NEW d, c # x, d # x,
           Distinct(s), Before(s, c, d)
    PROVE  Before(Without(s, x), c, d)
<1>1. CASE x \notin Members(s)
  BY <1>1 DEF Without
<1>2. CASE x \in Members(s)
  <2> DEFINE i == CHOOSE k \in 1..Len(s) : FoundAt(s, x, k)
  <2>1. PICK k \in 1..Len(s) : s[k] = x
    BY <1>2 DEF Members
  <2>2. \A j \in 1..(k - 1) : s[j] # x
    BY <2>1 DEF Distinct
  <2>3. FoundAt(s, x, k)
    BY <2>1, <2>2 DEF FoundAt
  <2>4. i \in 1..Len(s) /\ FoundAt(s, x, i)
    BY <2>3
  <2>5. s[i] = x
    BY <2>4 DEF FoundAt
  <2>6. Without(s, x) = Unlinked(s, i)
    BY <1>2 DEF Without
  <2> HIDE DEF i
  <2> QED
    BY <2>4, <2>5, <2>6, UnlinkedOrder
<1> QED
  BY <1>1, <1>2

\* Appending puts the new element behind everybody and moves nobody.
LEMMA AppendOrder ==
    ASSUME NEW S, NEW s \in Seq(S), NEW x \in S
    PROVE  /\ \A c, d : Before(s, c, d) => Before(Append(s, x), c, d)
           /\ \A c \in Members(s) : Before(Append(s, x), c, x)
<1> DEFINE t == Append(s, x)
<1>1. /\ Len(t) = Len(s) + 1 /\ Len(s) \in Nat
      /\ \A i \in 1..Len(s) : t[i] = s[i]
      /\ t[Len(s) + 1] = x
  OBVIOUS
<1> HIDE DEF t
<1>2. ASSUME NEW c, NEW d, Before(s, c, d)
      PROVE  Before(t, c, d)
  <2>1. PICK i \in 1..Len(s), j \in 1..Len(s) : i < j /\ s[i] = c /\ s[j] = d
    BY <1>2 DEF Before
  <2>2. i \in 1..Len(t) /\ j \in 1..Len(t) /\ t[i] = c /\ t[j] = d
    BY <2>1, <1>1
  <2> QED
    BY <2>1, <2>2 DEF Before
<1>3. ASSUME NEW c \in Members(s)
      PROVE  Before(t, c, x)
  <2>1. PICK i \in 1..Len(s) : s[i] = c
    BY DEF Members
  <2>2. i \in 1..Len(t) /\ t[i] = c /\ Len(s) + 1 \in 1..Len(t) /\ i < Len(s) + 1
    BY <2>1, <1>1
  <2> QED
    BY <2>2, <1>1 DEF Before
<1> QED
  BY <1>2, <1>3 DEF t

\* Splicing keeps the order inside each half.
LEMMA ConcatOrder ==
    ASSUME NEW S, NEW s \in Seq(S), NEW t \in Seq(S), NEW c, NEW d,
           Before(s, c, d) \/ Before(t, c, d)
    PROVE  Before(s \o t, c, d)
<1> DEFINE u == s \o t
<1>1. /\ Len(u) = Len(s) + Len(t)
      /\ \A i \in 1..(Len(s) + Len(t)) : u[i] = IF i <= Len(s) THEN s[i] ELSE t[i - Len(s)]
  BY ConcatProperties
<1>2. Len(s) \in Nat /\ Len(t) \in Nat
  OBVIOUS
<1> HIDE DEF u
<1>3. CASE Before(s, c, d)
  <2>1. PICK i \in 1..Len(s), j \in 1..Len(s) : i < j /\ s[i] = c /\ s[j] = d
    BY <1>3 DEF Before
  <2>2. i \in 1..Len(u) /\ j \in 1..Len(u) /\ u[i] = c /\ u[j] = d
    BY <2>1, <1>1, <1>2
  <2>3. Before(u, c, d)
    BY <2>1, <2>2 DEF Before
  <2> QED
    BY <2>3 DEF u
<1>4. CASE Before(t, c, d)
  <2>1. PICK i \in 1..Len(t), j \in 1..Len(t) : i < j /\ t[i] = c /\ t[j] = d
    BY <1>4 DEF Before
  <2>2. /\ i + Len(s) \in 1..Len(u) /\ u[i + Len(s)] = c
        /\ j + Len(s) \in 1..Len(u) /\ u[j + Len(s)] = d
        /\ i + Len(s) < j + Len(s)
    BY <2>1, <1>1, <1>2
  <2>3. Before(u, c, d)
    BY <2>2 DEF Before
  <2> QED
    BY <2>3 DEF u
<1> QED
  BY <1>3, <1>4

\* Taking the head off leaves the others in their order.
LEMMA TailOrder ==
    ASSUME NEW S, NEW s \in Seq(S), s # <<>>, NEW c, NEW d, c # Head(s),
           Before(s, c, d)
    PROVE  Before(Tail(s), c, d)
<1> DEFINE t == Tail(s)
<1>1. /\ Len(s) \in Nat \ {0}
      /\ Head(s) = s[1]
      /\ Len(t) = Len(s) - 1
      /\ \A j \in 1..Len(t) : t[j] = s[j + 1]
  BY EmptySeq, HeadTailProperties
<1> HIDE DEF t
<1>2. PICK i \in 1..Len(s), j \in 1..Len(s) : i < j /\ s[i] = c /\ s[j] = d
  BY DEF Before
<1>3. i # 1
  BY <1>1, <1>2
<1>4. /\ i - 1 \in 1..Len(t) /\ t[i - 1] = c
      /\ j - 1 \in 1..Len(t) /\ t[j - 1] = d /\ i - 1 < j - 1
  BY <1>1, <1>2, <1>3
<1>5. Before(t, c, d)
  BY <1>4 DEF Before
<1> QED
  BY <1>5 DEF t

\* Who is met before whom is in the list, and a duplicate-free list orders its
\* members one way.
LEMMA BeforeMembers ==
    ASSUME NEW S, NEW s \in Seq(S), NEW c, NEW d, Before(s, c, d)
    PROVE  /\ c \in Members(s) /\ d \in Members(s)
           /\ Distinct(s) => c # d /\ ~ Before(s, d, c)
BY DEF Before, Members, Distinct

\* What is met in a spliced chain was in one of the halves, and what is met
\* after an append is the new element or was there before.
LEMMA ConcatMembersOnly ==
    ASSUME NEW S, NEW s \in Seq(S), NEW t \in Seq(S)
    PROVE  Members(s \o t) \subseteq Members(s) \cup Members(t)
<1>1. /\ Len(s \o t) = Len(s) + Len(t)
      /\ \A i \in 1..(Len(s) + Len(t)) :
            (s \o t)[i] = IF i <= Len(s) THEN s[i] ELSE t[i - Len(s)]
  BY ConcatProperties
<1>2. Len(s) \in Nat /\ Len(t) \in Nat
  OBVIOUS
<1> SUFFICES ASSUME NEW i \in 1..Len(s \o t)
             PROVE  (s \o t)[i] \in Members(s) \cup Members(t)
  BY DEF Members
<1>3. CASE i <= Len(s)
  BY <1>3, <1>1, <1>2 DEF Members
<1>4. CASE i > Len(s)
  <2>1. i - Len(s) \in 1..Len(t) /\ (s \o t)[i] = t[i - Len(s)]
    BY <1>4, <1>1, <1>2
  <2> QED
    BY <2>1 DEF Members
<1> QED
  BY <1>3, <1>4, <1>1, <1>2

LEMMA AppendMembersOnly ==
    ASSUME NEW S, NEW s \in Seq(S), NEW c \in S
    PROVE  Members(Append(s, c)) = Members(s) \cup {c}
<1> DEFINE t == Append(s, c)
<1>1. /\ Len(t) = Len(s) + 1 /\ Len(s) \in Nat
      /\ \A i \in 1..Len(s) : t[i] = s[i]
      /\ t[Len(s) + 1] = c
  OBVIOUS
<1> HIDE DEF t
<1>2. Members(t) = Members(s) \cup {c}
  BY <1>1 DEF Members
<1> QED
  BY <1>2 DEF t

=============================================================================
