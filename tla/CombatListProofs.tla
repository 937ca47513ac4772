-------------------------- MODULE CombatListProofs --------------------------
(***************************************************************************)
(* Proofs about CombatList, for any characters: whatever a blow does, the  *)
(* list is sound, the walk goes on from a member of it, nobody fights      *)
(* freed memory, and only check_idling turns a character outside the list  *)
(* to an attacker.  The loop of char_from_room that stops the attackers of *)
(* who leaves ends: each turn has one attacker less (TurnsSound).          *)
(***************************************************************************)
EXTENDS CombatTurns, ChainLemmas, FiniteSetTheorems

-----------------------------------------------------------------------------
(* The inductive invariant.  A character is freed at the end of the calls  *)
(* extract_char makes: what each of them has achieved for it is kept until *)
(* the last, and no other list of calls frees anybody.                     *)

\* Nobody in the list fights c.
Unfought(c) == \A d \in Members(list) : fighting[d] # c

NoFree(ops) == \A i \in 1..Len(ops) : ops[i][1] # "free"

\* extract_char(c) still makes its first call, its second, its third, its last.
ToStopOthers(c) ==
    /\ agenda = << <<"stop_him", c>>, <<"stop", c>>, <<"leave_room", c>>, <<"free", c>> >>
    /\ c \in ready \ delayed

ToStop(c) ==
    /\ agenda = << <<"stop", c>>, <<"leave_room", c>>, <<"free", c>> >>
    /\ c \in ready \ delayed /\ Unfought(c)

ToLeave(c) ==
    /\ agenda = << <<"leave_room", c>>, <<"free", c>> >>
    /\ fighting[c] = None /\ c \notin Members(list) /\ Unfought(c)

ToFree(c) ==
    /\ agenda = << <<"free", c>> >>
    /\ c \notin Members(list) /\ Unfought(c)

Extracting(c) == ToStopOthers(c) \/ ToStop(c) \/ ToLeave(c) \/ ToFree(c)

AgendaSound == NoFree(agenda) \/ \E c \in Char : Extracting(c)

IInv == TypeOK /\ ListSound /\ TargetsExist /\ AgendaSound

-----------------------------------------------------------------------------
(* Lists of calls.                                                         *)

\* Calls that free nobody still do when the first is made.
LEMMA NoFreeTail ==
    ASSUME NEW ops \in Seq(Op \X Char), ops # <<>>, NoFree(ops)
    PROVE  NoFree(Tail(ops))
<1>1. /\ Len(ops) \in Nat
      /\ Len(Tail(ops)) = Len(ops) - 1
      /\ \A i \in 1..Len(Tail(ops)) : Tail(ops)[i] = ops[i + 1]
  BY EmptySeq, HeadTailProperties
<1> QED
  BY <1>1 DEF NoFree

\* Calls that free nobody may be put in front of others that do not.
LEMMA NoFreeConcat ==
    ASSUME NEW r \in Seq(Op \X Char), NEW s \in Seq(Op \X Char), NoFree(r), NoFree(s)
    PROVE  NoFree(r \o s)
<1>1. /\ Len(r) \in Nat /\ Len(s) \in Nat
      /\ Len(r \o s) = Len(r) + Len(s)
      /\ \A i \in 1..(Len(r) + Len(s)) :
            (r \o s)[i] = IF i <= Len(r) THEN r[i] ELSE s[i - Len(r)]
  BY ConcatProperties
<1> SUFFICES ASSUME NEW i \in 1..(Len(r) + Len(s))
             PROVE  (r \o s)[i][1] # "free"
  BY <1>1 DEF NoFree
<1>2. CASE i <= Len(r)
  BY <1>1, <1>2 DEF NoFree
<1>3. CASE i > Len(r)
  <2>1. i - Len(r) \in 1..Len(s)
    BY <1>1, <1>3
  <2> QED
    BY <1>1, <1>3, <2>1 DEF NoFree
<1> QED
  BY <1>1, <1>2, <1>3

\* The calls a running function is given, by their number.
LEMMA Calls ==
    ASSUME NEW a \in Op \X Char, NEW b \in Op \X Char, NEW c \in Op \X Char, NEW d \in Op \X Char
    PROVE  /\ <<a>> \in Seq(Op \X Char) /\ <<a>> # <<>> /\ Head(<<a>>) = a /\ Tail(<<a>>) = <<>>
           /\ <<a, b>> \in Seq(Op \X Char) /\ <<a, b>> # <<>>
           /\ Head(<<a, b>>) = a /\ Tail(<<a, b>>) = <<b>>
           /\ <<a, b, c>> \in Seq(Op \X Char) /\ <<a, b, c>> # <<>>
           /\ Head(<<a, b, c>>) = a /\ Tail(<<a, b, c>>) = <<b, c>>
           /\ <<a, b, c, d>> \in Seq(Op \X Char) /\ <<a, b, c, d>> # <<>>
           /\ Head(<<a, b, c, d>>) = a /\ Tail(<<a, b, c, d>>) = <<b, c, d>>
  OBVIOUS

\* The fourth call of extract_char, and its absence.
LEMMA CallsJoined ==
    ASSUME NEW a \in Op \X Char, NEW b \in Op \X Char, NEW c \in Op \X Char, NEW d \in Op \X Char
    PROVE  /\ <<a, b, c>> \o <<d>> = <<a, b, c, d>>
           /\ <<a, b, c>> \o <<>> = <<a, b, c>>
<1>1. <<a, b, c>> \in Seq(Op \X Char) /\ <<d>> \in Seq(Op \X Char)
  BY Calls
<1>2. <<a, b, c>> \o <<>> = <<a, b, c>>
  BY <1>1, ConcatEmptySeq
<1>3. <<a, b, c>> \o <<d>> = <<a, b, c, d>>
  <2> DEFINE r == <<a, b, c>>
             s == r \o <<d>>
             t == <<a, b, c, d>>
  <2>1. Len(r) = 3 /\ r[1] = a /\ r[2] = b /\ r[3] = c
    OBVIOUS
  <2>2. t \in Seq(Op \X Char) /\ Len(t) = 4 /\ t[1] = a /\ t[2] = b /\ t[3] = c /\ t[4] = d
    OBVIOUS
  <2>3. Append(r, d) = s
    BY <1>1, AppendIsConcat
  <2> HIDE DEF r, t
  <2>4. s \in Seq(Op \X Char) /\ Len(s) = 4 /\ s[1] = a /\ s[2] = b /\ s[3] = c /\ s[4] = d
    <3>1. r \in Seq(Op \X Char)
      BY <1>1 DEF r
    <3>2. /\ Append(r, d) \in Seq(Op \X Char)
          /\ Len(Append(r, d)) = Len(r) + 1
          /\ \A i \in 1..Len(r) : Append(r, d)[i] = r[i]
          /\ Append(r, d)[Len(r) + 1] = d
      BY <3>1, AppendProperties
    <3> QED
      BY <2>1, <2>3, <3>2
  <2> HIDE DEF s
  <2>5. ASSUME NEW i \in 1..Len(s)
        PROVE  s[i] = t[i]
    <3>1. i \in {1, 2, 3, 4}
      BY <2>4
    <3> QED
      BY <2>2, <2>4, <3>1
  <2>6. s = t
    <3>1. s \in Seq(Op \X Char) /\ t \in Seq(Op \X Char) /\ Len(s) = Len(t)
      BY <2>2, <2>4
    <3>2. \A i \in 1..Len(s) : s[i] = t[i]
      BY <2>5
    <3> QED
      BY <3>1, <3>2, SeqEqual
  <2> QED
    BY <2>6 DEF r, s, t
<1> QED
  BY <1>2, <1>3

\* A few calls that free nobody.
LEMMA NoFreeFew ==
    ASSUME NEW a \in Op \X Char, NEW b \in Op \X Char, NEW c \in Op \X Char,
           a[1] # "free", b[1] # "free", c[1] # "free"
    PROVE  NoFree(<<>>) /\ NoFree(<<a>>) /\ NoFree(<<a, b>>) /\ NoFree(<<a, b, c>>)
  BY DEF NoFree

\* One call that frees nobody.
LEMMA OneCall ==
    ASSUME NEW a \in Op \X Char, a[1] # "free"
    PROVE  <<a>> \in Seq(Op \X Char) /\ NoFree(<<a>>)
  BY DEF NoFree

-----------------------------------------------------------------------------
(* The three functions.                                                    *)

\* set_fighting links c once, and changes nobody else.
LEMMA SetFightingSound ==
    ASSUME NEW c \in Char, NEW v \in Char \cup {None}, TypeOK, ListSound,
           SetFighting(c, v), next_dude' = next_dude
    PROVE  /\ list' \in Seq(Char) /\ fighting' \in [Char -> Char \cup {None}]
           /\ stunned' \subseteq Char
           /\ ListSound'
           /\ Members(list) \subseteq Members(list')
           /\ Members(list') \subseteq Members(list) \cup {c}
           /\ \A d \in Char : d # c => fighting'[d] = fighting[d]
           /\ fighting'[c] # fighting[c] => c \in Members(list') /\ fighting'[c] = v
<1>0. /\ list \in Seq(Char) /\ Distinct(list)
      /\ fighting \in [Char -> Char \cup {None}] /\ stunned \subseteq Char
      /\ next_dude \in Members(list) \cup {None}
  BY DEF TypeOK, ListSound
<1>1. CASE c = v \/ fighting[c] # None
  BY <1>0, <1>1 DEF SetFighting, ListSound
<1>2. CASE ~ (c = v \/ fighting[c] # None)
  <2>1. /\ list' = IF c \in Members(list) THEN list ELSE <<c>> \o list
        /\ fighting' = [fighting EXCEPT ![c] = v]
        /\ stunned' = IF v = None THEN stunned ELSE stunned \ {c}
    BY <1>2 DEF SetFighting
  <2>2. /\ list' \in Seq(Char) /\ Distinct(list')
        /\ Members(list') = Members(list) \cup {c}
    <3>1. CASE c \in Members(list)
      BY <1>0, <2>1, <3>1
    <3>2. CASE c \notin Members(list)
      BY <1>0, <2>1, <3>2, PrependMembers
    <3> QED
      BY <3>1, <3>2
  <2>3. fighting' \in [Char -> Char \cup {None}]
    BY <1>0, <2>1
  <2>4. \A d \in Char : fighting'[d] = IF d = c THEN v ELSE fighting[d]
    BY <1>0, <2>1
  <2>5. stunned' \subseteq Char
    BY <1>0, <2>1
  <2> QED
    BY <1>0, <2>2, <2>3, <2>4, <2>5 DEF ListSound
<1> QED
  BY <1>1, <1>2

\* Leaving the list takes c out, and the walk goes on from somebody in it.
LEMMA UnlinkSound ==
    ASSUME NEW c \in Char, TypeOK, ListSound, Unlink(c)
    PROVE  /\ list' \in Seq(Char)
           /\ Members(list') = Members(list) \ {c}
           /\ next_dude' \in Char \cup {None}
           /\ ListSound'
<1>0. /\ list \in Seq(Char) /\ Distinct(list)
      /\ next_dude \in Members(list) \cup {None} /\ next_dude \in Char \cup {None}
  BY DEF TypeOK, ListSound
<1>1. list' \in Seq(Char) /\ Members(list') = Members(list) \ {c} /\ Distinct(list')
  BY <1>0, WithoutMembers DEF Unlink
<1>2. Follower(list, c) \in (Members(list) \ {c}) \cup {None}
  BY <1>0, SuccessorMember DEF Follower
<1>3. next_dude' \in Members(list') \cup {None}
  BY <1>0, <1>1, <1>2 DEF Unlink
<1>4. Members(list') \subseteq Char
  BY <1>1 DEF Members
<1> QED
  BY <1>1, <1>3, <1>4 DEF ListSound

\* stop_fighting changes the target of c alone, to another attacker or to
\* nobody; who has a target keeps its place; and a character that has its
\* energy, no mental delay and no other attacker leaves the list.
LEMMA StopFightingSound ==
    ASSUME NEW c \in Char, TypeOK, ListSound, StopFighting(c)
    PROVE  /\ list' \in Seq(Char) /\ fighting' \in [Char -> Char \cup {None}]
           /\ next_dude' \in Char \cup {None}
           /\ ListSound'
           /\ Members(list') = Members(list) \/ Members(list') = Members(list) \ {c}
           /\ \A d \in Char : d # c => fighting'[d] = fighting[d]
           /\ fighting'[c] \in OtherAttackers(c) \cup {None}
           /\ fighting'[c] # None => Members(list') = Members(list)
           /\ c \in ready \ delayed /\ OtherAttackers(c) = {}
                => fighting'[c] = None /\ c \notin Members(list')
<1>0. /\ list \in Seq(Char) /\ Distinct(list)
      /\ fighting \in [Char -> Char \cup {None}]
      /\ next_dude \in Members(list) \cup {None} /\ next_dude \in Char \cup {None}
  BY DEF TypeOK, ListSound
<1>1. OtherAttackers(c) \subseteq Char
  BY <1>0 DEF OtherAttackers, Members
<1> DEFINE stays(t) == \/ t = None /\ c \notin ready
                       \/ c \in delayed /\ c \notin stunned
<1>2. PICK t \in OtherAttackers(c) \cup {None} :
         /\ fighting' = [fighting EXCEPT ![c] = IF stays(t) THEN None ELSE t]
         /\ IF stays(t) \/ t # None THEN UNCHANGED <<list, next_dude>> ELSE Unlink(c)
  BY DEF StopFighting
<1>3. /\ fighting' \in [Char -> Char \cup {None}]
      /\ \A d \in Char : fighting'[d] = IF d = c THEN (IF stays(t) THEN None ELSE t)
                                                 ELSE fighting[d]
  BY <1>0, <1>1, <1>2
<1>4. CASE stays(t) \/ t # None
  <2>1. list' = list /\ next_dude' = next_dude
    BY <1>2, <1>4
  <2> QED
    BY <1>0, <1>3, <1>4, <2>1 DEF ListSound
<1>5. CASE ~ (stays(t) \/ t # None)
  <2>1. Unlink(c)
    BY <1>2, <1>5
  <2> QED
    BY <1>3, <1>5, <2>1, UnlinkSound
<1> QED
  BY <1>4, <1>5

\* So nobody comes to fight who was not fought by somebody, or freed.
LEMMA StopKeepsTargets ==
    ASSUME NEW c \in Char, TypeOK, ListSound, TargetsExist, StopFighting(c), live' = live
    PROVE  TargetsExist'
<1>1. Members(list) \subseteq Char /\ OtherAttackers(c) \subseteq Members(list)
  BY DEF OtherAttackers, TypeOK, Members
<1>2. /\ Members(list') \subseteq Members(list)
      /\ \A d \in Char : d # c => fighting'[d] = fighting[d]
      /\ fighting'[c] \in OtherAttackers(c) \cup {None}
  BY StopFightingSound
<1> SUFFICES ASSUME NEW d \in Members(list')
             PROVE  d \in live /\ (fighting'[d] # None => fighting'[d] \in live)
  BY DEF TargetsExist
<1> QED
  BY <1>1, <1>2 DEF TargetsExist

-----------------------------------------------------------------------------
(* The callers.                                                            *)

\* The server starts with nobody.
LEMMA InitSound == Init => IInv
<1> SUFFICES ASSUME Init PROVE IInv
  OBVIOUS
<1>0. <<>> \in Seq(Char) /\ <<>> \in Seq(Op \X Char)
  OBVIOUS
<1>1. TypeOK
  BY <1>0 DEF Init, TypeOK
<1>2. list = <<>> /\ Members(list) = {} /\ Distinct(list)
  BY DEF Init, Members, Distinct
<1>3. ListSound /\ TargetsExist
  BY <1>2 DEF Init, ListSound, TargetsExist
<1>4. AgendaSound
  BY DEF Init, AgendaSound, NoFree
<1> QED
  BY <1>1, <1>3, <1>4 DEF IInv

\* A new character fights nobody and is in no list.
LEMMA CreateSound ==
    ASSUME NEW c \in Char, IInv, Create(c)
    PROVE  IInv'
<1>1. TypeOK'
  BY DEF IInv, TypeOK, Create
<1>2. ListSound'
  BY DEF IInv, ListSound, Create
<1>3. TargetsExist'
  <2>1. fighting \in [Char -> Char \cup {None}] /\ Members(list) \subseteq Char
    BY DEF IInv, TypeOK, Members
  <2>2. \A d \in Members(list) : d # c /\ d \in live' /\ fighting'[d] = fighting[d]
    BY <2>1 DEF IInv, TargetsExist, Create
  <2> QED
    BY <2>1, <2>2 DEF IInv, TargetsExist, Create
<1>4. AgendaSound'
  BY DEF AgendaSound, NoFree, Create, Elsewhere
<1> QED
  BY <1>1, <1>2, <1>3, <1>4 DEF IInv

\* Whoever is set to fight a live character, or nobody, may be set to.
LEMMA SetFightingKeeps ==
    ASSUME NEW c \in Char, NEW v \in Char \cup {None}, IInv, SetFighting(c, v),
           c \in live, v # None => v \in live,
           agenda = <<>>, delayed' \subseteq Mystic,
           UNCHANGED <<live, ready, at, next_dude, acting, agenda>>
    PROVE  IInv'
<1>0. TypeOK /\ ListSound /\ TargetsExist
  BY DEF IInv
<1>1. /\ list' \in Seq(Char) /\ fighting' \in [Char -> Char \cup {None}]
      /\ stunned' \subseteq Char
      /\ ListSound'
      /\ Members(list') \subseteq Members(list) \cup {c}
      /\ \A d \in Char : d # c => fighting'[d] = fighting[d]
      /\ fighting'[c] # fighting[c] => fighting'[c] = v
  BY <1>0, SetFightingSound
<1>2. TypeOK'
  BY <1>0, <1>1 DEF TypeOK
<1>3. TargetsExist'
  <2>1. CASE c \in Members(list)
    BY <1>0, <1>1, <2>1 DEF TargetsExist, Members, TypeOK
  <2>2. CASE c \notin Members(list)
    <3>1. fighting[c] # None => SetFighting(c, v) /\ list' = list
      BY DEF SetFighting
    <3>2. fighting[c] = None => fighting'[c] \in {None, v}
      BY <1>1
    <3>3. c \in Members(list') => fighting'[c] \in {None, v}
      BY <2>2, <3>1, <3>2
    <3>4. \A d \in Members(list) : d \in Char /\ d # c
      BY <1>0, <2>2 DEF TypeOK, Members
    <3> QED
      BY <1>0, <1>1, <3>3, <3>4 DEF TargetsExist
  <2> QED
    BY <2>1, <2>2
<1>4. AgendaSound'
  BY DEF AgendaSound, NoFree
<1> QED
  BY <1>1, <1>2, <1>3, <1>4 DEF IInv

\* damage() and its like set a live character to fight a live one.
LEMMA EngageSound ==
    ASSUME NEW c \in Char, NEW v \in Char, IInv, Engage(c, v)
    PROVE  IInv'
<1>1. delayed' \subseteq Mystic
  BY DEF Engage, IInv, TypeOK
<1> QED
  BY <1>1, SetFightingKeeps DEF Engage, Elsewhere

\* The first mental delay links the mystic without an opponent.
LEMMA SetMentalDelaySound ==
    ASSUME NEW c \in Char, IInv, SetMentalDelay(c)
    PROVE  IInv'
<1>1. delayed' \subseteq Mystic /\ c \in live /\ agenda = <<>>
  BY DEF SetMentalDelay, Elsewhere, IInv, TypeOK
<1>2. CASE c \notin delayed
  BY <1>1, <1>2, SetFightingKeeps DEF SetMentalDelay
<1>3. CASE c \in delayed
  <2>1. UNCHANGED <<live, list, fighting, stunned, next_dude, agenda>>
    BY <1>3 DEF SetMentalDelay
  <2>2. TypeOK'
    BY <1>1, <2>1 DEF IInv, TypeOK, SetMentalDelay
  <2>3. ListSound' /\ TargetsExist'
    BY <2>1 DEF IInv, ListSound, TargetsExist
  <2>4. AgendaSound'
    BY <1>1, <2>1 DEF AgendaSound, NoFree
  <2> QED
    BY <2>2, <2>3, <2>4 DEF IInv
<1> QED
  BY <1>2, <1>3

\* Turning to another attacker changes no list.
LEMMA TurnSound ==
    ASSUME NEW c \in Char, NEW v \in Char, IInv, Turn(c, v)
    PROVE  IInv'
<1>1. TypeOK'
  BY DEF IInv, TypeOK, Turn
<1>2. ListSound'
  BY DEF IInv, ListSound, Turn
<1>3. TargetsExist'
  <2>1. \A d \in Members(list) : d \in Char /\ fighting'[d] \in {fighting[d], v}
    BY DEF IInv, TypeOK, Members, Turn
  <2> QED
    BY <2>1 DEF IInv, TargetsExist, Turn
<1>4. AgendaSound'
  BY DEF AgendaSound, NoFree, Turn, Elsewhere
<1> QED
  BY <1>1, <1>2, <1>3, <1>4 DEF IInv

\* Stunning and recovering move nobody.
LEMMA StunSound ==
    ASSUME NEW c \in Char, IInv, Stun(c) \/ Recover(c)
    PROVE  IInv'
<1>1. TypeOK'
  BY DEF IInv, TypeOK, Stun, Recover
<1>2. ListSound' /\ TargetsExist'
  BY DEF IInv, ListSound, TargetsExist, Stun, Recover
<1>3. AgendaSound'
  BY DEF AgendaSound, NoFree, Stun, Recover, Elsewhere
<1> QED
  BY <1>1, <1>2, <1>3 DEF IInv

\* A function that frees nobody may make whatever calls it has.
LEMMA RunSound ==
    ASSUME NEW ops \in Seq(Op \X Char), NoFree(ops), IInv, Run(ops),
           UNCHANGED <<ready, delayed>>
    PROVE  IInv'
<1>1. TypeOK'
  BY DEF IInv, TypeOK, Run
<1>2. ListSound' /\ TargetsExist'
  BY DEF IInv, ListSound, TargetsExist, Run
<1>3. AgendaSound'
  BY DEF AgendaSound, NoFree, Run
<1> QED
  BY <1>1, <1>2, <1>3 DEF IInv

\* The callers of stop_fighting that free nobody.
LEMMA DisengageSound ==
    ASSUME NEW c \in Char, IInv, Stop(c) \/ Spare(c) \/ LeaveRoom(c) \/ IdleIntoVoid(c)
    PROVE  IInv'
<1>1. CASE Stop(c)
  <2>1. <<"stop", c>> \in Op \X Char /\ <<"stop", c>>[1] # "free"
    BY DEF Op
  <2> QED
    BY <1>1, <2>1, OneCall, RunSound DEF Stop
<1>2. CASE Spare(c)
  <2>1. /\ <<"stop_him", c>> \in Op \X Char /\ <<"stop_him", c>>[1] # "free"
        /\ <<"stop", c>> \in Op \X Char /\ <<"stop", c>>[1] # "free"
    BY DEF Op
  <2> QED
    BY <1>2, <2>1, Calls, NoFreeFew, RunSound DEF Spare
<1>3. CASE LeaveRoom(c)
  <2>1. <<"leave_room", c>> \in Op \X Char /\ <<"leave_room", c>>[1] # "free"
    BY DEF Op
  <2> QED
    BY <1>3, <2>1, OneCall, RunSound DEF LeaveRoom
<1>4. CASE IdleIntoVoid(c)
  <2>1. fighting[c] \in Char
    BY <1>4 DEF IdleIntoVoid, IInv, TypeOK
  <2>2. /\ <<"stop", fighting[c]>> \in Op \X Char /\ <<"stop", fighting[c]>>[1] # "free"
        /\ <<"stop", c>> \in Op \X Char /\ <<"stop", c>>[1] # "free"
    BY <2>1 DEF Op
  <2> QED
    BY <1>4, <2>2, Calls, NoFreeFew, RunSound DEF IdleIntoVoid
<1> QED
  BY <1>1, <1>2, <1>3, <1>4

\* extract_char starts with the energy and delay its calls rely on.
LEMMA ExtractSound ==
    ASSUME NEW c \in Char, NEW freed \in BOOLEAN, IInv, Extract(c, freed)
    PROVE  IInv'
<1> DEFINE h == <<"stop_him", c>>
           s == <<"stop", c>>
           l == <<"leave_room", c>>
           f == <<"free", c>>
<1>1. /\ h \in Op \X Char /\ s \in Op \X Char /\ l \in Op \X Char /\ f \in Op \X Char
      /\ h[1] # "free" /\ s[1] # "free" /\ l[1] # "free"
  BY DEF Op
<1>2. agenda' = IF freed THEN <<h, s, l, f>> ELSE <<h, s, l>>
  <2>1. agenda' = <<h, s, l>> \o IF freed THEN <<f>> ELSE <<>>
    BY DEF Extract, Run
  <2> HIDE DEF h, s, l, f
  <2>2. <<h, s, l>> \o <<f>> = <<h, s, l, f>> /\ <<h, s, l>> \o <<>> = <<h, s, l>>
    BY <1>1, CallsJoined
  <2> QED
    BY <2>1, <2>2
<1>3. agenda' \in Seq(Op \X Char)
  BY <1>1, <1>2, Calls
<1>4. TypeOK'
  BY <1>3 DEF IInv, TypeOK, Extract, Run
<1>5. ListSound' /\ TargetsExist'
  BY DEF IInv, ListSound, TargetsExist, Extract, Run
<1>6. AgendaSound'
  <2>1. CASE freed
    BY <1>2, <2>1 DEF AgendaSound, Extracting, ToStopOthers, Extract
  <2>2. CASE ~ freed
    BY <1>1, <1>2, <2>2, NoFreeFew DEF AgendaSound
  <2> QED
    BY <2>1, <2>2
<1> QED
  BY <1>4, <1>5, <1>6 DEF IInv

-----------------------------------------------------------------------------
(* The calls, one at a time.                                               *)

\* What is first in each stage of an extraction, and what follows.
LEMMA Stages ==
    ASSUME NEW c \in Char
    PROVE  /\ ToStopOthers(c) => /\ Head(agenda) = <<"stop_him", c>>
                                 /\ Tail(agenda) = << <<"stop", c>>, <<"leave_room", c>>, <<"free", c>> >>
           /\ ToStop(c) => /\ Head(agenda) = <<"stop", c>>
                           /\ Tail(agenda) = << <<"leave_room", c>>, <<"free", c>> >>
           /\ ToLeave(c) => /\ Head(agenda) = <<"leave_room", c>>
                            /\ Tail(agenda) = << <<"free", c>> >>
           /\ ToFree(c) => /\ Head(agenda) = <<"free", c>>
                           /\ Tail(agenda) = <<>>
<1> DEFINE h == <<"stop_him", c>>
           s == <<"stop", c>>
           l == <<"leave_room", c>>
           f == <<"free", c>>
<1>1. h \in Op \X Char /\ s \in Op \X Char /\ l \in Op \X Char /\ f \in Op \X Char
  BY DEF Op
<1>2. /\ ToStopOthers(c) => agenda = <<h, s, l, f>>
      /\ ToStop(c) => agenda = <<s, l, f>>
      /\ ToLeave(c) => agenda = <<l, f>>
      /\ ToFree(c) => agenda = <<f>>
  BY DEF ToStopOthers, ToStop, ToLeave, ToFree
<1> HIDE DEF h, s, l, f
<1>3. /\ Head(<<h, s, l, f>>) = h /\ Tail(<<h, s, l, f>>) = <<s, l, f>>
      /\ Head(<<s, l, f>>) = s /\ Tail(<<s, l, f>>) = <<l, f>>
      /\ Head(<<l, f>>) = l /\ Tail(<<l, f>>) = <<f>>
      /\ Head(<<f>>) = f /\ Tail(<<f>>) = <<>>
  BY <1>1, Calls
<1>4. /\ ToStopOthers(c) => Head(agenda) = h /\ Tail(agenda) = <<s, l, f>>
      /\ ToStop(c) => Head(agenda) = s /\ Tail(agenda) = <<l, f>>
      /\ ToLeave(c) => Head(agenda) = l /\ Tail(agenda) = <<f>>
      /\ ToFree(c) => Head(agenda) = f /\ Tail(agenda) = <<>>
  BY <1>2, <1>3
<1> QED
  BY <1>4 DEF h, s, l, f

\* A call that is due says which stage an extraction has reached.
LEMMA StageDue ==
    ASSUME NEW c \in Char, NEW e \in Char, NEW op \in Op, Extracting(e), Due(op, c)
    PROVE  /\ e = c
           /\ op = "stop_him" => ToStopOthers(c)
           /\ op = "stop" => ToStop(c)
           /\ op = "leave_room" => ToLeave(c)
           /\ op = "free" => ToFree(c)
<1>1. Head(agenda) = <<op, c>>
  BY DEF Due
<1>2. CASE ToStopOthers(e)
  BY <1>1, <1>2, Stages
<1>3. CASE ToStop(e)
  BY <1>1, <1>3, Stages
<1>4. CASE ToLeave(e)
  BY <1>1, <1>4, Stages
<1>5. CASE ToFree(e)
  BY <1>1, <1>5, Stages
<1> QED
  BY <1>2, <1>3, <1>4, <1>5 DEF Extracting

\* The calls that are left are calls.
LEMMA TailTyped ==
    ASSUME TypeOK, agenda # <<>>
    PROVE  Tail(agenda) \in Seq(Op \X Char)
  BY DEF TypeOK

\* stop_fighting: for a character being extracted it is the call that unlinks it.
LEMMA CallStopSound ==
    ASSUME NEW c \in Char, IInv, CallStop(c)
    PROVE  IInv'
<1>0. TypeOK /\ ListSound /\ TargetsExist /\ Due("stop", c) /\ StopFighting(c)
      /\ agenda # <<>> /\ agenda' = Tail(agenda) /\ agenda \in Seq(Op \X Char)
  BY DEF IInv, TypeOK, CallStop, Due
<1>1. /\ list' \in Seq(Char) /\ fighting' \in [Char -> Char \cup {None}]
      /\ next_dude' \in Char \cup {None}
      /\ ListSound'
      /\ Members(list') \subseteq Members(list)
      /\ \A d \in Char : d # c => fighting'[d] = fighting[d]
      /\ c \in ready \ delayed /\ OtherAttackers(c) = {}
            => fighting'[c] = None /\ c \notin Members(list')
  BY <1>0, StopFightingSound
<1>2. TypeOK'
  BY <1>0, <1>1, TailTyped DEF TypeOK, CallStop
<1>3. TargetsExist'
  BY <1>0, StopKeepsTargets DEF CallStop
<1>4. AgendaSound'
  <2>1. CASE NoFree(agenda)
    BY <1>0, <2>1, NoFreeTail DEF AgendaSound
  <2>2. ASSUME NEW e \in Char, Extracting(e)
        PROVE  ToLeave(c)'
    <3>1. ToStop(c)
      BY <1>0, <2>2, StageDue DEF Op
    <3>2. agenda' = << <<"leave_room", c>>, <<"free", c>> >>
      BY <1>0, <3>1, Stages
    <3>3. OtherAttackers(c) = {}
      BY <3>1 DEF ToStop, Unfought, OtherAttackers
    <3>4. fighting'[c] = None /\ c \notin Members(list')
      BY <1>1, <3>1, <3>3 DEF ToStop
    <3>5. \A d \in Members(list') : fighting'[d] # c
      <4>1. Members(list) \subseteq Char
        BY <1>0 DEF TypeOK, Members
      <4> QED
        BY <1>1, <3>1, <3>4, <4>1 DEF ToStop, Unfought
    <3> QED
      BY <3>2, <3>4, <3>5 DEF ToLeave, Unfought
  <2> QED
    BY <2>1, <2>2 DEF IInv, AgendaSound, Extracting
<1> QED
  BY <1>1, <1>2, <1>3, <1>4 DEF IInv

\* stop_fighting_him: when it ends nobody in the list fights c.
LEMMA CallStopHimSound ==
    ASSUME NEW c \in Char, IInv, CallStopHim(c)
    PROVE  IInv'
<1>0. TypeOK /\ ListSound /\ TargetsExist /\ AgendaSound /\ Due("stop_him", c)
      /\ agenda # <<>> /\ agenda \in Seq(Op \X Char)
      /\ UNCHANGED <<live, ready, delayed, stunned, at, acting>>
  BY DEF IInv, TypeOK, CallStopHim, Due
<1>1. CASE \E d \in Members(list) : fighting[d] = c
  <2>1. PICK i \in 1..Len(list) : StopFighting(list[i]) /\ UNCHANGED agenda
    BY <1>1 DEF CallStopHim
  <2>2. list[i] \in Char
    BY <1>0 DEF TypeOK
  <2>3. /\ list' \in Seq(Char) /\ fighting' \in [Char -> Char \cup {None}]
        /\ next_dude' \in Char \cup {None}
        /\ ListSound'
    BY <1>0, <2>1, <2>2, StopFightingSound
  <2>4. TypeOK'
    BY <1>0, <2>1, <2>3 DEF TypeOK
  <2>5. TargetsExist'
    BY <1>0, <2>1, <2>2, StopKeepsTargets
  <2>6. AgendaSound'
    <3>1. CASE NoFree(agenda)
      BY <2>1, <3>1 DEF AgendaSound
    <3>2. ASSUME NEW e \in Char, Extracting(e)
          PROVE  ToStopOthers(c)'
      BY <1>0, <2>1, <3>2, StageDue DEF Op, ToStopOthers
    <3> QED
      BY <1>0, <3>1, <3>2 DEF AgendaSound, Extracting
  <2> QED
    BY <2>3, <2>4, <2>5, <2>6 DEF IInv
<1>2. CASE ~ \E d \in Members(list) : fighting[d] = c
  <2>1. agenda' = Tail(agenda) /\ UNCHANGED <<list, fighting, next_dude>>
    BY <1>2 DEF CallStopHim
  <2>2. TypeOK'
    BY <1>0, <2>1, TailTyped DEF TypeOK
  <2>3. ListSound' /\ TargetsExist'
    BY <1>0, <2>1 DEF ListSound, TargetsExist
  <2>4. AgendaSound'
    <3>1. CASE NoFree(agenda)
      BY <1>0, <2>1, <3>1, NoFreeTail DEF AgendaSound
    <3>2. ASSUME NEW e \in Char, Extracting(e)
          PROVE  ToStop(c)'
      <4>1. ToStopOthers(c)
        BY <1>0, <3>2, StageDue DEF Op
      <4>2. agenda' = << <<"stop", c>>, <<"leave_room", c>>, <<"free", c>> >>
        BY <2>1, <4>1, Stages
      <4> QED
        BY <1>0, <1>2, <2>1, <4>1, <4>2 DEF ToStopOthers, ToStop, Unfought
    <3> QED
      BY <1>0, <3>1, <3>2 DEF AgendaSound, Extracting
  <2> QED
    BY <2>2, <2>3, <2>4 DEF IInv
<1> QED
  BY <1>1, <1>2

\* char_from_room's turn makes typed calls and frees nobody.
LEMMA LeaveRoomTurnTyped ==
    ASSUME NEW c \in Char, TypeOK, fighting[c] # None
    PROVE  LeaveRoomTurn(c) \in Seq(Op \X Char) /\ NoFree(LeaveRoomTurn(c))
<1> DEFINE o == <<"stop", fighting[c]>>
           r == << <<"stop", c>>, <<"leave_room", c>> >>
           t == IF fighting[fighting[c]] = c THEN <<o>> ELSE <<>>
<1>0. fighting[c] \in Char
  BY DEF TypeOK
<1>1. /\ o \in Op \X Char /\ o[1] # "free"
      /\ <<"stop", c>> \in Op \X Char /\ <<"stop", c>>[1] # "free"
      /\ <<"leave_room", c>> \in Op \X Char /\ <<"leave_room", c>>[1] # "free"
  BY <1>0 DEF Op
<1>2. r \in Seq(Op \X Char) /\ NoFree(r)
  BY <1>1, Calls, NoFreeFew
<1>3. t \in Seq(Op \X Char) /\ NoFree(t)
  <2>1. <<>> \in Seq(Op \X Char)
    OBVIOUS
  <2>2. NoFree(<<>>)
    BY DEF NoFree
  <2>3. <<o>> \in Seq(Op \X Char) /\ NoFree(<<o>>)
    BY <1>1, OneCall
  <2> HIDE DEF o
  <2> QED
    BY <2>1, <2>2, <2>3
<1>4. LeaveRoomTurn(c) = t \o r
  BY DEF LeaveRoomTurn
<1> HIDE DEF t, r
<1> QED
  BY <1>2, <1>3, <1>4, NoFreeConcat, ConcatProperties

\* char_from_room calls nothing for a character being extracted.
LEMMA CallLeaveRoomSound ==
    ASSUME NEW c \in Char, IInv, CallLeaveRoom(c)
    PROVE  IInv'
<1>0. TypeOK /\ ListSound /\ TargetsExist /\ AgendaSound /\ Due("leave_room", c)
      /\ agenda # <<>> /\ agenda \in Seq(Op \X Char)
      /\ Tail(agenda) \in Seq(Op \X Char)
      /\ UNCHANGED <<live, list, fighting, ready, delayed, stunned, at, next_dude, acting>>
  BY TailTyped DEF IInv, TypeOK, CallLeaveRoom, Due
<1>1. ListSound' /\ TargetsExist'
  BY <1>0 DEF ListSound, TargetsExist
<1>2. CASE fighting[c] # None
  <2>1. agenda' = LeaveRoomTurn(c) \o Tail(agenda)
    BY <1>2 DEF CallLeaveRoom
  <2>2. LeaveRoomTurn(c) \in Seq(Op \X Char) /\ NoFree(LeaveRoomTurn(c))
    BY <1>0, <1>2, LeaveRoomTurnTyped
  <2>3. agenda' \in Seq(Op \X Char)
    BY <1>0, <2>1, <2>2, ConcatProperties
  <2>4. TypeOK'
    BY <1>0, <2>3 DEF TypeOK
  <2>5. NoFree(agenda)
    BY <1>0, <1>2, StageDue DEF AgendaSound, Op, ToLeave
  <2>6. NoFree(agenda')
    BY <1>0, <2>1, <2>2, <2>5, NoFreeTail, NoFreeConcat
  <2> QED
    BY <1>1, <2>4, <2>6 DEF IInv, AgendaSound
<1>3. CASE fighting[c] = None
  <2>1. agenda' = Tail(agenda)
    BY <1>3 DEF CallLeaveRoom
  <2>2. TypeOK'
    BY <1>0, <2>1 DEF TypeOK
  <2>3. AgendaSound'
    <3>1. CASE NoFree(agenda)
      BY <1>0, <2>1, <3>1, NoFreeTail DEF AgendaSound
    <3>2. ASSUME NEW e \in Char, Extracting(e)
          PROVE  ToFree(c)'
      <4>1. ToLeave(c)
        BY <1>0, <3>2, StageDue DEF Op
      <4>2. agenda' = << <<"free", c>> >>
        BY <2>1, <4>1, Stages
      <4> QED
        BY <1>0, <4>1, <4>2 DEF ToLeave, ToFree, Unfought
    <3> QED
      BY <1>0, <3>1, <3>2 DEF AgendaSound, Extracting
  <2> QED
    BY <1>1, <2>2, <2>3 DEF IInv
<1> QED
  BY <1>2, <1>3

\* A call that frees somebody is the last of an extraction.
LEMMA FreeIsLast ==
    ASSUME NEW c \in Char, TypeOK, AgendaSound, Due("free", c)
    PROVE  ToFree(c)
<1>1. agenda \in Seq(Op \X Char) /\ agenda # <<>> /\ Head(agenda) = <<"free", c>>
  BY DEF TypeOK, Due
<1>2. ~ NoFree(agenda)
  <2>1. Len(agenda) \in Nat \ {0} /\ Head(agenda) = agenda[1]
    BY <1>1, EmptySeq, HeadTailProperties
  <2>2. agenda[1][1] = "free" /\ 1 \in 1..Len(agenda)
    BY <1>1, <2>1
  <2> QED
    BY <2>2 DEF NoFree
<1> QED
  BY <1>2, StageDue DEF AgendaSound, Op

\* The memory that is freed is in no list and nobody's target.
LEMMA CallFreeSound ==
    ASSUME NEW c \in Char, IInv, CallFree(c)
    PROVE  IInv'
<1>0. TypeOK /\ ListSound /\ TargetsExist /\ Due("free", c)
      /\ agenda # <<>> /\ agenda' = Tail(agenda) /\ live' = live \ {c}
      /\ UNCHANGED <<list, fighting, ready, delayed, stunned, at, next_dude, acting>>
  BY DEF IInv, CallFree, Due
<1>1. TypeOK'
  BY <1>0, TailTyped DEF TypeOK
<1>2. ToFree(c)
  BY <1>0, FreeIsLast DEF IInv
<1>3. ListSound' /\ TargetsExist'
  BY <1>0, <1>2 DEF ListSound, TargetsExist, ToFree, Unfought
<1>4. agenda' = <<>>
  BY <1>0, <1>2, Stages
<1>5. AgendaSound'
  BY <1>4 DEF AgendaSound, NoFree
<1> QED
  BY <1>1, <1>3, <1>5 DEF IInv

-----------------------------------------------------------------------------
(* perform_violence, and every step together.                              *)

\* The walk goes on to the place it kept.
LEMMA GoOnSound ==
    ASSUME TypeOK, ListSound, GoOn, list' = list
    PROVE  /\ at' \in Char \cup {None} /\ next_dude' \in Char \cup {None}
           /\ ListSound'
<1>0. list \in Seq(Char) /\ Distinct(list) /\ next_dude \in Members(list) \cup {None}
  BY DEF TypeOK, ListSound
<1>1. Follower(list, next_dude) \in Members(list) \cup {None}
  BY <1>0, SuccessorMember DEF Follower
<1>2. Members(list) \subseteq Char
  BY <1>0 DEF Members
<1> QED
  BY <1>0, <1>1, <1>2 DEF GoOn, ListSound

\* A round of perform_violence.
LEMMA RoundSound ==
    ASSUME IInv, Round
    PROVE  IInv'
<1>0. TypeOK /\ ListSound /\ TargetsExist
  BY DEF IInv
<1>1. UNCHANGED <<live, list, fighting, stunned>>
  BY DEF Round, StartRound, Meditate, Gather, Attack, EndAttack, NobodyThere
<1>2. TargetsExist'
  BY <1>0, <1>1 DEF TargetsExist
<1>3. CASE StartRound
  <2>1. list \in Seq(Char) /\ Distinct(list) /\ list # <<>>
    BY <1>0, <1>3 DEF TypeOK, ListSound, StartRound
  <2>2. Head(list) \in Members(list) /\ Members(list) \subseteq Char
    BY <2>1, TailMembers DEF Members
  <2>3. Follower(list, Head(list)) \in Members(list) \cup {None}
    BY <2>1, SuccessorMember DEF Follower
  <2>4. TypeOK'
    BY <1>0, <1>3, <2>2, <2>3 DEF TypeOK, StartRound
  <2>5. ListSound'
    BY <1>0, <1>3, <2>3 DEF ListSound, StartRound
  <2>6. AgendaSound'
    BY <1>3 DEF AgendaSound, NoFree, StartRound
  <2> QED
    BY <1>2, <2>4, <2>5, <2>6 DEF IInv
<1>4. CASE Meditate \/ Gather \/ EndAttack
  <2>1. GoOn /\ agenda' = <<>> /\ agenda = <<>>
    BY <1>4 DEF Meditate, Gather, EndAttack, Walking
  <2>2. /\ at' \in Char \cup {None} /\ next_dude' \in Char \cup {None}
        /\ ListSound'
    BY <1>0, <1>1, <2>1, GoOnSound
  <2>3. ready' \subseteq Char /\ delayed' \subseteq Mystic /\ acting' \in BOOLEAN
    BY <1>0, <1>4 DEF TypeOK, Meditate, Gather, EndAttack, Walking
  <2>4. TypeOK'
    BY <1>0, <1>1, <2>1, <2>2, <2>3 DEF TypeOK
  <2>5. AgendaSound'
    BY <2>1 DEF AgendaSound, NoFree
  <2> QED
    BY <1>2, <2>2, <2>4, <2>5 DEF IInv
<1>5. CASE Attack
  <2>1. TypeOK'
    BY <1>0, <1>5 DEF TypeOK, Attack, Walking
  <2>2. ListSound'
    BY <1>0, <1>5 DEF ListSound, Attack
  <2>3. AgendaSound'
    BY <1>5 DEF AgendaSound, NoFree, Attack, Walking
  <2> QED
    BY <1>2, <2>1, <2>2, <2>3 DEF IInv
<1>6. CASE NobodyThere
  <2>1. <<"stop", at>> \in Op \X Char /\ <<"stop", at>>[1] # "free"
    BY <1>0, <1>6 DEF TypeOK, NobodyThere, Walking, Op
  <2>2. agenda' \in Seq(Op \X Char) /\ NoFree(agenda')
    BY <1>6, <2>1, OneCall DEF NobodyThere
  <2>3. TypeOK'
    BY <1>0, <1>6, <2>2 DEF TypeOK, NobodyThere
  <2>4. ListSound'
    BY <1>0, <1>6 DEF ListSound, NobodyThere
  <2> QED
    BY <1>2, <2>2, <2>3, <2>4 DEF IInv, AgendaSound
<1> QED
  BY <1>3, <1>4, <1>5, <1>6 DEF Round

\* Nothing happens.
LEMMA StutterSound ==
    ASSUME IInv, UNCHANGED vars
    PROVE  IInv'
<1>1. TypeOK' /\ ListSound' /\ TargetsExist'
  BY DEF IInv, vars, TypeOK, ListSound, TargetsExist
<1>2. AgendaSound'
  <2>1. CASE NoFree(agenda)
    BY <2>1 DEF vars, AgendaSound
  <2>2. ASSUME NEW c \in Char, Extracting(c)
        PROVE  Extracting(c)'
    BY <2>2 DEF vars, Extracting, ToStopOthers, ToStop, ToLeave, ToFree, Unfought
  <2> QED
    BY <2>1, <2>2 DEF IInv, AgendaSound
<1> QED
  BY <1>1, <1>2 DEF IInv

\* Every call.
LEMMA CallSound ==
    ASSUME NEW c \in Char, IInv, Call(c)
    PROVE  IInv'
  BY CallStopSound, CallStopHimSound, CallLeaveRoomSound, CallFreeSound DEF Call

\* Every step.
LEMMA StepSound == IInv /\ [Next]_vars => IInv'
<1> SUFFICES ASSUME IInv, [Next]_vars
             PROVE  IInv'
  OBVIOUS
<1>1. CASE Round
  BY <1>1, RoundSound
<1>2. ASSUME NEW c \in Char,
             \/ Create(c) \/ SetMentalDelay(c) \/ Stun(c) \/ Recover(c)
             \/ Stop(c) \/ Spare(c) \/ LeaveRoom(c) \/ IdleIntoVoid(c)
             \/ Extract(c, TRUE) \/ Extract(c, FALSE)
             \/ Call(c)
      PROVE  IInv'
  <2>1. CASE Create(c) \/ SetMentalDelay(c)
    BY <2>1, CreateSound, SetMentalDelaySound
  <2>2. CASE Stun(c) \/ Recover(c)
    BY <2>2, StunSound
  <2>3. CASE Stop(c) \/ Spare(c) \/ LeaveRoom(c) \/ IdleIntoVoid(c)
    BY <2>3, DisengageSound
  <2>4. CASE Extract(c, TRUE) \/ Extract(c, FALSE)
    BY <2>4, ExtractSound
  <2>5. CASE Call(c)
    BY <2>5, CallSound
  <2> QED
    BY <1>2, <2>1, <2>2, <2>3, <2>4, <2>5
<1>3. ASSUME NEW c \in Char, NEW v \in Char, Engage(c, v) \/ Turn(c, v)
      PROVE  IInv'
  BY <1>3, EngageSound, TurnSound
<1>4. CASE UNCHANGED vars
  BY <1>4, StutterSound
<1> QED
  BY <1>1, <1>2, <1>3, <1>4 DEF Next

\* The inductive invariant holds in every state.
THEOREM Invariance == Spec => []IInv
<1>1. Init => IInv
  BY InitSound
<1>2. IInv /\ [Next]_vars => IInv'
  BY StepSound
<1> QED
  BY <1>1, <1>2, PTL DEF Spec

\* The state of fight.cpp's list has its type.
THEOREM TypeCorrect == Spec => []TypeOK
<1>1. IInv => TypeOK
  BY DEF IInv
<1> QED
  BY <1>1, Invariance, PTL

\* combat_list holds nobody twice and perform_violence always goes on from a
\* member of it, whoever a blow removes.
THEOREM ListStaysSound == Spec => []ListSound
<1>1. IInv => ListSound
  BY DEF IInv
<1> QED
  BY <1>1, Invariance, PTL

\* Nobody in the list is freed memory or fights freed memory.
THEOREM TargetsStayAlive == Spec => []TargetsExist
<1>1. IInv => TargetsExist
  BY DEF IInv
<1> QED
  BY <1>1, Invariance, PTL

\* When extract_char frees a character, it is in nobody's way: out of the list
\* and fought by nobody in it.
THEOREM TheDeadAreLeftAlone == Spec => []NobodyTurnsToTheDead
<1>1. IInv => NobodyTurnsToTheDead
  <2> SUFFICES ASSUME IInv, agenda # <<>>, Head(agenda)[1] = "free"
               PROVE  LET c == Head(agenda)[2]
                      IN  c \notin Members(list) /\ \A d \in Members(list) : fighting[d] # c
    BY DEF NobodyTurnsToTheDead
  <2> DEFINE c == Head(agenda)[2]
  <2>1. Head(agenda) \in Op \X Char
    BY DEF IInv, TypeOK
  <2>2. c \in Char /\ Due("free", c)
    BY <2>1 DEF Due
  <2> HIDE DEF c
  <2>3. ToFree(c)
    BY <2>2, FreeIsLast DEF IInv
  <2>4. c \notin Members(list) /\ \A d \in Members(list) : fighting[d] # c
    BY <2>3 DEF ToFree, Unfought
  <2> QED
    BY <2>4 DEF c
<1> QED
  BY <1>1, Invariance, PTL

-----------------------------------------------------------------------------
(* Who comes to fight outside the list.                                    *)

\* Only stop_fighting, called for somebody who is not fighting, may leave c
\* fighting outside the list.
StraysOnly(c) == Stray(c)' => Stray(c) \/ (Due("stop", c) /\ fighting[c] = None)

\* stop_fighting makes a stray of one who was not fighting, and of no other.
LEMMA StopFightingStrays ==
    ASSUME NEW c \in Char, NEW e \in Char, TypeOK, ListSound, StopFighting(c),
           Stray(e)', ~ Stray(e)
    PROVE  e = c /\ fighting[c] = None /\ c \notin Members(list)
<1>1. /\ Members(list') = Members(list) \/ Members(list') = Members(list) \ {c}
      /\ \A d \in Char : d # c => fighting'[d] = fighting[d]
      /\ fighting'[c] # None => Members(list') = Members(list)
  BY StopFightingSound
<1> QED
  BY <1>1 DEF Stray

\* set_fighting makes no stray.
LEMMA SetFightingStrays ==
    ASSUME NEW c \in Char, NEW v \in Char \cup {None}, NEW e \in Char, TypeOK, ListSound,
           SetFighting(c, v), next_dude' = next_dude
    PROVE  StraysOnly(e)
<1>1. /\ Members(list) \subseteq Members(list')
      /\ \A d \in Char : d # c => fighting'[d] = fighting[d]
      /\ fighting'[c] # fighting[c] => c \in Members(list')
  BY SetFightingSound
<1> QED
  BY <1>1 DEF Stray, StraysOnly

\* No step makes a stray but that one.
LEMMA StepStrays ==
    ASSUME NEW e \in Char, IInv, [Next]_vars
    PROVE  StraysOnly(e)
<1>0. TypeOK /\ ListSound
  BY DEF IInv
<1>1. CASE UNCHANGED <<list, fighting>>
  BY <1>1 DEF StraysOnly, Stray
<1>2. CASE Round \/ UNCHANGED vars
  <2>1. UNCHANGED <<list, fighting>>
    BY <1>2 DEF Round, StartRound, Meditate, Gather, Attack, EndAttack, NobodyThere, vars
  <2> QED
    BY <1>1, <2>1
<1>3. ASSUME NEW c \in Char, Create(c)
      PROVE  StraysOnly(e)
  BY <1>0, <1>3 DEF TypeOK, Create, StraysOnly, Stray
<1>4. ASSUME NEW c \in Char, SetMentalDelay(c)
      PROVE  StraysOnly(e)
  <2>1. CASE c \in delayed
    BY <1>1, <1>4, <2>1 DEF SetMentalDelay
  <2>2. CASE c \notin delayed
    BY <1>0, <1>4, <2>2, SetFightingStrays DEF SetMentalDelay
  <2> QED
    BY <2>1, <2>2
<1>5. ASSUME NEW c \in Char,
             \/ Stun(c) \/ Recover(c)
             \/ Stop(c) \/ Spare(c) \/ LeaveRoom(c) \/ IdleIntoVoid(c)
             \/ Extract(c, TRUE) \/ Extract(c, FALSE)
      PROVE  StraysOnly(e)
  <2>1. UNCHANGED <<list, fighting>>
    BY <1>5 DEF Stun, Recover, Stop, Spare, LeaveRoom, IdleIntoVoid, Extract, Run
  <2> QED
    BY <1>1, <2>1
<1>6. ASSUME NEW c \in Char, Call(c)
      PROVE  StraysOnly(e)
  <2>1. CASE CallStop(c)
    BY <1>0, <2>1, StopFightingStrays DEF CallStop, StraysOnly
  <2>2. CASE CallStopHim(c)
    <3>1. CASE \E d \in Members(list) : fighting[d] = c
      <4>1. PICK i \in 1..Len(list) : StopFighting(list[i])
        BY <2>2, <3>1 DEF CallStopHim
      <4>2. list[i] \in Char /\ list[i] \in Members(list)
        BY <1>0 DEF TypeOK, Members
      <4> QED
        BY <1>0, <4>1, <4>2, StopFightingStrays DEF StraysOnly
    <3>2. CASE ~ \E d \in Members(list) : fighting[d] = c
      BY <1>1, <2>2, <3>2 DEF CallStopHim
    <3> QED
      BY <3>1, <3>2
  <2>3. CASE CallLeaveRoom(c) \/ CallFree(c)
    BY <1>1, <2>3 DEF CallLeaveRoom, CallFree
  <2> QED
    BY <1>6, <2>1, <2>2, <2>3 DEF Call
<1>7. ASSUME NEW c \in Char, NEW v \in Char, Engage(c, v)
      PROVE  StraysOnly(e)
  BY <1>0, <1>7, SetFightingStrays DEF Engage
<1>8. ASSUME NEW c \in Char, NEW v \in Char, Turn(c, v)
      PROVE  StraysOnly(e)
  <2>1. fighting \in [Char -> Char \cup {None}]
    BY <1>0 DEF TypeOK
  <2>2. /\ list' = list /\ fighting[c] # None
        /\ \A d \in Char : d # c => fighting'[d] = fighting[d]
    BY <1>8, <2>1 DEF Turn
  <2> QED
    BY <2>2 DEF StraysOnly, Stray
<1> QED
  BY <1>2, <1>3, <1>4, <1>5, <1>6, <1>7, <1>8 DEF Next

\* A character that fights outside combat_list, where perform_violence never
\* serves it, got there in one way only.
THEOREM StraysComeFromTheVoid == Spec => OnlyTheVoidStrays
<1>1. IInv /\ IInv' /\ [Next]_vars =>
         [\A c \in live' : Stray(c)' => \/ Stray(c)
                                        \/ Due("stop", c) /\ fighting[c] = None]_vars
  <2> SUFFICES ASSUME IInv, IInv', [Next]_vars, NEW c \in live', Stray(c)'
               PROVE  Stray(c) \/ (Due("stop", c) /\ fighting[c] = None)
    OBVIOUS
  <2>1. c \in Char
    BY DEF IInv, TypeOK
  <2> QED
    BY <2>1, StepStrays DEF StraysOnly
<1> QED
  BY <1>1, Invariance, PTL DEF Spec, OnlyTheVoidStrays

-----------------------------------------------------------------------------
(* The loop of char_from_room.  While it turns, the agenda is the rest of  *)
(* one turn and nothing else, and what bounds the turns is how many are    *)
(* left who fight the character: its opponent of the moment is one of them *)
(* from the second turn on, and stops fighting it in that turn.            *)

Attackers(c) == {d \in Char : fighting[d] = c}

NobodyFightsItself == \A c \in Char : fighting[c] # c

\* Whatever function takes a character out of a room does it last, but for
\* freeing it.
OnlyFreeAfterLeaving ==
    \A i, j \in 1..Len(agenda) :
        i < j /\ agenda[i][1] = "leave_room" => agenda[j][1] = "free"

\* A turn has three calls to make, or two, or is over.
OpponentToStop(c) ==
    /\ Len(agenda) = 3
    /\ agenda[1] = <<"stop", fighting[c]>>
    /\ agenda[2] = <<"stop", c>>
    /\ agenda[3] = <<"leave_room", c>>
    /\ fighting[c] \in Attackers(c)
    /\ Cardinality(Attackers(c)) + turns <= Cardinality(Char)

ItselfToStop(c) ==
    /\ Len(agenda) = 2
    /\ agenda[1] = <<"stop", c>>
    /\ agenda[2] = <<"leave_room", c>>
    /\ fighting[c] \notin Attackers(c)
    /\ Cardinality(Attackers(c)) + turns < Cardinality(Char)

ToLookAgain(c) ==
    /\ Len(agenda) = 1
    /\ agenda[1] = <<"leave_room", c>>
    /\ fighting[c] \in Attackers(c) \cup {None}
    /\ Cardinality(Attackers(c)) + turns < Cardinality(Char)

TurnsSound ==
    /\ turns \in Nat
    /\ NobodyFightsItself
    /\ OnlyFreeAfterLeaving
    /\ turns # 0 => \E c \in Char : OpponentToStop(c) \/ ItselfToStop(c) \/ ToLookAgain(c)

LEMMA AttackersFinite ==
    ASSUME NEW c \in Char
    PROVE  /\ Cardinality(Char) \in Nat \ {0}
           /\ Cardinality(Attackers(c)) \in Nat
           /\ \A d \in Attackers(c) :
                 /\ Cardinality(Attackers(c)) >= 1
                 /\ Cardinality(Attackers(c) \ {d}) = Cardinality(Attackers(c)) - 1
<1>1. IsFiniteSet(Char) /\ Attackers(c) \in SUBSET Char
  BY CharAssumption DEF Attackers
<1>2. IsFiniteSet(Attackers(c))
  BY <1>1, FS_Subset
<1>3. Cardinality(Char) \in Nat /\ Cardinality(Attackers(c)) \in Nat
  BY <1>1, <1>2, FS_CardinalityType
<1>4. Cardinality(Char) # 0
  BY <1>1, FS_EmptySet
<1>5. ASSUME NEW d \in Attackers(c)
      PROVE  /\ Cardinality(Attackers(c)) >= 1
             /\ Cardinality(Attackers(c) \ {d}) = Cardinality(Attackers(c)) - 1
  <2>1. Cardinality(Attackers(c)) # 0
    BY <1>2, <1>5, FS_EmptySet
  <2>2. Cardinality(Attackers(c) \ {d}) = Cardinality(Attackers(c)) - 1
    BY <1>2, <1>5, FS_RemoveElement
  <2> QED
    BY <1>3, <2>1, <2>2
<1> QED
  BY <1>3, <1>4, <1>5

\* At most all the others fight c, and one fewer if its opponent does not.
LEMMA AttackersAreOthers ==
    ASSUME TypeOK, NobodyFightsItself, NEW c \in Char
    PROVE  /\ Cardinality(Attackers(c)) < Cardinality(Char)
           /\ fighting[c] \in Char \ Attackers(c)
                 => Cardinality(Attackers(c)) + 1 < Cardinality(Char)
<1> DEFINE others == Char \ {c}
           rest == others \ {fighting[c]}
<1>1. IsFiniteSet(Char) /\ Cardinality(Char) \in Nat \ {0} /\ Cardinality(Attackers(c)) \in Nat
  BY CharAssumption, AttackersFinite
<1>2. IsFiniteSet(others) /\ Cardinality(others) = Cardinality(Char) - 1
  BY <1>1, FS_RemoveElement
<1>3. Attackers(c) \in SUBSET others
  BY DEF Attackers, NobodyFightsItself
<1>4. Cardinality(Attackers(c)) <= Cardinality(others)
  BY <1>2, <1>3, FS_Subset
<1>5. ASSUME fighting[c] \in Char \ Attackers(c)
      PROVE  Cardinality(Attackers(c)) + 1 < Cardinality(Char)
  <2>1. fighting[c] \in others /\ Attackers(c) \in SUBSET rest
    BY <1>3, <1>5 DEF NobodyFightsItself
  <2>2. IsFiniteSet(rest) /\ Cardinality(rest) = Cardinality(others) - 1
    BY <1>2, <2>1, FS_RemoveElement
  <2>3. Cardinality(Attackers(c)) <= Cardinality(rest)
    BY <2>1, <2>2, FS_Subset
  <2> HIDE DEF rest, others
  <2> QED
    BY <1>1, <1>2, <2>2, <2>3
<1> HIDE DEF others
<1> QED
  BY <1>1, <1>2, <1>4, <1>5

\* stop_fighting turns c to somebody who fights it and whom it was not fighting.
LEMMA StopFightingTurns ==
    ASSUME TypeOK, NobodyFightsItself, NEW c \in Char, StopFighting(c)
    PROVE  /\ fighting' \in [Char -> Char \cup {None}]
           /\ \A d \in Char : d # c => fighting'[d] = fighting[d]
           /\ fighting'[c] # None => /\ fighting'[c] \in Attackers(c) \ {c}
                                     /\ fighting'[c] # fighting[c]
<1>1. fighting \in [Char -> Char \cup {None}] /\ Members(list) \subseteq Char
  BY DEF TypeOK, Members
<1>2. PICK t \in OtherAttackers(c) \cup {None} :
         \/ fighting' = [fighting EXCEPT ![c] = None]
         \/ fighting' = [fighting EXCEPT ![c] = t]
  BY DEF StopFighting
<1>3. t # None => t \in Attackers(c) \ {c} /\ t # fighting[c]
  BY <1>1, <1>2 DEF OtherAttackers, Attackers, NobodyFightsItself
<1>4. t \in Char \cup {None}
  BY <1>1, <1>2 DEF OtherAttackers
<1> QED
  BY <1>1, <1>2, <1>3, <1>4

LEMMA StopKeepsApart ==
    ASSUME TypeOK, NobodyFightsItself, NEW c \in Char, StopFighting(c)
    PROVE  NobodyFightsItself'
<1> SUFFICES ASSUME NEW d \in Char
             PROVE  fighting'[d] # d
  BY DEF NobodyFightsItself
<1>1. CASE d = c
  BY <1>1, StopFightingTurns, NoneAssumption
<1>2. CASE d # c
  BY <1>2, StopFightingTurns DEF NobodyFightsItself
<1> QED
  BY <1>1, <1>2

\* Nobody ever fights itself.
LEMMA StepKeepsApart ==
    ASSUME IInv, NobodyFightsItself, [Next]_vars
    PROVE  NobodyFightsItself'
<1>0. TypeOK /\ fighting \in [Char -> Char \cup {None}]
  BY DEF IInv, TypeOK
<1>1. CASE UNCHANGED fighting
  BY <1>1 DEF NobodyFightsItself
<1>2. CASE Round \/ UNCHANGED vars
  BY <1>1, <1>2 DEF Round, StartRound, Meditate, Gather, Attack, EndAttack, NobodyThere, vars
<1>3. ASSUME NEW c \in Char, NEW v \in Char \cup {None}, SetFighting(c, v)
      PROVE  NobodyFightsItself'
  BY <1>0, <1>3 DEF SetFighting, NobodyFightsItself
<1>4. ASSUME NEW c \in Char, Create(c)
      PROVE  NobodyFightsItself'
  BY <1>0, <1>4, NoneAssumption DEF Create, NobodyFightsItself
<1>5. ASSUME NEW c \in Char,
             \/ SetMentalDelay(c) \/ Stun(c) \/ Recover(c)
             \/ Stop(c) \/ Spare(c) \/ LeaveRoom(c) \/ IdleIntoVoid(c)
             \/ Extract(c, TRUE) \/ Extract(c, FALSE)
      PROVE  NobodyFightsItself'
  <2>1. CASE SetMentalDelay(c)
    BY <1>1, <1>3, <2>1 DEF SetMentalDelay
  <2>2. CASE ~ SetMentalDelay(c)
    <3>1. UNCHANGED fighting
      BY <1>5, <2>2 DEF Stun, Recover, Stop, Spare, LeaveRoom, IdleIntoVoid, Extract, Run
    <3> QED
      BY <1>1, <3>1
  <2> QED
    BY <2>1, <2>2
<1>6. ASSUME NEW c \in Char, Call(c)
      PROVE  NobodyFightsItself'
  <2>1. CASE CallStop(c)
    BY <1>0, <2>1, StopKeepsApart DEF CallStop
  <2>2. CASE CallStopHim(c)
    <3>1. CASE \E d \in Members(list) : fighting[d] = c
      <4>1. PICK i \in 1..Len(list) : StopFighting(list[i])
        BY <2>2, <3>1 DEF CallStopHim
      <4>2. list[i] \in Char
        BY <1>0 DEF TypeOK
      <4> QED
        BY <1>0, <4>1, <4>2, StopKeepsApart
    <3>2. CASE ~ \E d \in Members(list) : fighting[d] = c
      BY <1>1, <2>2, <3>2 DEF CallStopHim
    <3> QED
      BY <3>1, <3>2
  <2>3. CASE CallLeaveRoom(c) \/ CallFree(c)
    BY <1>1, <2>3 DEF CallLeaveRoom, CallFree
  <2> QED
    BY <1>6, <2>1, <2>2, <2>3 DEF Call
<1>7. ASSUME NEW c \in Char, NEW v \in Char, Engage(c, v) \/ Turn(c, v)
      PROVE  NobodyFightsItself'
  <2>1. CASE Engage(c, v)
    BY <1>3, <2>1 DEF Engage
  <2>2. CASE Turn(c, v)
    BY <1>0, <2>2 DEF Turn, NobodyFightsItself
  <2> QED
    BY <1>7, <2>1, <2>2
<1> QED
  BY <1>2, <1>4, <1>5, <1>6, <1>7 DEF Next

\* Dropping the first call keeps the rest in place.
LEMMA TailCalls ==
    ASSUME NEW ops \in Seq(Op \X Char), ops # <<>>
    PROVE  /\ Head(ops) = ops[1]
           /\ Len(ops) \in Nat \ {0}
           /\ Len(Tail(ops)) = Len(ops) - 1
           /\ \A i \in 1..Len(Tail(ops)) : Tail(ops)[i] = ops[i + 1]
BY EmptySeq, HeadTailProperties

\* The calls of one turn, by their place.
LEMMA TurnCalls ==
    ASSUME TypeOK, NEW c \in Char, fighting[c] # None
    PROVE  LET ops == LeaveRoomTurn(c)
           IN  IF fighting[fighting[c]] = c
               THEN /\ Len(ops) = 3
                    /\ ops[1] = <<"stop", fighting[c]>>
                    /\ ops[2] = <<"stop", c>>
                    /\ ops[3] = <<"leave_room", c>>
               ELSE /\ Len(ops) = 2
                    /\ ops[1] = <<"stop", c>>
                    /\ ops[2] = <<"leave_room", c>>
<1> DEFINE o == <<"stop", fighting[c]>>
           a == <<"stop", c>>
           b == <<"leave_room", c>>
<1>1. o \in Op \X Char /\ a \in Op \X Char /\ b \in Op \X Char
  BY DEF TypeOK, Op
<1> HIDE DEF o, a, b
<1>2. <<>> \o <<a, b>> = <<a, b>>
  <2>1. <<a, b>> \in Seq(Op \X Char)
    BY <1>1
  <2> QED
    BY <2>1, ConcatEmptySeq
<1>3. /\ Len(<<o>> \o <<a, b>>) = 3
      /\ (<<o>> \o <<a, b>>)[1] = o
      /\ (<<o>> \o <<a, b>>)[2] = a
      /\ (<<o>> \o <<a, b>>)[3] = b
  <2> DEFINE r == <<o>>
             t == <<a, b>>
  <2>1. /\ r \in Seq(Op \X Char) /\ Len(r) = 1 /\ r[1] = o
        /\ t \in Seq(Op \X Char) /\ Len(t) = 2 /\ t[1] = a /\ t[2] = b
    BY <1>1
  <2> HIDE DEF r, t
  <2>2. /\ Len(r \o t) = Len(r) + Len(t)
        /\ \A i \in 1..(Len(r) + Len(t)) :
              (r \o t)[i] = IF i <= Len(r) THEN r[i] ELSE t[i - Len(r)]
    BY <2>1, ConcatProperties
  <2>3. Len(r \o t) = 3 /\ (r \o t)[1] = o /\ (r \o t)[2] = a /\ (r \o t)[3] = b
    BY <2>1, <2>2
  <2> QED
    BY <2>3 DEF r, t
<1>4. LeaveRoomTurn(c) = (IF fighting[fighting[c]] = c THEN <<o>> ELSE <<>>) \o <<a, b>>
  BY DEF LeaveRoomTurn, o, a, b
<1>5. CASE fighting[fighting[c]] = c
  BY <1>3, <1>4, <1>5 DEF o, a, b
<1>6. CASE fighting[fighting[c]] # c
  <2>1. LeaveRoomTurn(c) = <<a, b>>
    BY <1>2, <1>4, <1>6
  <2> QED
    BY <1>6, <2>1 DEF a, b
<1> QED
  BY <1>5, <1>6

\* Who still fights when char_from_room looks is being freed by nobody, so the
\* turn is all the running function still has to do.
LEMMA TurnIsAll ==
    ASSUME IInv, OnlyFreeAfterLeaving, NEW c \in Char, CallLeaveRoom(c), fighting[c] # None
    PROVE  Len(agenda) = 1 /\ agenda' = LeaveRoomTurn(c)
<1>0. /\ TypeOK /\ AgendaSound /\ Due("leave_room", c)
      /\ agenda # <<>> /\ agenda \in Seq(Op \X Char) /\ Head(agenda) = <<"leave_room", c>>
  BY DEF IInv, TypeOK, CallLeaveRoom, Due
<1>1. NoFree(agenda)
  BY <1>0, StageDue DEF AgendaSound, Op, ToLeave
<1>2. /\ Head(agenda) = agenda[1]
      /\ Len(agenda) \in Nat \ {0}
      /\ Len(Tail(agenda)) = Len(agenda) - 1
  BY <1>0, TailCalls
<1>3. Len(agenda) = 1
  <2>1. \A j \in 1..Len(agenda) : 1 < j => agenda[j][1] = "free"
    BY <1>0, <1>2 DEF OnlyFreeAfterLeaving
  <2> QED
    BY <1>1, <1>2, <2>1 DEF NoFree
<1>4. Tail(agenda) = <<>>
  <2>1. Tail(agenda) \in Seq(Op \X Char) /\ Len(Tail(agenda)) = 0
    BY <1>0, <1>2, <1>3
  <2> QED
    BY <2>1, EmptySeq
<1>5. LeaveRoomTurn(c) \in Seq(Op \X Char)
  BY <1>0, LeaveRoomTurnTyped
<1>6. agenda' = LeaveRoomTurn(c) \o <<>>
  BY <1>4 DEF CallLeaveRoom
<1> QED
  BY <1>3, <1>5, <1>6, ConcatEmptySeq

\* The list of calls of a function that starts, or what is left of it.
LEMMA StepKeepsLeavingLast ==
    ASSUME IInv, OnlyFreeAfterLeaving, [Next]_vars
    PROVE  OnlyFreeAfterLeaving'
<1>0. TypeOK /\ agenda \in Seq(Op \X Char)
  BY DEF IInv, TypeOK
<1>1. CASE UNCHANGED agenda
  BY <1>1 DEF OnlyFreeAfterLeaving
<1>2. CASE agenda # <<>> /\ agenda' = Tail(agenda)
  <2>1. /\ Len(agenda) \in Nat \ {0}
        /\ Len(agenda') = Len(agenda) - 1
        /\ \A i \in 1..Len(agenda') : agenda'[i] = agenda[i + 1]
    BY <1>0, <1>2, TailCalls
  <2> SUFFICES ASSUME NEW i \in 1..Len(agenda'), NEW j \in 1..Len(agenda'),
                      i < j, agenda'[i][1] = "leave_room"
               PROVE  agenda'[j][1] = "free"
    BY DEF OnlyFreeAfterLeaving
  <2>2. i + 1 \in 1..Len(agenda) /\ j + 1 \in 1..Len(agenda) /\ i + 1 < j + 1
    BY <2>1
  <2> QED
    BY <2>1, <2>2 DEF OnlyFreeAfterLeaving
<1>3. CASE Round \/ UNCHANGED vars
  <2>1. agenda' = agenda \/ agenda' = << <<"stop", at>> >>
    BY <1>3 DEF Round, StartRound, Meditate, Gather, Attack, EndAttack, NobodyThere, vars
  <2> QED
    BY <1>1, <2>1 DEF OnlyFreeAfterLeaving
<1>4. ASSUME NEW c \in Char, Stop(c) \/ Spare(c) \/ LeaveRoom(c) \/ IdleIntoVoid(c)
      PROVE  OnlyFreeAfterLeaving'
  BY <1>4 DEF Stop, Spare, LeaveRoom, IdleIntoVoid, Run, OnlyFreeAfterLeaving
<1>5. ASSUME NEW c \in Char, NEW freed \in BOOLEAN, Extract(c, freed)
      PROVE  OnlyFreeAfterLeaving'
  <2> DEFINE h == <<"stop_him", c>>
             a == <<"stop", c>>
             b == <<"leave_room", c>>
             f == <<"free", c>>
  <2>1. h \in Op \X Char /\ a \in Op \X Char /\ b \in Op \X Char /\ f \in Op \X Char
    BY DEF Op
  <2>2. /\ h[1] # "leave_room" /\ a[1] # "leave_room" /\ f[1] = "free" /\ f[1] # "leave_room"
        /\ agenda' = <<h, a, b>> \o (IF freed THEN <<f>> ELSE <<>>)
    BY <1>5 DEF Extract, Run
  <2> HIDE DEF h, a, b, f
  <2>3. /\ <<h, a, b>> \o <<f>> = <<h, a, b, f>>
        /\ <<h, a, b>> \o <<>> = <<h, a, b>>
    BY <2>1, CallsJoined
  <2>4. /\ Len(agenda') = 3 \/ (Len(agenda') = 4 /\ agenda'[4] = f)
        /\ agenda'[1] = h /\ agenda'[2] = a /\ agenda'[3] = b
    <3>1. CASE freed
      <4>1. agenda' = <<h, a, b, f>>
        BY <2>2, <2>3, <3>1
      <4> QED
        BY <4>1
    <3>2. CASE ~ freed
      <4>1. agenda' = <<h, a, b>>
        BY <2>2, <2>3, <3>2
      <4> QED
        BY <4>1
    <3> QED
      BY <3>1, <3>2
  <2>5. \A i \in 1..Len(agenda') : agenda'[i][1] = "leave_room" => i = 3
    BY <2>2, <2>4
  <2>6. \A j \in 1..Len(agenda') : 3 < j => agenda'[j][1] = "free"
    BY <2>2, <2>4
  <2> QED
    BY <2>5, <2>6 DEF OnlyFreeAfterLeaving
<1>6. ASSUME NEW c \in Char, CallLeaveRoom(c), fighting[c] # None
      PROVE  OnlyFreeAfterLeaving'
  <2>1. agenda' = LeaveRoomTurn(c)
    BY <1>0, <1>6, TurnIsAll
  <2>2. \/ /\ Len(agenda') = 3
           /\ agenda'[1] = <<"stop", fighting[c]>>
           /\ agenda'[2] = <<"stop", c>>
        \/ Len(agenda') = 2 /\ agenda'[1] = <<"stop", c>>
    BY <1>0, <1>6, <2>1, TurnCalls
  <2>3. /\ Len(agenda') \in {2, 3} /\ agenda'[1][1] = "stop"
        /\ Len(agenda') = 3 => agenda'[2][1] = "stop"
    BY <2>2
  <2>4. ASSUME NEW i \in 1..Len(agenda'), NEW j \in 1..Len(agenda'), i < j
        PROVE  agenda'[i][1] = "stop"
    <3>1. CASE Len(agenda') = 2
      <4>1. i = 1
        BY <2>4, <3>1
      <4> QED
        BY <2>3, <4>1
    <3>2. CASE Len(agenda') = 3
      <4>1. i = 1 \/ i = 2
        BY <2>4, <3>2
      <4> QED
        BY <2>3, <3>2, <4>1
    <3> QED
      BY <2>3, <3>1, <3>2
  <2> QED
    BY <2>4 DEF OnlyFreeAfterLeaving
<1>7. ASSUME NEW c \in Char, Call(c)
      PROVE  OnlyFreeAfterLeaving'
  <2>1. CASE CallStop(c) \/ CallFree(c) \/ CallStopHim(c)
    BY <1>1, <1>2, <2>1 DEF CallStop, CallFree, CallStopHim, Due
  <2>2. CASE CallLeaveRoom(c)
    BY <1>2, <1>6, <2>2 DEF CallLeaveRoom, Due
  <2> QED
    BY <1>7, <2>1, <2>2 DEF Call
<1>8. ASSUME NEW c \in Char, Create(c) \/ SetMentalDelay(c) \/ Stun(c) \/ Recover(c)
      PROVE  OnlyFreeAfterLeaving'
  BY <1>1, <1>8 DEF Create, SetMentalDelay, Stun, Recover
<1>9. ASSUME NEW c \in Char, NEW v \in Char, Engage(c, v) \/ Turn(c, v)
      PROVE  OnlyFreeAfterLeaving'
  BY <1>1, <1>9 DEF Engage, Turn
<1> QED
  BY <1>3, <1>4, <1>5, <1>7, <1>8, <1>9 DEF Next

\* stop_fighting(d), called from a turn of c.
LEMMA StopInTurn ==
    ASSUME TypeOK, NobodyFightsItself, NEW c \in Char, NEW d \in Char, StopFighting(d)
    PROVE  /\ d = c => /\ Attackers(c)' = Attackers(c)
                       /\ fighting[c] \notin Attackers(c) =>
                             fighting'[c] \in Attackers(c) \cup {None}
           /\ d = fighting[c] /\ d \in Attackers(c) =>
                 /\ Attackers(c)' = Attackers(c) \ {d}
                 /\ fighting'[c] = d
<1>1. /\ fighting \in [Char -> Char \cup {None}]
      /\ fighting' \in [Char -> Char \cup {None}]
      /\ \A e \in Char : e # d => fighting'[e] = fighting[e]
      /\ fighting'[d] # None => /\ fighting'[d] \in Attackers(d) \ {d}
                                /\ fighting'[d] # fighting[d]
  BY StopFightingTurns DEF TypeOK
<1>2. CASE d = c
  <2>1. c \notin Attackers(c) /\ fighting'[c] # c
    BY <1>1, <1>2, NoneAssumption DEF Attackers, NobodyFightsItself
  <2> QED
    BY <1>1, <1>2, <2>1 DEF Attackers, NobodyFightsItself
<1>3. CASE d = fighting[c] /\ d \in Attackers(c)
  <2>1. fighting[d] = c /\ d # c
    BY <1>3 DEF Attackers, NobodyFightsItself
  <2>2. fighting'[d] # c
    BY <1>1, <2>1, NoneAssumption
  <2> QED
    BY <1>1, <1>3, <2>1, <2>2 DEF Attackers
<1> QED
  BY <1>2, <1>3

\* Only the call that is due is made.
LEMMA OnlyWhatIsDue ==
    ASSUME NEW op, NEW c, NEW e, Call(c), Head(agenda) = <<op, e>>
    PROVE  /\ c = e /\ Due(op, e)
           /\ op = "stop" => CallStop(e)
           /\ op = "leave_room" => CallLeaveRoom(e)
<1>1. CASE CallStop(c)
  <2>1. agenda # <<>> /\ op = "stop" /\ c = e
    BY <1>1 DEF CallStop, Due
  <2> QED
    BY <1>1, <2>1 DEF Due
<1>2. CASE CallStopHim(c)
  <2>1. agenda # <<>> /\ op = "stop_him" /\ c = e
    BY <1>2 DEF CallStopHim, Due
  <2> QED
    BY <2>1 DEF Due
<1>3. CASE CallLeaveRoom(c)
  <2>1. agenda # <<>> /\ op = "leave_room" /\ c = e
    BY <1>3 DEF CallLeaveRoom, Due
  <2> QED
    BY <1>3, <2>1 DEF Due
<1>4. CASE CallFree(c)
  <2>1. agenda # <<>> /\ op = "free" /\ c = e
    BY <1>4 DEF CallFree, Due
  <2> QED
    BY <2>1 DEF Due
<1> QED
  BY <1>1, <1>2, <1>3, <1>4 DEF Call

\* Every step keeps the count below the number of those it has cost.
LEMMA StepTurns ==
    ASSUME IInv, TurnsSound, TurnsNext
    PROVE  TurnsSound'
<1>0. /\ TypeOK /\ agenda \in Seq(Op \X Char) /\ turns \in Nat
      /\ fighting \in [Char -> Char \cup {None}]
      /\ NobodyFightsItself /\ OnlyFreeAfterLeaving /\ [Next]_vars
  BY DEF IInv, TypeOK, TurnsSound, TurnsNext
<1>1. NobodyFightsItself' /\ OnlyFreeAfterLeaving'
  BY <1>0, StepKeepsApart, StepKeepsLeavingLast
<1>2. CASE turns' = 0
  BY <1>1, <1>2 DEF TurnsSound
<1>3. CASE turns' # 0
  <2>1. agenda' # <<>> /\ turns' = IF Turning THEN turns + 1 ELSE turns
    BY <1>3 DEF TurnsNext
  <2>2. turns' \in Nat
    BY <1>0, <2>1
  <2>3. agenda # <<>>
    BY <1>0, <1>3, <2>1, EmptySeq DEF TurnsSound, OpponentToStop, ItselfToStop, ToLookAgain,
       Turning, Due
  <2>4. PICK c \in Char : Call(c)
    <3>1. ~ Elsewhere
      BY <2>3 DEF Elsewhere
    <3>2. ~ Round
      BY <2>3 DEF Round, StartRound, Walking, Meditate, Gather, Attack, EndAttack, NobodyThere
    <3> QED
      BY <3>1, <3>2 DEF TurnsNext, Next, Create, SetMentalDelay, Stun, Recover, Stop, Spare,
         LeaveRoom, IdleIntoVoid, Extract, Run, Engage, Turn
  <2>5. /\ Head(agenda) = agenda[1]
        /\ Len(agenda) \in Nat \ {0}
        /\ Len(Tail(agenda)) = Len(agenda) - 1
        /\ \A i \in 1..Len(Tail(agenda)) : Tail(agenda)[i] = agenda[i + 1]
    BY <1>0, <2>3, TailCalls
  <2>6. agenda' = Tail(agenda) =>
          /\ Len(agenda') = Len(agenda) - 1
          /\ \A i \in 1..Len(agenda') : agenda'[i] = agenda[i + 1]
    BY <1>0, <2>3, TailCalls
  <2>7. \A e \in Char : /\ Cardinality(Char) \in Nat
                        /\ Cardinality(Attackers(e)) \in Nat
    BY AttackersFinite
  <2>8. CASE Turning
    <3>1. PICK e \in Char : Due("leave_room", e) /\ fighting[e] # None
      BY <2>8 DEF Turning
    <3>2. CallLeaveRoom(e) /\ UNCHANGED fighting
      <4>1. Head(agenda) = <<"leave_room", e>>
        BY <3>1 DEF Due
      <4>2. CallLeaveRoom(e)
        BY <2>4, <4>1, OnlyWhatIsDue
      <4> QED
        BY <4>2 DEF CallLeaveRoom
    <3>3. Len(agenda) = 1 /\ agenda' = LeaveRoomTurn(e)
      BY <1>0, <3>1, <3>2, TurnIsAll
    <3>4. agenda[1] = <<"leave_room", e>>
      BY <2>5, <3>1 DEF Due
    <3>5. turns # 0 => /\ fighting[e] \in Attackers(e)
                       /\ Cardinality(Attackers(e)) + turns < Cardinality(Char)
      BY <3>1, <3>3, <3>4 DEF TurnsSound, OpponentToStop, ItselfToStop, ToLookAgain
    <3>6. fighting[e] \in Char /\ Attackers(e)' = Attackers(e)
      BY <1>0, <3>1, <3>2 DEF Attackers
    <3>7. CASE fighting[fighting[e]] = e
      <4>1. fighting[e] \in Attackers(e)
        BY <3>6, <3>7 DEF Attackers
      <4>2. Cardinality(Attackers(e)) + turns < Cardinality(Char)
        BY <1>0, <2>7, <3>5, AttackersAreOthers
      <4>3. /\ Len(agenda') = 3 /\ agenda'[1] = <<"stop", fighting[e]>>
            /\ agenda'[2] = <<"stop", e>> /\ agenda'[3] = <<"leave_room", e>>
        BY <1>0, <3>1, <3>3, <3>7, TurnCalls
      <4>4. Cardinality(Attackers(e)) + turns' <= Cardinality(Char)
        BY <1>0, <2>1, <2>7, <2>8, <4>2
      <4>5. OpponentToStop(e)'
        BY <3>2, <3>6, <4>1, <4>3, <4>4 DEF OpponentToStop
      <4> QED
        BY <1>1, <2>2, <4>5 DEF TurnsSound
    <3>8. CASE fighting[fighting[e]] # e
      <4>1. fighting[e] \in Char \ Attackers(e) /\ turns = 0
        BY <3>5, <3>6, <3>8 DEF Attackers
      <4>2. Cardinality(Attackers(e)) + 1 < Cardinality(Char)
        BY <1>0, <4>1, AttackersAreOthers
      <4>3. Len(agenda') = 2 /\ agenda'[1] = <<"stop", e>> /\ agenda'[2] = <<"leave_room", e>>
        BY <1>0, <3>1, <3>3, <3>8, TurnCalls
      <4>4. ItselfToStop(e)'
        BY <2>1, <2>8, <3>2, <3>6, <4>1, <4>2, <4>3 DEF ItselfToStop
      <4> QED
        BY <1>1, <2>2, <4>4 DEF TurnsSound
    <3> QED
      BY <3>7, <3>8
  <2>9. CASE ~ Turning
    <3>1. turns' = turns /\ turns # 0
      BY <1>3, <2>1, <2>9
    <3>2. PICK e \in Char : OpponentToStop(e) \/ ItselfToStop(e) \/ ToLookAgain(e)
      BY <3>1 DEF TurnsSound
    <3>3. CASE OpponentToStop(e)
      <4>0. Head(agenda) = <<"stop", fighting[e]>>
        BY <2>5, <3>3 DEF OpponentToStop
      <4>1. CallStop(c) /\ c = fighting[e] /\ agenda' = Tail(agenda)
        BY <2>4, <4>0, OnlyWhatIsDue DEF CallStop
      <4>2. /\ Attackers(e)' = Attackers(e) \ {c} /\ fighting'[e] = c
        BY <1>0, <3>3, <4>1, StopInTurn DEF CallStop, OpponentToStop
      <4>3. Cardinality(Attackers(e))' = Cardinality(Attackers(e)) - 1
        BY <3>3, <4>1, <4>2, AttackersFinite DEF OpponentToStop
      <4>4. Cardinality(Attackers(e))' + turns' < Cardinality(Char)
        BY <1>0, <2>7, <3>1, <3>3, <4>3 DEF OpponentToStop
      <4>5. Len(agenda') = 2 /\ agenda'[1] = <<"stop", e>> /\ agenda'[2] = <<"leave_room", e>>
        <5>1. Len(agenda) = 3 /\ agenda[2] = <<"stop", e>> /\ agenda[3] = <<"leave_room", e>>
          BY <3>3 DEF OpponentToStop
        <5>2. /\ Len(agenda') = Len(agenda) - 1
              /\ \A i \in 1..Len(agenda') : agenda'[i] = agenda[i + 1]
          BY <2>6, <4>1
        <5>3. Len(agenda') = 2
          BY <5>1, <5>2
        <5>4. agenda'[1] = agenda[1 + 1] /\ agenda'[2] = agenda[2 + 1]
          <6>1. 1 \in 1..Len(agenda') /\ 2 \in 1..Len(agenda')
            BY <5>3
          <6> QED
            BY <5>2, <6>1
        <5> QED
          BY <5>1, <5>3, <5>4
      <4>6. ItselfToStop(e)'
        BY <4>2, <4>4, <4>5 DEF ItselfToStop
      <4> QED
        BY <1>1, <2>2, <4>6 DEF TurnsSound
    <3>4. CASE ItselfToStop(e)
      <4>0. Head(agenda) = <<"stop", e>>
        BY <2>5, <3>4 DEF ItselfToStop
      <4>1. CallStop(c) /\ c = e /\ agenda' = Tail(agenda)
        BY <2>4, <4>0, OnlyWhatIsDue DEF CallStop
      <4>2. Attackers(e)' = Attackers(e) /\ fighting'[e] \in Attackers(e) \cup {None}
        BY <1>0, <3>4, <4>1, StopInTurn DEF CallStop, ItselfToStop
      <4>3. Len(agenda') = 1 /\ agenda'[1] = <<"leave_room", e>>
        <5>1. Len(agenda) = 2 /\ agenda[2] = <<"leave_room", e>>
          BY <3>4 DEF ItselfToStop
        <5>2. Len(agenda') = 1 /\ \A i \in 1..1 : agenda'[i] = agenda[i + 1]
          BY <2>6, <4>1, <5>1
        <5>3. agenda'[1] = agenda[2]
          BY <5>2
        <5> QED
          BY <5>1, <5>2, <5>3
      <4>4. ToLookAgain(e)'
        BY <3>1, <3>4, <4>2, <4>3 DEF ToLookAgain, ItselfToStop
      <4> QED
        BY <1>1, <2>2, <4>4 DEF TurnsSound
    <3>5. CASE ToLookAgain(e)
      <4>1. Due("leave_room", e) /\ CallLeaveRoom(e)
        <5>1. Head(agenda) = <<"leave_room", e>>
          BY <2>5, <3>5 DEF ToLookAgain
        <5> QED
          BY <2>4, <5>1, OnlyWhatIsDue
      <4>2. fighting[e] = None
        BY <2>9, <4>1 DEF Turning
      <4>3. agenda' = Tail(agenda) /\ Len(Tail(agenda)) = 0
        BY <2>5, <3>5, <4>1, <4>2 DEF CallLeaveRoom, ToLookAgain
      <4>4. agenda' = <<>>
        BY <1>0, <2>3, <4>3, TailTyped, EmptySeq
      <4> QED
        BY <2>1, <4>4
    <3> QED
      BY <3>2, <3>3, <3>4, <3>5
  <2> QED
    BY <2>8, <2>9
<1> QED
  BY <1>2, <1>3

LEMMA InitTurns == TurnsInit => TurnsSound
<1> SUFFICES ASSUME TurnsInit PROVE TurnsSound
  OBVIOUS
<1>1. agenda = <<>> /\ turns = 0 /\ \A c \in Char : fighting[c] = None
  BY DEF TurnsInit, Init
<1> QED
  BY <1>1, NoneAssumption DEF TurnsSound, NobodyFightsItself, OnlyFreeAfterLeaving

\* The history changes nothing: what is proved of Spec holds of TurnsSpec.
THEOREM HistoryOnly == TurnsSpec => Spec
<1>1. TurnsInit => Init
  BY DEF TurnsInit
<1>2. [TurnsNext]_turnsVars => [Next]_vars
  BY DEF TurnsNext, turnsVars
<1> QED
  BY <1>1, <1>2, PTL DEF TurnsSpec, Spec

\* For any number of characters, whoever fights the one that leaves the room,
\* is stopped and turns to another of its own attackers: the loop takes fewer
\* turns than there are characters.
THEOREM LeavingEnds == TurnsSpec => []LeavingCostsAttackers
<1>1. TurnsInit => IInv /\ TurnsSound
  BY InitSound, InitTurns DEF TurnsInit
<1>2. IInv /\ TurnsSound /\ [TurnsNext]_turnsVars => IInv' /\ TurnsSound'
  <2> SUFFICES ASSUME IInv, TurnsSound, [TurnsNext]_turnsVars
               PROVE  IInv' /\ TurnsSound'
    OBVIOUS
  <2>1. IInv'
    BY StepSound DEF TurnsNext, turnsVars
  <2>2. CASE TurnsNext
    BY <2>1, <2>2, StepTurns
  <2>3. CASE UNCHANGED turnsVars
    <3>1. UNCHANGED <<agenda, fighting, turns>>
      BY <2>3 DEF turnsVars, vars
    <3>2. \A c \in Char : Attackers(c)' = Attackers(c)
      BY <3>1 DEF Attackers
    <3>3. \A c \in Char : /\ OpponentToStop(c) => OpponentToStop(c)'
                          /\ ItselfToStop(c) => ItselfToStop(c)'
                          /\ ToLookAgain(c) => ToLookAgain(c)'
      BY <3>1, <3>2 DEF OpponentToStop, ItselfToStop, ToLookAgain
    <3>4. NobodyFightsItself' /\ OnlyFreeAfterLeaving'
      BY <3>1 DEF TurnsSound, NobodyFightsItself, OnlyFreeAfterLeaving
    <3> QED
      BY <2>1, <3>1, <3>3, <3>4 DEF TurnsSound
  <2> QED
    BY <2>1, <2>2, <2>3
<1>3. TurnsSound => LeavingCostsAttackers
  <2> SUFFICES ASSUME TurnsSound PROVE turns < Cardinality(Char)
    BY DEF LeavingCostsAttackers
  <2>1. turns \in Nat
    BY DEF TurnsSound
  <2>2. CASE turns = 0
    <3>1. PICK c : c \in Char
      BY CharAssumption
    <3> QED
      BY <2>2, <3>1, AttackersFinite
  <2>3. ASSUME NEW c \in Char, OpponentToStop(c)
        PROVE  turns < Cardinality(Char)
    <3>1. /\ Cardinality(Attackers(c)) \in Nat /\ Cardinality(Attackers(c)) >= 1
          /\ Cardinality(Char) \in Nat
      BY <2>3, AttackersFinite DEF OpponentToStop
    <3>2. Cardinality(Attackers(c)) + turns <= Cardinality(Char)
      BY <2>3 DEF OpponentToStop
    <3> QED
      BY <2>1, <3>1, <3>2
  <2>4. ASSUME NEW c \in Char, ItselfToStop(c) \/ ToLookAgain(c)
        PROVE  turns < Cardinality(Char)
    <3>1. Cardinality(Attackers(c)) \in Nat /\ Cardinality(Char) \in Nat
      BY AttackersFinite
    <3>2. Cardinality(Attackers(c)) + turns < Cardinality(Char)
      BY <2>4 DEF ItselfToStop, ToLookAgain
    <3> QED
      BY <2>1, <3>1, <3>2
  <2> QED
    BY <2>2, <2>3, <2>4 DEF TurnsSound
<1> QED
  BY <1>1, <1>2, <1>3, PTL DEF TurnsSpec
=============================================================================
