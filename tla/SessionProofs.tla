--------------------------- MODULE SessionProofs ---------------------------
(***************************************************************************)
(* However many connections, bodies, mobiles and stored characters there   *)
(* are, ordinary play keeps the pointers between them: who logs in, enters *)
(* twice, loses the link, reconnects, is usurped, dies, idles out or quits *)
(* never makes the program read what it freed.  Ordinary means that Rare   *)
(* is empty: the runs show what switch, snoop, dc and linkaccount break.   *)
(*                                                                         *)
(* Each promise needs the others: a reconnection is safe because whoever   *)
(* is in the game has a descriptor that plays it (PlayerSound), and an     *)
(* extraction because that descriptor plays nobody else (DescSound).       *)
(*                                                                         *)
(* The second half takes every game, whatever Rare is: until it uses what  *)
(* it freed, two connections outside the game never claim one body, and    *)
(* none claims a body in the game (Claimed).  With it stand two promises   *)
(* that no command breaks: one body in the game for a stored character,    *)
(* and a player's descriptor plays that player.                            *)
(***************************************************************************)
EXTENDS Session, TLAPS, FiniteSetTheorems

LEMMA InitInvariant == Init => IInv
  BY BodyAssumption DEF Init, IInv, TypeOK, Quiet, DescSound, PlayerSound, OnePerson,
     Players, Being, Conn, InTheGame, Holds, InGame

\* With nobody snooping there is nobody to forget, and no stray end.
LEMMA NobodyToForget ==
    ASSUME Quiet, NEW d \in Desc \cup {None}, NEW dd
    PROVE  ~ SnoopStray(d, dd) /\ Snoopers(d, dd) = {} /\ Victims(d, dd) = {}
  BY DEF Quiet, SnoopStray, Snoopers, Victims

LEMMA ForgetNobody ==
    ASSUME TypeOK, Quiet, NEW own, ForgetSnooping(own, {}, {})
    PROVE  snooping' = snooping /\ snoop_by' = snoop_by
<1>1. snooping = [c \in Desc |-> snooping[c]] /\ snoop_by = [c \in Desc |-> snoop_by[c]]
  BY DEF TypeOK
<1>2. \A c \in Desc : snooping[c] = None /\ snoop_by[c] = None
  BY DEF Quiet
<1> QED
  BY <1>1, <1>2 DEF ForgetSnooping

LEMMA LeaveNobody ==
    ASSUME TypeOK, Quiet, NEW d \in Desc, LeaveSnooping(d)
    PROVE  snooping' = snooping /\ snoop_by' = snoop_by
<1>1. Snoopers(d, desc) = {} /\ Victims(d, desc) = {}
  BY NobodyToForget
<1> QED
  BY <1>1, ForgetNobody DEF LeaveSnooping

\* close_socket on an open descriptor, or on one without a body, keeps a player
\* in the game and frees any other body.
LEMMA CloseInvariant ==
    ASSUME IInv, NEW d \in Desc, d \in open \/ body[d] = None, ~ Freed(d), CloseSocket(d, FALSE)
    PROVE  IInv'
<1>0. TypeOK /\ Quiet /\ DescSound(d)
  BY DEF IInv
<1>4. conn[d] \in {"login", "menu", "playing", "close"}
  BY <1>0, BodyAssumption DEF DescSound, InGame, Players, Freed, TypeOK, Conn, InTheGame
<1>1. ~ SnoopStray(d, desc) /\ body[d] \in live \cup {None}
  <2>1. ~ SnoopStray(d, desc)
    BY <1>0, NobodyToForget
  <2> QED
    BY <1>0, <1>4, <2>1 DEF Quiet, DescSound, Holds, InGame, Players, InTheGame
<1>2. snooping' = snooping /\ snoop_by' = snoop_by
  BY <1>0, <1>1, LeaveNobody DEF CloseSocket
<1> DEFINE keep == conn[d] = "playing" /\ body[d] # None
           freed == IF conn[d] = "playing" THEN {} ELSE {body[d]} \ {None}
<1>3. /\ conn' = [conn EXCEPT ![d] = IF keep THEN "linkless" ELSE "free"]
      /\ open' = open \ {d} /\ live' = live \ freed
      /\ UNCHANGED <<body, original, snooping, snoop_by, world, who, desc, wild>>
  BY <1>1, <1>2 DEF CloseSocket
<1>5. conn[d] = "playing" => keep
  BY BodyAssumption DEF IInv, DescSound, InGame, Players, InTheGame
<1>6. freed \cap world = {}
  BY <1>0, <1>4 DEF DescSound, Holds
<1>61. ASSUME NEW e \in Desc \ {d}, Holds(e) \/ InGame(e) PROVE body[e] \notin freed
  BY <1>0, <1>4, <1>61 DEF DescSound, Holds, InGame, Players
<1>7. TypeOK'
  BY <1>3 DEF IInv, TypeOK, Conn
<1>8. Quiet'
  BY <1>3, <1>6 DEF IInv, Quiet
<1>9. \A e \in Desc : DescSound(e)'
  <2>1. DescSound(d)'
    BY <1>3, <1>4, <1>5 DEF IInv, TypeOK, DescSound, InGame, InTheGame, Players
  <2>2. ASSUME NEW e \in Desc \ {d} PROVE DescSound(e)'
    <3>1. DescSound(e)
      BY DEF IInv
    <3>2. conn'[e] = conn[e] /\ (e \in open' <=> e \in open)
      BY <1>0, <1>3, <2>2 DEF TypeOK
    <3>3. Holds(e) => Holds(e)'
      BY <1>3, <1>61, <2>2 DEF Holds
    <3>4. InGame(e) => InGame(e)'
      BY <1>3, <1>61, <2>2 DEF InGame, Players
    <3> QED
      BY <1>3, <3>1, <3>2, <3>3, <3>4 DEF DescSound
  <2> QED
    BY <2>1, <2>2
<1>10. \A b \in Players' : PlayerSound(b)'
  BY <1>3, <1>4, <1>5 DEF IInv, TypeOK, PlayerSound, InTheGame, Players
<1>11. OnePerson'
  BY <1>3 DEF IInv, OnePerson, Players
<1> QED
  BY <1>7, <1>8, <1>9, <1>10, <1>11 DEF IInv

\* Taking over a body in the game tells its descriptor to close, or frees it
\* when its link is dead.
LEMMA ReconnectInvariant ==
    ASSUME IInv, NEW d \in open, conn[d] \in {"login", "menu"}, NEW t \in Players,
           Reconnect(d, t, body[d])
    PROVE  IInv'
<1>0. TypeOK /\ Quiet /\ PlayerSound(t) /\ (\A c \in Desc : DescSound(c)) /\ t \in world \cap Body
  BY DEF IInv, Players
<1>e. PICK e \in Desc : e = desc[t]
  BY <1>0 DEF PlayerSound
<1>1. /\ d \in Desc /\ e \in Desc /\ e # d /\ e = desc[t]
      /\ conn[e] \in InTheGame
      /\ body[e] = t
      /\ (conn[e] = "linkless") <=> (e \notin open)
      /\ e # None /\ ~ Freed(e) /\ ~ SnoopStray(e, desc)
  <2>1. d \in Desc /\ e = desc[t] /\ conn[e] \in InTheGame /\ body[e] = t
    BY <1>0, <1>e DEF TypeOK, PlayerSound
  <2>2. e # d /\ e # None /\ ~ Freed(e)
    BY <1>0, <2>1, BodyAssumption DEF InTheGame, Freed
  <2>3. ~ SnoopStray(e, desc)
    BY <1>0, <2>1, NobodyToForget
  <2>4. (conn[e] = "linkless") <=> (e \notin open)
    BY <1>0, <2>1 DEF DescSound, InTheGame
  <2> QED
    BY <2>1, <2>2, <2>3, <2>4
<1>2. body[d] \notin world /\ body[d] \in live \cup {None}
  BY <1>0, <1>1, BodyAssumption DEF DescSound, Holds, Quiet, TypeOK, Being
<1>3. snooping' = snooping /\ snoop_by' = snoop_by
  BY <1>0, <1>1, LeaveNobody DEF Reconnect
<1>4. /\ conn' = [c \in Desc |-> IF c = d THEN "playing"
                                 ELSE IF c # e THEN conn[c]
                                 ELSE IF e \notin open THEN "free" ELSE "close"]
      /\ body' = [c \in Desc |-> IF c = d THEN t ELSE IF c = e THEN None ELSE body[c]]
      /\ desc' = [desc EXCEPT ![t] = d]
      /\ live' = live \ {body[d]}
      /\ UNCHANGED <<open, original, snooping, snoop_by, world, who, wild>>
  BY <1>1, <1>3 DEF Reconnect
<1>5. TypeOK'
  BY <1>1, <1>4 DEF IInv, TypeOK, Conn, Players, Being
<1>6. Quiet'
  BY <1>1, <1>2, <1>4, BodyAssumption DEF IInv, TypeOK, Quiet, Players, Being
<1>7. \A c \in Desc : DescSound(c)'
  <2>1. DescSound(d)'
    <3>1. conn'[d] = "playing" /\ d \in open' /\ body'[d] = t /\ desc'[t] = d /\ t \in world'
      BY <1>0, <1>1, <1>4 DEF TypeOK, Being
    <3>2. InGame(d)'
      BY <1>0, <3>1 DEF InGame, Players
    <3> QED
      BY <3>1, <3>2 DEF DescSound, InTheGame
  <2>2. DescSound(e)'
    <3>1. /\ conn'[e] = IF e \notin open THEN "free" ELSE "close"
          /\ body'[e] = None /\ open' = open
      BY <1>1, <1>4
    <3> QED
      BY <3>1 DEF DescSound, InTheGame
  <2>3. ASSUME NEW c \in Desc \ {d, e} PROVE DescSound(c)'
    <3>1. /\ DescSound(c) /\ conn'[c] = conn[c] /\ body'[c] = body[c]
          /\ open' = open /\ world' = world
      BY <1>0, <1>4, <2>3
    <3>2. ASSUME Holds(c) PROVE Holds(c)'
      <4>1. body[c] # t /\ body[c] # body[d]
        BY <1>0, <1>1, <3>2, <2>3, BodyAssumption DEF Holds, DescSound
      <4>2. desc'[body[c]] = c /\ body[c] \in live'
        BY <1>0, <1>4, <3>2, <4>1 DEF Holds, TypeOK, Being
      <4> QED
        BY <3>1, <3>2, <4>2 DEF Holds
    <3>3. ASSUME InGame(c) PROVE InGame(c)'
      <4>1. body[c] # t
        BY <1>1, <2>3, <3>3 DEF InGame
      <4>2. desc'[body[c]] = c
        BY <1>0, <1>4, <3>3, <4>1 DEF InGame, TypeOK, Being, Players
      <4> QED
        BY <3>1, <3>3, <4>2 DEF InGame, Players
    <3> QED
      BY <3>1, <3>2, <3>3 DEF DescSound
  <2> QED
    BY <2>1, <2>2, <2>3
<1>8. ASSUME NEW b \in Players' PROVE PlayerSound(b)'
  <2>1. b \in Being /\ PlayerSound(b) /\ b \in world \cap Body
    BY <1>4 DEF IInv, Players, Being
  <2>2. CASE b = t
    BY <1>0, <1>1, <1>4, <2>1, <2>2 DEF PlayerSound, InTheGame, TypeOK
  <2>3. CASE b # t
    <3>1. desc'[b] = desc[b] /\ desc[b] # e /\ desc[b] # d /\ desc[b] \in Desc
      BY <1>0, <1>1, <1>4, <2>1, <2>3 DEF PlayerSound, InTheGame, TypeOK
    <3> QED
      BY <1>4, <2>1, <3>1 DEF PlayerSound
  <2> QED
    BY <2>2, <2>3
<1>9. OnePerson'
  BY <1>4 DEF IInv, OnePerson, Players
<1> QED
  BY <1>5, <1>6, <1>7, <1>8, <1>9 DEF IInv

\* A descriptor none of whose facts a step touches stays sound.
LEMMA Untouched ==
    ASSUME NEW c \in Desc, DescSound(c),
           conn'[c] = conn[c], body'[c] = body[c], (c \in open') <=> (c \in open),
           Holds(c) => body[c] \in live' \ world' /\ desc'[body[c]] = c,
           InGame(c) => body[c] \in world' /\ desc'[body[c]] = c
    PROVE  DescSound(c)'
<1>1. Holds(c) => Holds(c)'
  BY DEF Holds
<1>2. InGame(c) => InGame(c)'
  BY DEF InGame, Players
<1> QED
  BY <1>1, <1>2 DEF DescSound

LEMMA ConnectInvariant ==
    ASSUME IInv, NEW d \in Desc, Connect(d)
    PROVE  IInv'
<1>0. /\ TypeOK /\ Quiet /\ OnePerson
      /\ \A c \in Desc : DescSound(c)
      /\ \A b \in Players : PlayerSound(b)
  BY DEF IInv
<1>1. TypeOK'
  BY <1>0 DEF Connect, TypeOK, Conn
<1>2. Quiet'
  BY <1>0 DEF Connect, Quiet, TypeOK
<1>3. ASSUME NEW c \in Desc PROVE DescSound(c)'
  <2>1. CASE c = d
    BY <1>0, <2>1 DEF Connect, DescSound, TypeOK, InTheGame
  <2>2. CASE c # d
    <3>1. /\ conn'[c] = conn[c] /\ body'[c] = body[c] /\ (c \in open' <=> c \in open)
          /\ UNCHANGED <<live, world, desc>>
      BY <1>0, <2>2 DEF Connect, TypeOK
    <3> QED
      BY <1>0, <3>1, Untouched DEF Holds, InGame, Players
  <2> QED
    BY <2>1, <2>2
<1>4. ASSUME NEW b \in Players' PROVE PlayerSound(b)'
  <2>1. PlayerSound(b) /\ desc'[b] = desc[b]
    BY <1>0 DEF Connect, Players
  <2>2. desc[b] # d
    BY <2>1 DEF Connect, PlayerSound, Freed, InTheGame
  <2> QED
    BY <1>0, <2>1, <2>2 DEF Connect, PlayerSound, TypeOK
<1>5. OnePerson'
  BY <1>0 DEF Connect, OnePerson, Players
<1> QED
  BY <1>1, <1>2, <1>3, <1>4, <1>5 DEF IInv

\* Told to close: the body, if any, is still its own.
LEMMA RefuseInvariant ==
    ASSUME IInv, NEW d \in Desc, Refuse(d)
    PROVE  IInv'
<1>0. /\ TypeOK /\ Quiet /\ OnePerson
      /\ \A c \in Desc : DescSound(c)
      /\ \A b \in Players : PlayerSound(b)
  BY DEF IInv
<1>1. TypeOK'
  BY <1>0 DEF Refuse, TypeOK, Conn
<1>2. Quiet'
  BY <1>0 DEF Refuse, Quiet
<1>3. ASSUME NEW c \in Desc PROVE DescSound(c)'
  <2>1. CASE c = d
    <3>1. /\ conn[d] \in {"login", "menu"} /\ conn'[d] = "close"
          /\ UNCHANGED <<open, body, live, world, desc>>
      BY <1>0 DEF Refuse, TypeOK
    <3> QED
      BY <1>0, <2>1, <3>1 DEF DescSound, Holds, InTheGame
  <2>2. CASE c # d
    <3>1. conn'[c] = conn[c] /\ UNCHANGED <<body, open, live, world, desc>>
      BY <1>0, <2>2 DEF Refuse, TypeOK
    <3> QED
      BY <1>0, <3>1, Untouched DEF Holds, InGame, Players
  <2> QED
    BY <2>1, <2>2
<1>4. ASSUME NEW b \in Players' PROVE PlayerSound(b)'
  <2>1. PlayerSound(b) /\ UNCHANGED <<desc, body>>
    BY <1>0 DEF Refuse, Players
  <2>2. desc[b] # d
    BY <2>1 DEF Refuse, PlayerSound, InTheGame
  <2> QED
    BY <1>0, <2>1, <2>2 DEF Refuse, PlayerSound, TypeOK
<1>5. OnePerson'
  BY <1>0 DEF Refuse, OnePerson, Players
<1> QED
  BY <1>1, <1>2, <1>3, <1>4, <1>5 DEF IInv

\* Out of the game a descriptor may drop its body and take one nobody has.
LEMMA NewBodyInvariant ==
    ASSUME IInv, NEW d \in Desc, conn[d] \in {"login", "menu"},
           NEW k \in {"login", "menu"}, NEW b \in Body \cup {None},
           k = "menu" => b # None,
           b = None \/ b = body[d] \/ b \notin live,
           conn' = [conn EXCEPT ![d] = k],
           body' = [body EXCEPT ![d] = b],
           live' = (live \ {body[d]}) \cup ({b} \ {None}),
           desc' = IF b = None THEN desc ELSE [desc EXCEPT ![b] = d],
           who' \in [Body -> Person \cup {None}], \A x \in Body \ {b} : who'[x] = who[x],
           UNCHANGED <<open, original, snooping, snoop_by, world, wild>>
    PROVE  IInv'
<1>0. /\ TypeOK /\ Quiet /\ OnePerson
      /\ \A c \in Desc : DescSound(c)
      /\ \A p \in Players : PlayerSound(p)
      /\ None \notin Being
  BY BodyAssumption DEF IInv, Being
<1>1. body[d] = None \/ Holds(d)
  BY <1>0 DEF DescSound
<1>2. body[d] \notin world /\ b \notin world
  BY <1>0, <1>1 DEF Holds, Quiet, TypeOK
<1>3. TypeOK'
  BY <1>0 DEF TypeOK, Conn, Being
<1>4. Quiet'
  <2>1. \A m \in Mob : desc'[m] = None
    BY <1>0, BodyAssumption DEF Quiet, TypeOK, Being
  <2> QED
    BY <1>0, <1>2, <2>1 DEF Quiet
<1>5. ASSUME NEW c \in Desc PROVE DescSound(c)'
  <2>1. CASE c = d
    <3>1. /\ conn'[d] = k /\ body'[d] = b /\ UNCHANGED <<open, world>> /\ d \in open
          /\ b # None => b \in live' /\ desc'[b] = d
      BY <1>0 DEF TypeOK, DescSound, Being
    <3>2. b # None => Holds(d)'
      BY <1>2, <3>1 DEF Holds
    <3> QED
      BY <2>1, <3>1, <3>2 DEF DescSound, InTheGame
  <2>2. CASE c # d
    <3>1. conn'[c] = conn[c] /\ body'[c] = body[c] /\ UNCHANGED <<open, world>>
      BY <1>0, <2>2 DEF TypeOK
    <3>2. ASSUME Holds(c) PROVE body[c] \in live' \ world' /\ desc'[body[c]] = c
      <4>1. body[c] # body[d] /\ body[c] # b
        BY <1>0, <1>1, <2>2, <3>2, BodyAssumption DEF Holds
      <4> QED
        BY <1>0, <3>2, <4>1 DEF Holds, TypeOK, Being
    <3>3. ASSUME InGame(c) PROVE body[c] \in world' /\ desc'[body[c]] = c
      BY <1>0, <1>2, <3>3 DEF InGame, TypeOK, Being, Players
    <3> QED
      BY <1>0, <3>1, <3>2, <3>3, Untouched
  <2> QED
    BY <2>1, <2>2
<1>6. ASSUME NEW p \in Players' PROVE PlayerSound(p)'
  <2>1. PlayerSound(p) /\ p # b /\ p \in Being
    BY <1>0, <1>2 DEF Players, Being
  <2>2. desc[p] # d
    BY <2>1 DEF PlayerSound, InTheGame
  <2>3. desc'[p] = desc[p]
    BY <1>0, <2>1 DEF TypeOK
  <2> QED
    BY <1>0, <2>1, <2>2, <2>3 DEF PlayerSound, TypeOK
<1>7. OnePerson'
  <2>1. \A p \in Players : who'[p] = who[p]
    BY <1>2 DEF Players
  <2> QED
    BY <1>0, <2>1 DEF OnePerson, Players
<1> QED
  BY <1>3, <1>4, <1>5, <1>6, <1>7 DEF IInv

LEMMA LoginInvariant ==
    ASSUME IInv, NEW d \in Desc, NEW p,
           FirstInput(d) \/ LeaveMenu(d) \/ (p \in Person /\ LoginFresh(d, p))
    PROVE  IInv'
<1>0. TypeOK /\ Quiet /\ DescSound(d) /\ None \notin Being /\ Body \subseteq Being
  BY BodyAssumption DEF IInv, Being
<1>1. CASE FirstInput(d)
  <2>1. PICK b \in Allocatable(d) :
            /\ body' = [body EXCEPT ![d] = b]
            /\ live' = live \cup {b}
            /\ desc' = [desc EXCEPT ![b] = d]
            /\ who' = [who EXCEPT ![b] = None]
    BY <1>1 DEF FirstInput
  <2>2. /\ conn[d] = "login" /\ body[d] = None
        /\ UNCHANGED <<conn, open, original, snooping, snoop_by, world, wild>>
    BY <1>1 DEF FirstInput
  <2>3. b \in Body /\ b # None /\ b \notin live
    BY <1>0, <2>1, <2>2 DEF Allocatable
  <2>4. /\ conn' = [conn EXCEPT ![d] = "login"]
        /\ live' = (live \ {body[d]}) \cup ({b} \ {None})
        /\ who' \in [Body -> Person \cup {None}] /\ \A x \in Body \ {b} : who'[x] = who[x]
    BY <1>0, <2>1, <2>2, <2>3 DEF TypeOK
  <2> QED
    BY <2>1, <2>2, <2>3, <2>4, NewBodyInvariant
<1>2. CASE LeaveMenu(d)
  <2>1. /\ conn[d] = "menu" /\ conn' = [conn EXCEPT ![d] = "login"]
        /\ UNCHANGED <<open, original, snooping, snoop_by, world, who, desc, wild>>
        /\ who' \in [Body -> Person \cup {None}]
    BY <1>0, <1>2 DEF LeaveMenu, TypeOK
  <2>2. body[d] \in Body \cap live /\ desc[body[d]] = d
    BY <1>0, <2>1 DEF DescSound, Holds
  <2>3. CASE UNCHANGED <<body, live>>
    <3>1. /\ body' = [body EXCEPT ![d] = body[d]]
          /\ live' = (live \ {body[d]}) \cup ({body[d]} \ {None})
          /\ desc' = [desc EXCEPT ![body[d]] = d]
          /\ body[d] # None
      BY <1>0, <2>1, <2>2, <2>3 DEF TypeOK
    <3> QED
      BY <2>1, <2>2, <3>1, NewBodyInvariant
  <2>4. CASE body' = [body EXCEPT ![d] = None] /\ live' = live \ {body[d]}
    <3>1. live' = (live \ {body[d]}) \cup ({None} \ {None})
      BY <2>4
    <3> QED
      BY <2>1, <2>4, <3>1, NewBodyInvariant
  <2> QED
    BY <1>2, <2>3, <2>4 DEF LeaveMenu
<1>3. CASE p \in Person /\ LoginFresh(d, p)
  <2>1. ~ StrayMob
    BY <1>0, BodyAssumption DEF StrayMob, Quiet
  <2>2. PICK b \in Allocatable(d) :
            /\ body' = [body EXCEPT ![d] = b]
            /\ live' = (live \ {body[d]}) \cup {b}
            /\ desc' = [desc EXCEPT ![b] = d]
            /\ who' = [who EXCEPT ![b] = p]
            /\ conn' = [conn EXCEPT ![d] = "menu"]
            /\ UNCHANGED <<open, original, snooping, snoop_by, world, wild>>
    BY <1>3, <2>1 DEF LoginFresh
  <2>3. b \in Body /\ b # None /\ (b = body[d] \/ b \notin live) /\ conn[d] = "login"
    BY <1>0, <1>3, <2>2 DEF Allocatable, LoginFresh, LoggingIn
  <2>4. /\ live' = (live \ {body[d]}) \cup ({b} \ {None})
        /\ who' \in [Body -> Person \cup {None}] /\ \A x \in Body \ {b} : who'[x] = who[x]
    BY <1>0, <1>3, <2>2, <2>3 DEF TypeOK
  <2> QED
    BY <2>2, <2>3, <2>4, NewBodyInvariant
<1> QED
  BY <1>1, <1>2, <1>3

\* From the menu into the game: over the copy already there, or as the first.
LEMMA EnterGameInvariant ==
    ASSUME IInv, NEW d \in Desc, EnterGame(d)
    PROVE  IInv'
<1>0. /\ TypeOK /\ Quiet /\ OnePerson
      /\ \A c \in Desc : DescSound(c)
      /\ \A p \in Players : PlayerSound(p)
  BY DEF IInv
<1>1. conn[d] = "menu" /\ d \in open
  BY DEF EnterGame
<1>2. body[d] \in (Body \cap live) \ world /\ desc[body[d]] = d
  BY <1>0, <1>1 DEF DescSound, Holds
<1>3. CASE \E t \in InPlay(who[body[d]]) : Reconnect(d, t, body[d])
  BY <1>1, <1>3, ReconnectInvariant DEF InPlay
<1>4. CASE /\ InPlay(who[body[d]]) = {}
           /\ world' = world \cup {body[d]}
           /\ conn' = [conn EXCEPT ![d] = "playing"]
           /\ UNCHANGED <<open, body, original, snooping, snoop_by, live, who, desc, wild>>
  <2>1. TypeOK'
    BY <1>0, <1>2, <1>4 DEF TypeOK, Conn, Being
  <2>2. Quiet'
    BY <1>0, <1>2, <1>4 DEF Quiet
  <2>3. ASSUME NEW c \in Desc PROVE DescSound(c)'
    <3>1. CASE c = d
      <4>1. conn'[d] = "playing" /\ d \in open' /\ InGame(d)'
        BY <1>0, <1>1, <1>2, <1>4 DEF InGame, Players, TypeOK
      <4> QED
        BY <3>1, <4>1 DEF DescSound, InTheGame
    <3>2. CASE c # d
      <4>1. conn'[c] = conn[c] /\ UNCHANGED <<open, body, live, desc>>
        BY <1>0, <1>4, <3>2 DEF TypeOK
      <4>2. Holds(c) => body[c] # body[d]
        BY <1>2, <3>2 DEF Holds
      <4> QED
        BY <1>0, <1>4, <4>1, <4>2, Untouched DEF Holds, InGame, Players
    <3> QED
      BY <3>1, <3>2
  <2>4. ASSUME NEW p \in Players' PROVE PlayerSound(p)'
    <3>1. CASE p = body[d]
      BY <1>0, <1>2, <1>4, <3>1 DEF PlayerSound, InTheGame, TypeOK
    <3>2. CASE p # body[d]
      BY <1>0, <1>4, <3>2 DEF PlayerSound, InTheGame, Players, TypeOK
    <3> QED
      BY <3>1, <3>2
  <2>5. OnePerson'
    <3>1. \A p \in Players : who[p] # who[body[d]]
      BY <1>4 DEF InPlay
    <3> QED
      BY <1>0, <1>4, <3>1 DEF OnePerson, Players
  <2> QED
    BY <2>1, <2>2, <2>3, <2>4, <2>5 DEF IInv
<1> QED
  BY <1>0, <1>2, <1>3, <1>4 DEF EnterGame, Quiet

\* A player freed together with its descriptor leaves nothing behind.
LEMMA GoneInvariant ==
    ASSUME IInv, NEW b \in Players, NEW e \in Desc, e = desc[b],
           body' = body, original' = original, who' = who, wild' = wild,
           snooping' = snooping, snoop_by' = snoop_by,
           world' = world \ {b}, live' = live \ {b}, open' = open \ {e},
           conn' = [conn EXCEPT ![e] = "free"],
           desc' \in [Being -> Desc \cup {None}], \A c \in Being \ {b} : desc'[c] = desc[c]
    PROVE  IInv'
<1>0. /\ TypeOK /\ Quiet /\ OnePerson
      /\ \A c \in Desc : DescSound(c)
      /\ \A p \in Players : PlayerSound(p)
      /\ Body \subseteq Being /\ Mob \subseteq Being /\ Body \cap Mob = {}
  BY BodyAssumption DEF IInv, Being
<1>1. body[e] = b /\ b \in Body
  BY <1>0 DEF PlayerSound, Players
<1>2. TypeOK'
  BY <1>0 DEF TypeOK, Conn
<1>3. Quiet'
  BY <1>0, <1>1 DEF Quiet
<1>4. ASSUME NEW c \in Desc PROVE DescSound(c)'
  <2>1. CASE c = e
    BY <1>0, <2>1 DEF DescSound, InTheGame, TypeOK
  <2>2. CASE c # e
    <3>1. conn'[c] = conn[c] /\ body'[c] = body[c] /\ ((c \in open') <=> (c \in open))
      BY <1>0, <2>2 DEF TypeOK
    <3>2. ASSUME Holds(c) PROVE body[c] \in live' \ world' /\ desc'[body[c]] = c
      BY <1>0, <2>2, <3>2 DEF Holds
    <3>3. ASSUME InGame(c) PROVE body[c] \in world' /\ desc'[body[c]] = c
      BY <1>0, <2>2, <3>3 DEF InGame, Players
    <3> QED
      BY <1>0, <3>1, <3>2, <3>3, Untouched
  <2> QED
    BY <2>1, <2>2
<1>5. ASSUME NEW p \in Players' PROVE PlayerSound(p)'
  <2>1. PlayerSound(p) /\ p # b /\ p \in Being
    BY <1>0 DEF Players
  <2>2. desc[p] # e /\ desc'[p] = desc[p]
    BY <1>0, <1>1, <2>1 DEF PlayerSound
  <2> QED
    BY <1>0, <2>1, <2>2 DEF PlayerSound, TypeOK
<1>6. OnePerson'
  BY <1>0 DEF OnePerson, Players
<1> QED
  BY <1>2, <1>3, <1>4, <1>5, <1>6 DEF IInv

\* extract_char on a player whose link nobody cut first.
LEMMA ExtractInvariant ==
    ASSUME IInv, NEW b \in Players, NEW respawn \in BOOLEAN, Extract(b, None, respawn)
    PROVE  IInv'
<1>0. /\ TypeOK /\ Quiet /\ OnePerson
      /\ \A c \in Desc : DescSound(c)
      /\ \A p \in Players : PlayerSound(p)
      /\ b \in Body /\ b \in world /\ b \in Being /\ None \notin Desc
  BY BodyAssumption DEF IInv, Players, Being
<1>1. PICK e \in Desc : e = desc[b] /\ body[e] = b /\ conn[e] \in InTheGame /\ e # None /\ ~ Freed(e)
  BY <1>0 DEF PlayerSound, InTheGame, Freed
<1>2. PICK dd : dd = [c \in Being |-> IF c = b THEN e
                                      ELSE IF \E t \in {} : body[t] = c THEN None ELSE desc[c]]
  OBVIOUS
<1>3. /\ ~ SnoopStray(None, desc) /\ Snoopers(None, desc) = {} /\ Victims(None, desc) = {}
      /\ ~ SnoopStray(e, dd) /\ Snoopers(e, dd) = {} /\ Victims(e, dd) = {}
  BY <1>0, NobodyToForget
<1>41. /\ body' = [t \in Desc |-> IF t \in {} THEN b ELSE body[t]]
       /\ original' = [t \in Desc |-> IF t \in {} THEN None ELSE original[t]]
       /\ desc' = dd
       /\ world' = IF e \in open /\ respawn THEN world ELSE world \ {b}
       /\ live' = IF e \notin open THEN live \ {b} ELSE live
       /\ conn' = [t \in Desc |-> IF t = None THEN "free" ELSE IF t # e \/ (e \in open /\ respawn) THEN conn[t]
                                  ELSE IF e \notin open THEN "free" ELSE "menu"]
       /\ open' = open \ {None}
       /\ ForgetSnooping({e}, {}, {})
       /\ UNCHANGED <<who, wild>>
  BY SMTT(20), <1>0, <1>1, <1>2, <1>3 DEF Extract
<1>42. dd = desc
  <2>1. desc = [c \in Being |-> desc[c]]
    BY <1>0 DEF TypeOK
  <2> QED
    BY <1>1, <1>2, <2>1
<1>4. /\ desc' = desc
      /\ world' = IF e \in open /\ respawn THEN world ELSE world \ {b}
      /\ live' = IF e \notin open THEN live \ {b} ELSE live
      /\ conn' = [t \in Desc |-> IF t # e \/ (e \in open /\ respawn) THEN conn[t]
                                 ELSE IF e \notin open THEN "free" ELSE "menu"]
      /\ UNCHANGED <<who, wild>>
  BY <1>0, <1>41, <1>42
<1>5. body' = body /\ original' = original /\ open' = open /\ snooping' = snooping /\ snoop_by' = snoop_by
  BY <1>0, <1>41, ForgetNobody DEF TypeOK
<1>6. CASE e \in open /\ respawn
  <2>1. conn' = conn
    BY <1>0, <1>4, <1>6 DEF TypeOK
  <2>2. UNCHANGED vars
    BY <1>4, <1>5, <1>6, <2>1 DEF vars
  <2> QED
    BY <2>2 DEF vars, IInv, TypeOK, Quiet, DescSound, PlayerSound, OnePerson, Players, Holds, InGame
<1>7. CASE e \notin open
  <2>1. /\ world' = world \ {b} /\ live' = live \ {b} /\ open' = open \ {e}
        /\ conn' = [conn EXCEPT ![e] = "free"]
    BY <1>0, <1>4, <1>5, <1>7 DEF TypeOK
  <2>2. desc' \in [Being -> Desc \cup {None}] /\ \A c \in Being \ {b} : desc'[c] = desc[c]
    BY <1>0, <1>4 DEF TypeOK
  <2> QED
    BY <1>1, <1>4, <1>5, <2>1, <2>2, GoneInvariant
<1>8. CASE e \in open /\ ~ respawn
  <2>1. /\ world' = world \ {b} /\ live' = live
        /\ conn' = [conn EXCEPT ![e] = "menu"]
    BY <1>0, <1>4, <1>8 DEF TypeOK
  <2>2. TypeOK'
    BY <1>0, <1>4, <1>5, <2>1 DEF TypeOK, Conn
  <2>3. Quiet'
    BY <1>0, <1>4, <1>5, <2>1 DEF Quiet
  <2>4. ASSUME NEW c \in Desc PROVE DescSound(c)'
    <3>1. CASE c = e
      <4>1. conn'[e] = "menu" /\ e \in open' /\ Holds(e)'
        BY <1>0, <1>1, <1>4, <1>5, <1>8, <2>1 DEF Holds, Quiet, TypeOK
      <4> QED
        BY <3>1, <4>1 DEF DescSound, InTheGame
    <3>2. CASE c # e
      <4>1. conn'[c] = conn[c]
        BY <1>0, <2>1, <3>2 DEF TypeOK
      <4> QED
        BY <1>0, <1>1, <1>4, <1>5, <2>1, <3>2, <4>1, Untouched DEF Holds, InGame, Players
    <3> QED
      BY <3>1, <3>2
  <2>5. ASSUME NEW p \in Players' PROVE PlayerSound(p)'
    <3>1. PlayerSound(p) /\ p # b
      BY <1>0, <2>1 DEF Players
    <3>2. desc[p] # e
      BY <1>1, <3>1 DEF PlayerSound
    <3> QED
      BY <1>0, <1>4, <1>5, <2>1, <3>1, <3>2 DEF PlayerSound, TypeOK
  <2>6. OnePerson'
    BY <1>0, <1>4, <2>1 DEF OnePerson, Players
  <2> QED
    BY <2>2, <2>3, <2>4, <2>5, <2>6 DEF IInv
<1> QED
  BY <1>6, <1>7, <1>8

\* The idle limit: the link, if it lives, is cut, and then the player goes.
LEMMA CastOutInvariant ==
    ASSUME IInv, NEW b \in Body, CastOut(b)
    PROVE  IInv'
<1>0. /\ TypeOK /\ Quiet
      /\ \A c \in Desc : DescSound(c)
      /\ PlayerSound(b)
      /\ b \in Players /\ b \in Being /\ None \notin Desc /\ None \notin Body
  BY BodyAssumption DEF IInv, Players, Being, CastOut
<1>1. PICK e \in Desc : e = desc[b] /\ body[e] = b /\ conn[e] \in InTheGame /\ e # None
  BY <1>0 DEF PlayerSound
<1>2. CASE e \notin open
  BY <1>0, <1>1, <1>2, ExtractInvariant DEF CastOut
<1>3. CASE e \in open
  <2>1. conn[e] = "playing" /\ Extract(b, e, FALSE)
    BY <1>0, <1>1, <1>3 DEF CastOut, DescSound, InTheGame
  <2>2. LeftBehind(b) = {}
    BY <1>0 DEF LeftBehind, Quiet
  <2>3. None \notin open
    BY <1>0 DEF TypeOK
  <2>4. PICK dd : dd = [c \in Being |-> IF c = b THEN None
                                        ELSE IF \E t \in {} : body[t] = c THEN None ELSE desc[c]]
    OBVIOUS
  <2>5. /\ ~ SnoopStray(None, dd) /\ Snoopers(None, dd) = {} /\ Victims(None, dd) = {}
        /\ ~ SnoopStray(e, desc) /\ Snoopers(e, desc) = {} /\ Victims(e, desc) = {}
    BY <1>0, NobodyToForget
  <2>6. /\ body' = [t \in Desc |-> IF t \in {} THEN b ELSE body[t]]
        /\ original' = [t \in Desc |-> IF t \in {} THEN None ELSE original[t]]
        /\ desc' = dd
        /\ world' = world \ {b}
        /\ live' = live \ {b}
        /\ conn' = [t \in Desc |-> IF t = e THEN "free" ELSE IF t # None THEN conn[t] ELSE "free"]
        /\ open' = open \ {e}
        /\ ForgetSnooping({None}, {}, {})
        /\ UNCHANGED <<who, wild>>
    BY SMTT(20), <1>0, <1>1, <2>1, <2>2, <2>3, <2>4, <2>5 DEF Extract, Players
  <2>7. /\ body' = body /\ original' = original /\ snooping' = snooping /\ snoop_by' = snoop_by
        /\ conn' = [conn EXCEPT ![e] = "free"]
    <3>1. body' = body /\ original' = original /\ snooping' = snooping /\ snoop_by' = snoop_by
      BY <1>0, <2>6, ForgetNobody DEF TypeOK
    <3>2. conn' = [t \in Desc |-> IF t = e THEN "free" ELSE conn[t]]
      BY <1>0, <2>6
    <3> QED
      BY <1>0, <3>1, <3>2 DEF TypeOK
  <2>8. desc' \in [Being -> Desc \cup {None}] /\ \A c \in Being \ {b} : desc'[c] = desc[c]
    BY <1>0, <2>4, <2>6 DEF TypeOK
  <2> QED
    BY <1>0, <1>1, <2>6, <2>7, <2>8, GoneInvariant
<1> QED
  BY <1>2, <1>3

LEMMA MobInvariant ==
    ASSUME IInv, NEW m \in Mob, SpawnMob(m) \/ KillMob(m)
    PROVE  IInv'
<1>0. /\ TypeOK /\ Quiet /\ OnePerson
      /\ \A c \in Desc : DescSound(c)
      /\ \A p \in Players : PlayerSound(p)
      /\ m \in Being /\ Body \subseteq Being /\ m \notin Body /\ desc[m] = None
  BY BodyAssumption DEF IInv, Being, Quiet
<1>1. /\ live' \in SUBSET Being /\ world' \in SUBSET Being /\ world' \subseteq live'
      /\ \A b \in Body : (b \in live' <=> b \in live) /\ (b \in world' <=> b \in world)
      /\ desc' = desc
      /\ UNCHANGED <<conn, open, body, original, snooping, snoop_by, who, wild>>
  <2>1. CASE SpawnMob(m)
    BY <1>0, <2>1 DEF SpawnMob, TypeOK, Quiet
  <2>2. CASE KillMob(m)
    <3>1. Snoopers(None, desc) = {} /\ Victims(None, desc) = {}
      BY <1>0, NobodyToForget
    <3>2. /\ UNCHANGED <<conn, open, body, original, desc, who, wild>>
          /\ live' = live \ {m} /\ world' = world \ {m}
          /\ ForgetSnooping({None}, {}, {})
      BY <1>0, <2>2, <3>1 DEF KillMob
    <3> QED
      BY <1>0, <3>2, ForgetNobody DEF TypeOK, Quiet
  <2> QED
    BY <2>1, <2>2
<1>2. TypeOK'
  BY <1>0, <1>1 DEF TypeOK
<1>3. Quiet'
  BY <1>0, <1>1 DEF Quiet
<1>4. ASSUME NEW c \in Desc PROVE DescSound(c)'
  BY <1>0, <1>1, Untouched DEF Holds, InGame, Players
<1>5. Players' = Players
  BY <1>1 DEF Players
<1>6. \A p \in Players' : PlayerSound(p)'
  BY <1>0, <1>1, <1>5 DEF PlayerSound
<1>7. OnePerson'
  BY <1>0, <1>1, <1>5 DEF OnePerson
<1> QED
  BY <1>2, <1>3, <1>4, <1>6, <1>7 DEF IInv

\* What a game without switch, snoop, dc, linkaccount and the blank name never
\* does: most of it asks for freed memory or for two bodies of one player.
LEMMA RareNever ==
    ASSUME IInv, Rare = {}, NEW d \in Desc
    PROVE  /\ ~ Undefined
           /\ ~ Dc(d) /\ ~ BlankName(d) /\ ~ Switch(d) /\ ~ LinkAccount(d) /\ ~ LinkDone(d)
           /\ ~ Return(d) /\ ~ ServeFreed(d)
           /\ \A v \in Being : ~ Snoop(d, v)
           /\ \A p \in Person : ~ LoginSwitched(d, p)
<1>0. /\ TypeOK /\ Quiet /\ DescSound(d)
      /\ None \notin Being /\ Body \subseteq Being
  BY BodyAssumption DEF IInv, Being
<1>1. ~ Undefined /\ ~ Dc(d) /\ ~ BlankName(d) /\ ~ Switch(d) /\ ~ LinkAccount(d)
  BY <1>0 DEF Undefined, Quiet, Dc, BlankName, Switch, LinkAccount
<1>2. \A v \in Being : ~ Snoop(d, v)
  BY DEF Snoop
<1>3. ~ LinkDone(d)
  BY <1>0 DEF LinkDone, DescSound
<1>4. \A p \in Person : ~ LoginSwitched(d, p)
  BY <1>0, BodyAssumption DEF LoginSwitched, Switched, Quiet
<1>5. ~ Return(d)
  <2>1. conn[d] = "playing" => desc[body[d]] = d
    BY <1>0 DEF DescSound, InGame, InTheGame
  <2> QED
    BY <1>0, <2>1 DEF Return, Commands, Freed, Quiet
<1>6. ~ ServeFreed(d)
  BY <1>0 DEF ServeFreed, DescSound, Holds, InGame, InTheGame, Players, Quiet, TypeOK, Conn
<1> QED
  BY <1>1, <1>2, <1>3, <1>4, <1>5, <1>6

LEMMA StepInvariant ==
    ASSUME IInv, Rare = {}, [Next]_vars
    PROVE  IInv'
<1>1. CASE UNCHANGED vars
  BY <1>1 DEF vars, IInv, TypeOK, Quiet, DescSound, PlayerSound, OnePerson, Players, Holds, InGame
<1>2. ASSUME NEW d \in Desc,
             \/ Connect(d) \/ LoseLink(d) \/ PreLoginIdle(d) \/ CloseClosing(d) \/ Dc(d)
             \/ Refuse(d) \/ BlankName(d) \/ FirstInput(d) \/ LeaveMenu(d) \/ EnterGame(d)
             \/ Quit(d) \/ ServeFreed(d) \/ Switch(d) \/ Return(d) \/ LinkAccount(d) \/ LinkDone(d)
             \/ \E p \in Person : LoginSwitched(d, p) \/ LoginAgain(d, p) \/ LoginFresh(d, p)
             \/ \E v \in Being : Snoop(d, v)
      PROVE  IInv'
  <2>0. TypeOK /\ Quiet /\ DescSound(d)
    BY DEF IInv
  <2>1. CASE LoseLink(d) \/ PreLoginIdle(d) \/ CloseClosing(d)
    <3>1. (d \in open \/ body[d] = None) /\ ~ Freed(d) /\ CloseSocket(d, FALSE)
      BY <2>0, <2>1 DEF LoseLink, PreLoginIdle, CloseClosing, DescSound, Freed
    <3> QED
      BY <3>1, CloseInvariant
  <2>2. CASE \E p \in Person : LoginAgain(d, p)
    <3>1. ~ StrayMob
      BY <2>0, BodyAssumption DEF StrayMob, Quiet
    <3>2. PICK t \in Players : conn[d] = "login" /\ d \in open /\ Reconnect(d, t, body[d])
      BY <2>2, <3>1 DEF LoginAgain, LoggingIn, InPlay
    <3> QED
      BY <3>2, ReconnectInvariant
  <2>3. CASE FirstInput(d) \/ LeaveMenu(d) \/ \E p \in Person : LoginFresh(d, p)
    BY <2>3, LoginInvariant
  <2>4. CASE Quit(d)
    <3>1. conn[d] = "playing" /\ Extract(body[d], None, FALSE)
      BY <2>4 DEF Quit, Commands
    <3>2. body[d] \in Players
      BY <2>0, <3>1 DEF DescSound, InGame, InTheGame
    <3> QED
      BY <3>1, <3>2, ExtractInvariant
  <2> QED
    BY <1>2, <2>1, <2>2, <2>3, <2>4, RareNever, ConnectInvariant, RefuseInvariant, EnterGameInvariant
<1>3. ASSUME NEW b \in Body, Die(b) \/ CastOut(b)
      PROVE  IInv'
  <2>1. CASE Die(b)
    BY <2>1, ExtractInvariant DEF Die
  <2>2. CASE CastOut(b)
    BY <2>2, CastOutInvariant
  <2> QED
    BY <1>3, <2>1, <2>2
<1>4. ASSUME NEW m \in Mob, SpawnMob(m) \/ KillMob(m)
      PROVE  IInv'
  BY <1>4, MobInvariant
<1> QED
  BY <1>1, <1>2, <1>3, <1>4 DEF Next

\* No interleaving of logins, lost links, reconnections, deaths and extractions
\* breaks the pointers between connections and bodies: reconnect_or_usurp,
\* close_socket and extract_char each leave what the others rely on.
THEOREM SessionInvariant ==
    ASSUME Rare = {}
    PROVE  Spec => []IInv
<1>1. Init => IInv
  BY InitInvariant
<1>2. IInv /\ [Next]_vars => IInv'
  BY StepInvariant
<1> QED
  BY <1>1, <1>2, PTL DEF Spec

\* Nothing freed is used and nothing freed stays on character_list.
THEOREM NothingFreedUsed ==
    ASSUME Rare = {}
    PROVE  Spec => []Defined
<1>1. IInv => Defined
  BY DEF IInv, Quiet, Defined, Undefined
<1> QED
  BY <1>1, SessionInvariant, PTL

\* A descriptor and what it plays point to each other, and every player in the
\* game has the descriptor that plays it.
THEOREM PointersAgree ==
    ASSUME Rare = {}
    PROVE  Spec => []LinksAgree
<1>1. ASSUME IInv PROVE LinksAgree
  <2>0. /\ \A d \in Desc : DescSound(d)
        /\ \A b \in Players : PlayerSound(b)
        /\ None \notin Desc /\ world \subseteq live
    BY <1>1, BodyAssumption DEF IInv, Quiet
  <2>1. ASSUME NEW d \in Desc, conn[d] \in {"menu", "playing", "linkpwd", "linkless"}
        PROVE  body[d] \in live /\ desc[body[d]] = d
    BY <2>0, <2>1 DEF DescSound, Holds, InGame, InTheGame, Players
  <2>2. ASSUME NEW b \in Players PROVE desc[b] # None /\ body[desc[b]] = b
    BY <2>0 DEF PlayerSound
  <2> QED
    BY <2>1, <2>2 DEF LinksAgree
<1> QED
  BY <1>1, SessionInvariant, PTL

\* A closed descriptor is kept only for a link-dead player in the game.
THEOREM DeadLinksAreHeld ==
    ASSUME Rare = {}
    PROVE  Spec => []DeadLinksHeld
<1>1. IInv => DeadLinksHeld
  BY DEF IInv, DeadLinksHeld, DescSound, Freed, InTheGame, InGame, Players, TypeOK, Conn
<1> QED
  BY <1>1, SessionInvariant, PTL

-----------------------------------------------------------------------------
(* Every game.                                                             *)

\* Before a step nothing freed has been used.
Sound == TypeOK /\ OnePerson /\ Claimed /\ world \subseteq live

\* What Sound says of the pointers, read out once for all the steps.
LEMMA SoundFacts ==
    ASSUME Sound
    PROVE  /\ TypeOK /\ OnePerson /\ world \subseteq live
           /\ \A b \in live \cap Body : BodyPlayed(b)
           /\ \A m \in live \cap Mob : m \in world /\ MobPlayed(m)
           /\ \A d \in Desc : ~ Freed(d) /\ original[d] # None =>
                    body[d] \in Mob \cap live /\ desc[body[d]] = d
           /\ \A d \in Desc : Outside(d) => Claims(d) \cap world = {} /\ ~ Freed(d)
           /\ \A d, e \in Desc : Outside(d) /\ Outside(e) /\ d # e => Claims(d) \cap Claims(e) = {}
           /\ Body \subseteq Being /\ Mob \subseteq Being /\ Body \cap Mob = {}
           /\ None \notin Being /\ None \notin Desc
           /\ \A b \in Players : b \in Body \cap live
  BY BodyAssumption DEF Sound, Claimed, Being, Players, Freed, Outside

\* Neither plays nor was left by a switch: nobody in the game is lost when an
\* outside descriptor takes another body.
LEMMA OutsideFree ==
    ASSUME Sound, NEW d \in Desc, Outside(d), NEW b \in Players
    PROVE  desc[b] # d /\ body[d] # b /\ original[d] # b
<1>1. b \notin Claims(d) /\ b \in Body /\ BodyPlayed(b) /\ ~ Freed(d) /\ d # None
  BY SoundFacts DEF Players
<1> QED
  BY <1>1 DEF Claims, BodyPlayed

\* A step that moves no pointer, lets no descriptor out of the game and frees
\* only what it takes off character_list.
LEMMA StillSound ==
    ASSUME Sound, body' = body, original' = original, desc' = desc, who' = who,
           live' \subseteq live, world' \subseteq world, world \cap live' \subseteq world',
           \A m \in (world \ world') \cap Mob : \A d \in Desc : desc[m] = d => Freed(d) \/ original[d] = None,
           \A d \in Desc : ~ Freed(d)' => ~ Freed(d) /\ (Outside(d)' => Outside(d))
    PROVE  DescPlays' /\ OnePerson' /\ (~ Undefined' => Claimed')
<1>0. Players' \subseteq Players /\ \A d \in Desc : Outside(d)' => Outside(d)
  BY DEF Players, Outside, Freed
<1>1. DescPlays'
  <2>1. ASSUME NEW b \in Players', desc'[b] # None, ~ Freed(desc[b])' PROVE body'[desc'[b]] = b
    <3>1. b \in live \cap Body /\ BodyPlayed(b) /\ desc[b] \in Desc
      BY <1>0, <2>1, SoundFacts DEF Players, TypeOK
    <3> QED
      BY <2>1, <3>1 DEF BodyPlayed
  <2> QED
    BY <2>1 DEF DescPlays, Freed
<1>2. OnePerson'
  BY <1>0, SoundFacts DEF OnePerson
<1>3. ASSUME ~ Undefined' PROVE Claimed'
  <2>1. ASSUME NEW b \in live' \cap Body PROVE BodyPlayed(b)'
    <3>1. BodyPlayed(b) /\ desc[b] \in Desc \cup {None}
      BY <2>1, SoundFacts DEF TypeOK
    <3> QED
      BY <3>1 DEF BodyPlayed, Freed
  <2>2. ASSUME NEW m \in live' \cap Mob PROVE m \in world' /\ MobPlayed(m)'
    <3>1. m \in world /\ MobPlayed(m) /\ desc[m] \in Desc \cup {None}
      BY <2>2, SoundFacts DEF TypeOK
    <3>2. m \in world'
      BY <2>2, <3>1
    <3> QED
      BY <1>0, <3>1, <3>2 DEF MobPlayed, Freed, Outside
  <2>3. ASSUME NEW d \in Desc, ~ Freed(d)', original'[d] # None
        PROVE  body'[d] \in Mob \cap live' /\ desc'[body'[d]] = d
    <3>1. ~ Freed(d) /\ body[d] \in Mob \cap live /\ desc[body[d]] = d /\ body[d] \in world
      BY <2>3, SoundFacts
    <3>2. body[d] \in world'
      BY <2>3, <3>1
    <3> QED
      BY <1>3, <3>1, <3>2 DEF Undefined
  <2>4. \A d \in Desc : Outside(d)' => Claims(d)' \cap world' = {}
    BY <1>0, SoundFacts DEF Claims
  <2>5. \A d, e \in Desc : Outside(d)' /\ Outside(e)' /\ d # e => Claims(d)' \cap Claims(e)' = {}
    BY <1>0, SoundFacts DEF Claims
  <2> QED
    BY <2>1, <2>2, <2>3, <2>4, <2>5 DEF Claimed
<1> QED
  BY <1>1, <1>2, <1>3

\* Out of the game a descriptor drops its body, and may take an unused one.
LEMMA TakesBody ==
    ASSUME Sound, NEW d \in Desc, Outside(d), NEW k \in {"login", "menu"}, NEW b \in Body \cup {None},
           b # None => Unused(b, d) /\ b \notin world,
           conn' = [conn EXCEPT ![d] = k],
           body' = [body EXCEPT ![d] = b],
           live' = (live \ {body[d]}) \cup ({b} \ {None}),
           desc' = IF b = None THEN desc ELSE [desc EXCEPT ![b] = d],
           \A x \in Body \ {b} : who'[x] = who[x],
           UNCHANGED <<original, world>>
    PROVE  DescPlays' /\ OnePerson' /\ (~ Undefined' => Claimed')
<1>0. /\ Players' = Players /\ b \notin Players
      /\ conn \in [Desc -> Conn] /\ body \in [Desc -> Being \cup {None}]
      /\ desc \in [Being -> Desc \cup {None}] /\ None \notin Being /\ None \notin Desc
      /\ Body \subseteq Being /\ Mob \subseteq Being /\ Body \cap Mob = {}
      /\ ~ Freed(d)
  BY SoundFacts DEF Players, TypeOK, Outside, Freed
<1>00. /\ \A c \in Desc : (Freed(c)' <=> Freed(c)) /\ (Outside(c)' <=> Outside(c))
       /\ \A c \in Desc \ {d} : conn'[c] = conn[c] /\ body'[c] = body[c]
       /\ body'[d] = b
       /\ \A c \in Being \ {b} : desc'[c] = desc[c]
       /\ b # None => desc'[b] = d
  BY <1>0 DEF Freed, Outside
<1>1. DescPlays'
  <2>1. ASSUME NEW c \in Players', desc'[c] # None, ~ Freed(desc[c])' PROVE body'[desc'[c]] = c
    <3>1. c \in live \cap Body /\ BodyPlayed(c) /\ c # b /\ desc[c] # d /\ c \in Being
      BY <1>0, <2>1, SoundFacts, OutsideFree
    <3>2. desc'[c] = desc[c] /\ desc[c] \in Desc
      BY <1>0, <1>00, <2>1, <3>1
    <3> QED
      BY <1>00, <2>1, <3>1, <3>2 DEF BodyPlayed, Freed
  <2> QED
    BY <2>1 DEF DescPlays, Freed
<1>2. OnePerson'
  <2>1. \A p \in Players : who'[p] = who[p]
    BY <1>0 DEF Players
  <2> QED
    BY <1>0, <2>1, SoundFacts DEF OnePerson
<1>3. ASSUME ~ Undefined' PROVE Claimed'
  <2>0. world \subseteq live' /\ original[d] = None
    <3>1. world \subseteq live'
      BY <1>3 DEF Undefined
    <3>2. ASSUME original[d] # None PROVE FALSE
      <4>1. body[d] \in Mob \cap live /\ body[d] \in world
        BY <1>0, <3>2, SoundFacts
      <4> QED
        BY <1>0, <3>1, <4>1
    <3> QED
      BY <3>1, <3>2
  <2>1. ASSUME NEW c \in live' \cap Body PROVE BodyPlayed(c)'
    <3>1. CASE c = b
      BY <1>0, <1>00, <2>1, <3>1 DEF BodyPlayed, Freed
    <3>2. CASE c # b
      <4>1. c \in live /\ c # body[d] /\ BodyPlayed(c) /\ desc'[c] = desc[c] /\ desc[c] \in Desc \cup {None}
        BY <1>0, <1>00, <2>1, <3>2, SoundFacts
      <4>2. desc[c] # d
        BY <1>0, <4>1 DEF BodyPlayed
      <4> QED
        BY <1>00, <4>1, <4>2 DEF BodyPlayed, Freed
    <3> QED
      BY <3>1, <3>2
  <2>2. ASSUME NEW m \in live' \cap Mob PROVE m \in world' /\ MobPlayed(m)'
    <3>1. m \in live /\ m # body[d] /\ m \in world /\ MobPlayed(m) /\ desc'[m] = desc[m] /\ desc[m] \in Desc \cup {None}
      BY <1>0, <1>00, <2>2, SoundFacts
    <3>2. desc[m] # d
      BY <1>0, <3>1 DEF MobPlayed, Outside
    <3> QED
      BY <1>00, <3>1, <3>2 DEF MobPlayed, Freed
  <2>3. ASSUME NEW c \in Desc, ~ Freed(c)', original'[c] # None
        PROVE  body'[c] \in Mob \cap live' /\ desc'[body'[c]] = c
    <3>1. c # d /\ body[c] \in Mob \cap live /\ desc[body[c]] = c /\ body[c] \in world
      BY <1>00, <2>0, <2>3, SoundFacts
    <3> QED
      BY <1>0, <1>00, <2>0, <3>1
  <2>4. Claims(d)' \subseteq {b} /\ \A c \in Desc \ {d} : Claims(c)' = Claims(c)
    BY <1>0, <1>00, <2>0 DEF Claims
  <2>5. ASSUME NEW c \in Desc, Outside(c)' PROVE Claims(c)' \cap world' = {}
    <3>1. Claims(c) \cap world = {} /\ Claims(c) \subseteq Body
      BY <1>00, <2>5, SoundFacts DEF Claims
    <3> QED
      BY <1>0, <2>4, <3>1 DEF Claims
  <2>6. ASSUME NEW c \in Desc \ {d}, Outside(c)' PROVE Claims(c)' \cap Claims(d)' = {}
    <3>1. ~ Freed(c) /\ (b # None => b \notin Claims(c))
      BY <1>00, <2>6, SoundFacts DEF Unused, Claims
    <3>2. None \notin Claims(c)
      BY <1>0 DEF Claims
    <3> QED
      BY <2>4, <2>6, <3>1, <3>2
  <2>7. \A c, e \in Desc : Outside(c)' /\ Outside(e)' /\ c # e => Claims(c)' \cap Claims(e)' = {}
    BY <1>00, <2>4, <2>6, SoundFacts
  <2> QED
    BY <2>1, <2>2, <2>3, <2>5, <2>7 DEF Claimed
<1> QED
  BY <1>1, <1>2, <1>3

\* d takes over t, which is in the game: the descriptor t had lets go of it.
LEMMA TakesOver ==
    ASSUME Sound, NEW d \in Desc, Outside(d), NEW t \in Players, Reconnect(d, t, body[d])
    PROVE  DescPlays' /\ OnePerson' /\ (~ Undefined' => Claimed')
<1>1. CASE GoWild
  <2>1. Sound /\ UNCHANGED <<conn, body, original, desc, who, live, world>> /\ Undefined'
    BY <1>1 DEF GoWild, Undefined
  <2> QED
    BY <2>1, StillSound DEF Freed, Outside
<1>2. CASE ~ GoWild
  <2> DEFINE e == desc[t]
  <2>0. /\ conn \in [Desc -> Conn] /\ body \in [Desc -> Being \cup {None}]
        /\ desc \in [Being -> Desc \cup {None}] /\ None \notin Being /\ None \notin Desc
        /\ Body \subseteq Being /\ Mob \subseteq Being /\ Body \cap Mob = {}
        /\ ~ Freed(d) /\ t \in Body \cap live /\ t \in world /\ t \in Being
        /\ body[d] # t /\ original[d] # t /\ e # d /\ e \in Desc \cup {None}
    BY SoundFacts, OutsideFree DEF TypeOK, Players
  <2>1. /\ e # None => ~ Freed(e) /\ body[e] = t
        /\ conn' = [c \in Desc |-> IF c = d THEN "playing"
                                   ELSE IF c # e THEN conn[c]
                                   ELSE IF e # None /\ e \notin open THEN "free" ELSE "close"]
        /\ body' = [c \in Desc |-> IF c = d THEN t ELSE IF c = e THEN None ELSE body[c]]
        /\ desc' = [desc EXCEPT ![t] = d]
        /\ live' = live \ {body[d]}
        /\ UNCHANGED <<original, world, who>>
    <3>1. BodyPlayed(t)
      BY <2>0, SoundFacts
    <3> QED
      BY <1>2, <2>0, <3>1 DEF Reconnect, BodyPlayed
  <2>2. /\ \A c \in Desc \ {d, e} : conn'[c] = conn[c] /\ body'[c] = body[c]
        /\ body'[d] = t /\ conn'[d] = "playing"
        /\ e # None => body'[e] = None /\ conn'[e] \in {"free", "close"}
        /\ \A c \in Being \ {t} : desc'[c] = desc[c]
        /\ desc'[t] = d
    BY <2>0, <2>1
  <2>3. /\ \A c \in Desc : Outside(c)' => c \notin {d, e} /\ Outside(c)
        /\ \A c \in Desc : ~ Freed(c)' => ~ Freed(c)
        /\ Players' = Players
    BY <2>0, <2>1, <2>2 DEF Outside, Freed, Players
  <2>4. DescPlays'
    <3>1. ASSUME NEW c \in Players', desc'[c] # None, ~ Freed(desc[c])' PROVE body'[desc'[c]] = c
      <4>1. CASE c = t
        BY <2>2, <4>1
      <4>2. CASE c # t
        <5>1. c \in Players
          BY <2>3
        <5>2. c \in live \cap Body /\ BodyPlayed(c) /\ desc[c] # d /\ c \in Being
          BY <2>0, <5>1, SoundFacts, OutsideFree
        <5>3. desc'[c] = desc[c] /\ desc[c] \in Desc /\ ~ Freed(desc[c])
          BY <2>0, <2>2, <2>3, <3>1, <4>2, <5>2 DEF Freed
        <5>4. desc[c] # e
          BY <2>0, <2>1, <4>2, <5>2, <5>3 DEF BodyPlayed
        <5> QED
          BY <2>0, <2>2, <5>2, <5>3, <5>4 DEF BodyPlayed
      <4> QED
        BY <4>1, <4>2
    <3> QED
      BY <3>1 DEF DescPlays, Freed
  <2>5. OnePerson'
    BY <2>1, <2>3, SoundFacts DEF OnePerson
  <2>6. ASSUME ~ Undefined' PROVE Claimed'
    <3>0. world \subseteq live' /\ original[d] = None
      <4>1. world \subseteq live'
        BY <2>1, <2>6 DEF Undefined
      <4>2. ASSUME original[d] # None PROVE FALSE
        <5>1. body[d] \in Mob \cap live /\ body[d] \in world
          BY <2>0, <4>2, SoundFacts
        <5> QED
          BY <2>1, <4>1, <5>1
      <4> QED
        BY <4>1, <4>2
    <3>1. ASSUME NEW c \in live' \cap Body PROVE BodyPlayed(c)'
      <4>1. CASE c = t
        BY <2>2, <4>1 DEF BodyPlayed
      <4>2. CASE c # t
        <5>1. c \in live /\ c # body[d] /\ BodyPlayed(c) /\ desc'[c] = desc[c] /\ desc[c] \in Desc \cup {None}
          BY <2>0, <2>1, <2>2, <3>1, <4>2, SoundFacts
        <5>2. desc[c] # d /\ (desc[c] # None => desc[c] # e)
          BY <2>0, <2>1, <4>2, <5>1 DEF BodyPlayed
        <5> QED
          BY <2>0, <2>2, <2>3, <5>1, <5>2 DEF BodyPlayed, Freed
      <4> QED
        BY <4>1, <4>2
    <3>2. ASSUME NEW m \in live' \cap Mob PROVE m \in world' /\ MobPlayed(m)'
      <4>1. /\ m \in live /\ m # body[d] /\ m \in world /\ MobPlayed(m) /\ m # t
            /\ desc'[m] = desc[m] /\ desc[m] \in Desc \cup {None}
        BY <2>0, <2>1, <2>2, <3>2, SoundFacts
      <4>2. desc[m] # d /\ (desc[m] # None => desc[m] # e)
        BY <2>0, <2>1, <4>1 DEF MobPlayed, Outside
      <4> QED
        BY <2>0, <2>1, <2>2, <2>3, <4>1, <4>2 DEF MobPlayed, Freed
    <3>3. ASSUME NEW c \in Desc, ~ Freed(c)', original'[c] # None
          PROVE  body'[c] \in Mob \cap live' /\ desc'[body'[c]] = c
      <4>1. c # d /\ body[c] \in Mob \cap live /\ desc[body[c]] = c /\ body[c] \in world
        BY <2>1, <2>3, <3>0, <3>3, SoundFacts
      <4>2. c # e
        BY <2>0, <2>1, <4>1
      <4> QED
        BY <2>0, <2>2, <3>0, <4>1, <4>2
    <3>4. \A c \in Desc : Outside(c)' => Claims(c)' = Claims(c)
      BY <2>1, <2>2, <2>3 DEF Claims
    <3>5. /\ \A c \in Desc : Outside(c)' => Claims(c)' \cap world' = {}
          /\ \A c, f \in Desc : Outside(c)' /\ Outside(f)' /\ c # f => Claims(c)' \cap Claims(f)' = {}
      BY <2>1, <2>3, <3>4, SoundFacts
    <3> QED
      BY <3>1, <3>2, <3>3, <3>5 DEF Claimed
  <2> QED
    BY <2>4, <2>5, <2>6
<1> QED
  BY <1>1, <1>2

\* Into the game as the first body of a stored character.
LEMMA FirstEntry ==
    ASSUME Sound, NEW d \in Desc, conn[d] = "menu", body[d] \in live, body[d] \notin world,
           InPlay(who[body[d]]) = {},
           world' = world \cup {body[d]},
           conn' = [conn EXCEPT ![d] = "playing"],
           UNCHANGED <<body, original, live, who, desc>>
    PROVE  DescPlays' /\ OnePerson' /\ (~ Undefined' => Claimed')
<1> DEFINE b == body[d]
<1>0. /\ conn \in [Desc -> Conn] /\ desc \in [Being -> Desc \cup {None}] /\ world \subseteq live
      /\ None \notin Desc /\ live \subseteq Being /\ Body \subseteq Being
  BY SoundFacts DEF TypeOK
<1>1. b \in Body /\ Outside(d) /\ Body \cap Mob = {}
  BY <1>0, SoundFacts DEF Being, Outside
<1>2. /\ \A c \in Desc : (Freed(c)' <=> Freed(c)) /\ (Outside(c)' => Outside(c) /\ c # d)
      /\ \A c \in Desc : Claims(c)' = Claims(c)
  BY <1>0 DEF Freed, Outside, Claims
<1>3. \A c \in live \cap Body : BodyPlayed(c)'
  <2>1. ASSUME NEW c \in live \cap Body PROVE BodyPlayed(c)'
    <3>1. BodyPlayed(c) /\ desc[c] \in Desc \cup {None}
      BY <1>0, SoundFacts
    <3> QED
      BY <1>0, <1>2, <3>1 DEF BodyPlayed, Freed
  <2> QED
    BY <2>1
<1>4. DescPlays'
  BY <1>0, <1>3 DEF DescPlays, BodyPlayed, Players, Freed
<1>5. OnePerson'
  <2>1. \A c \in Players : who[c] # who[b]
    BY DEF InPlay
  <2> QED
    BY <1>1, <2>1, SoundFacts DEF OnePerson, Players
<1>6. Claimed'
  <2>1. ASSUME NEW m \in live \cap Mob PROVE m \in world' /\ MobPlayed(m)'
    <3>1. m \in world /\ MobPlayed(m) /\ desc[m] \in Desc \cup {None}
      BY <1>0, SoundFacts
    <3> QED
      BY <1>0, <1>2, <3>1 DEF MobPlayed, Freed, Outside
  <2>2. \A c \in Desc : ~ Freed(c)' /\ original'[c] # None =>
            body'[c] \in Mob \cap live' /\ desc'[body'[c]] = c
    BY <1>2, SoundFacts
  <2>3. ASSUME NEW c \in Desc, Outside(c)' PROVE Claims(c)' \cap world' = {}
    <3>1. Claims(c) \cap world = {} /\ Claims(c) \cap Claims(d) = {} /\ b \in Claims(d)
      BY <1>1, <1>2, <2>3, SoundFacts DEF Claims
    <3> QED
      BY <1>2, <3>1
  <2>4. \A c, e \in Desc : Outside(c)' /\ Outside(e)' /\ c # e => Claims(c)' \cap Claims(e)' = {}
    BY <1>2, SoundFacts
  <2> QED
    BY <1>3, <2>1, <2>2, <2>3, <2>4 DEF Claimed
<1> QED
  BY <1>4, <1>5, <1>6

\* extract_char: who returns to the body it left takes nobody else with it.
LEMMA Leaves ==
    ASSUME Sound, NEW b \in Body, NEW cut \in Desc \cup {None}, NEW respawn,
           cut # None => cut = desc[b] /\ ~ Freed(cut),
           Extract(b, cut, respawn)
    PROVE  DescPlays' /\ OnePerson' /\ (~ Undefined' => Claimed')
<1>1. CASE GoWild
  <2>1. Sound /\ UNCHANGED <<conn, body, original, desc, who, live, world>> /\ Undefined'
    BY <1>1 DEF GoWild, Undefined
  <2> QED
    BY <2>1, StillSound DEF Freed, Outside
<1>2. CASE ~ GoWild
  <2>0. /\ conn \in [Desc -> Conn] /\ body \in [Desc -> Being \cup {None}]
        /\ desc \in [Being -> Desc \cup {None}] /\ original \in [Desc -> Body \cup {None}]
        /\ None \notin Being /\ None \notin Desc
        /\ Body \subseteq Being /\ Mob \subseteq Being /\ Body \cap Mob = {}
        /\ live \subseteq Being /\ world \subseteq live
    BY SoundFacts DEF TypeOK
  <2> DEFINE d0 == IF cut = None THEN desc[b] ELSE None
             back == IF d0 = None THEN LeftBehind(b) ELSE {}
  <2>1. PICK d \in IF back = {} THEN {d0} ELSE back :
          LET dd == [c \in Being |-> IF c = b THEN d
                                     ELSE IF \E t \in back : body[t] = c THEN None ELSE desc[c]]
              stays == d \in open /\ respawn
              dies == d \notin open
          IN  IF \/ b \notin world \/ SnoopStray(cut, desc)
                 \/ d # None /\ (Freed(d) \/ SnoopStray(d, dd)) THEN GoWild
              ELSE /\ body' = [t \in Desc |-> IF t \in back THEN b ELSE body[t]]
                   /\ original' = [t \in Desc |-> IF t \in back THEN None ELSE original[t]]
                   /\ desc' = dd
                   /\ world' = IF stays THEN world ELSE world \ {b}
                   /\ live' = IF dies THEN live \ {b} ELSE live
                   /\ conn' = [t \in Desc |-> IF t = cut THEN "free" ELSE IF t # d \/ stays THEN conn[t]
                                              ELSE IF dies THEN "free" ELSE "menu"]
                   /\ open' = open \ {cut}
                   /\ ForgetSnooping({d}, Snoopers(cut, desc) \cup Snoopers(d, dd),
                                          Victims(cut, desc) \cup Victims(d, dd))
                   /\ UNCHANGED <<who, wild>>
    BY Zenon DEF Extract
  <2>2. /\ b \in world /\ (d # None => ~ Freed(d))
        /\ body' = [t \in Desc |-> IF t \in back THEN b ELSE body[t]]
        /\ original' = [t \in Desc |-> IF t \in back THEN None ELSE original[t]]
        /\ desc' = [c \in Being |-> IF c = b THEN d
                                    ELSE IF \E t \in back : body[t] = c THEN None ELSE desc[c]]
        /\ world' = IF d \in open /\ respawn THEN world ELSE world \ {b}
        /\ live' = IF d \notin open THEN live \ {b} ELSE live
        /\ conn' = [t \in Desc |-> IF t = cut THEN "free" ELSE IF t # d \/ (d \in open /\ respawn) THEN conn[t]
                                   ELSE IF d \notin open THEN "free" ELSE "menu"]
        /\ who' = who
    BY <1>2, <2>1
  <2>3. ASSUME NEW t \in back
        PROVE  t \in Desc /\ ~ Freed(t) /\ original[t] = b /\ body[t] \in Mob \cap live /\ desc[body[t]] = t
    BY <2>0, SoundFacts DEF LeftBehind
  <2>4. b \in Players /\ b \in live /\ BodyPlayed(b) /\ d \in Desc \cup {None}
    BY <2>0, <2>1, <2>2, <2>3, SoundFacts DEF Players
  <2>5. d # None => body'[d] = b /\ original'[d] = None /\ (body[d] = b \/ original[d] = b)
    <3>1. CASE d \in back
      BY <2>2, <2>3, <3>1
    <3>2. CASE d \notin back /\ d # None
      <4>1. d = desc[b]
        BY <2>1, <3>2
      <4>2. body[d] = b
        BY <2>2, <2>4, <3>2, <4>1 DEF BodyPlayed
      <4>3. original[d] = None
        BY <2>0, <2>2, <2>4, <3>2, <4>2, SoundFacts
      <4> QED
        BY <2>2, <2>4, <3>2, <4>2, <4>3
    <3> QED
      BY <3>1, <3>2
  <2>6. /\ \A t \in Desc : ~ Freed(t)' => ~ Freed(t)
        /\ \A t \in Desc : t # d /\ Outside(t)' => Outside(t)
        /\ \A t \in Desc \ back : body'[t] = body[t] /\ original'[t] = original[t]
    BY <2>0, <2>2, <2>4 DEF Freed, Outside
  <2>7. d # None /\ Outside(d)' => b \notin world'
    <3>1. ASSUME d # None, Outside(d)', b \in world' PROVE FALSE
      <4>1. Outside(d) /\ d \in Desc
        BY <2>0, <2>2, <2>4, <3>1 DEF Outside
      <4> QED
        BY <2>4, <2>5, <3>1, <4>1, OutsideFree
    <3> QED
      BY <3>1
  <2>8. /\ world' \subseteq world /\ live' \subseteq live /\ world \ {b} \subseteq world'
        /\ live \ {b} \subseteq live'
    BY <2>2
  <2>9. ASSUME NEW c \in live \cap Body PROVE BodyPlayed(c)'
    <3>1. CASE c = b
      BY <2>0, <2>2, <2>5, <3>1 DEF BodyPlayed
    <3>2. CASE c # b
      <4>1. BodyPlayed(c) /\ desc'[c] = desc[c] /\ desc[c] \in Desc \cup {None}
        BY <2>0, <2>2, <2>3, <2>9, <3>2, SoundFacts
      <4>2. ASSUME desc[c] # None, ~ Freed(desc[c]) PROVE desc[c] \notin back
        BY <2>0, <2>3, <4>1, <4>2 DEF BodyPlayed
      <4> QED
        BY <2>6, <4>1, <4>2 DEF BodyPlayed, Freed
    <3> QED
      BY <3>1, <3>2
  <2>10. DescPlays'
    BY <2>8, <2>9, <2>0 DEF DescPlays, BodyPlayed, Players, Freed
  <2>11. OnePerson'
    BY <2>2, <2>8, SoundFacts DEF OnePerson, Players
  <2>12. ASSUME NEW m \in live' \cap Mob PROVE m \in world' /\ MobPlayed(m)'
    <3>1. m \in world' /\ m # b /\ MobPlayed(m) /\ desc[m] \in Desc \cup {None} /\ m # None
      BY <2>0, <2>8, <2>12, SoundFacts
    <3>2. CASE desc'[m] = None
      BY <3>1, <3>2 DEF MobPlayed
    <3>3. CASE desc'[m] # None
      <4>1. desc'[m] = desc[m] /\ \A t \in back : body[t] # m
        BY <2>0, <2>2, <3>1, <3>3
      <4>2. ASSUME ~ Freed(desc[m]) PROVE desc[m] \notin back /\ desc[m] # d
        <5>1. body[desc[m]] \in {m, None}
          BY <3>1, <3>3, <4>1, <4>2 DEF MobPlayed
        <5>2. desc[m] \notin back
          BY <2>0, <2>3, <4>1, <5>1
        <5>3. desc[m] # d
          BY <2>0, <2>4, <2>5, <2>6, <3>1, <3>3, <4>1, <5>1, <5>2
        <5> QED
          BY <5>2, <5>3
      <4> QED
        BY <2>6, <3>1, <4>1, <4>2 DEF MobPlayed, Freed, Outside
    <3> QED
      BY <3>2, <3>3
  <2>13. ASSUME NEW t \in Desc, ~ Freed(t)', original'[t] # None
         PROVE  body'[t] \in Mob \cap live' /\ desc'[body'[t]] = t
    <3>1. t \notin back
      BY <2>2, <2>13
    <3>2. ~ Freed(t) /\ body[t] \in Mob \cap live /\ desc[body[t]] = t /\ body'[t] = body[t]
      BY <2>6, <2>13, <3>1, SoundFacts
    <3>3. \A s \in back : body[s] # body[t]
      BY <2>3, <3>1, <3>2
    <3> QED
      BY <2>0, <2>2, <2>8, <3>2, <3>3
  <2>14. ASSUME NEW t \in Desc, t # d, Outside(t)' PROVE Outside(t) /\ b \notin Claims(t) /\ Claims(t)' = Claims(t)
    <3>1. Outside(t) /\ Claims(t) \cap world = {}
      BY <2>6, <2>14, SoundFacts
    <3>2. b \notin Claims(t) /\ t \notin back
      BY <2>2, <2>3, <3>1 DEF Claims
    <3> QED
      BY <2>6, <3>1, <3>2 DEF Claims
  <2>15. d # None => Claims(d)' = {b}
    BY <2>0, <2>5 DEF Claims
  <2>16. ASSUME NEW t \in Desc, Outside(t)' PROVE Claims(t)' \cap world' = {}
    <3>1. CASE t = d
      BY <2>0, <2>7, <2>15, <2>16, <3>1
    <3>2. CASE t # d
      BY <2>8, <2>14, <2>16, <3>2, SoundFacts
    <3> QED
      BY <3>1, <3>2
  <2>17. ASSUME NEW t \in Desc, NEW u \in Desc, Outside(t)', Outside(u)', t # u
         PROVE  Claims(t)' \cap Claims(u)' = {}
    <3>1. CASE t = d
      BY <2>0, <2>14, <2>15, <2>17, <3>1
    <3>2. CASE u = d
      BY <2>0, <2>14, <2>15, <2>17, <3>2
    <3>3. CASE t # d /\ u # d
      BY <2>14, <2>17, <3>3, SoundFacts
    <3> QED
      BY <3>1, <3>2, <3>3
  <2>18. Claimed'
    BY <2>8, <2>9, <2>12, <2>13, <2>16, <2>17 DEF Claimed
  <2> QED
    BY <2>10, <2>11, <2>18
<1> QED
  BY <1>1, <1>2

\* do_return, by command or because the mobile dies.
LEMMA ComesBack ==
    ASSUME Sound, NEW c \in live, NEW e \in Desc, e = desc[c], ~ Freed(e), original[e] # None,
           BackFrom(c, e), conn' = conn, who' = who,
           \/ live' = live /\ world' = world
           \/ live' = live \ {c} /\ world' = world \ {c}
    PROVE  DescPlays' /\ OnePerson' /\ (~ Undefined' => Claimed')
<1> DEFINE o == original[e]
<1>0. /\ body \in [Desc -> Being \cup {None}]
      /\ desc \in [Being -> Desc \cup {None}] /\ original \in [Desc -> Body \cup {None}]
      /\ None \notin Being /\ None \notin Desc /\ live \subseteq Being /\ Being = Body \cup Mob
      /\ Body \subseteq Being /\ Mob \subseteq Being /\ Body \cap Mob = {}
      /\ o \in Body
  BY SoundFacts DEF TypeOK, Being
<1>1. c \in Mob /\ body[e] = c
  <2>1. body[e] \in Mob
    BY SoundFacts
  <2>2. CASE c \in Body
    <3>1. body[e] = c
      BY <1>0, <2>2, SoundFacts DEF BodyPlayed
    <3> QED
      BY <1>0, <2>1, <2>2, <3>1
  <2>3. CASE c \in Mob
    <3>1. body[e] \in {c, None}
      BY <1>0, <2>3, SoundFacts DEF MobPlayed
    <3> QED
      BY <1>0, <2>1, <2>3, <3>1
  <2> QED
    BY <1>0, <2>2, <2>3
<1>2. /\ body'[e] = o /\ original'[e] = None
      /\ \A t \in Desc \ {e} : body'[t] = body[t] /\ original'[t] = original[t]
      /\ desc'[o] = e /\ desc'[c] = None
      /\ \A x \in Being \ {o, c} : desc'[x] = desc[x]
      /\ \A t \in Desc : (Freed(t)' <=> Freed(t)) /\ (Outside(t)' <=> Outside(t))
  BY <1>0, <1>1 DEF BackFrom, Freed, Outside
<1>3. ASSUME NEW b \in live \cap Body PROVE BodyPlayed(b)'
  <2>1. CASE b = o
    BY <1>2, <2>1 DEF BodyPlayed
  <2>2. CASE b # o
    <3>1. BodyPlayed(b) /\ desc'[b] = desc[b] /\ desc[b] \in Desc \cup {None} /\ b # c
      BY <1>0, <1>1, <1>2, <1>3, <2>2, SoundFacts
    <3>2. desc[b] # e
      BY <1>0, <1>1, <3>1 DEF BodyPlayed
    <3> QED
      BY <1>2, <3>1, <3>2 DEF BodyPlayed, Freed
  <2> QED
    BY <2>1, <2>2
<1>4. DescPlays'
  BY <1>0, <1>3, SoundFacts DEF DescPlays, BodyPlayed, Players, Freed
<1>5. OnePerson'
  BY SoundFacts DEF OnePerson, Players
<1>6. ASSUME NEW m \in live' \cap Mob PROVE m \in world' /\ MobPlayed(m)'
  <2>1. m \in live /\ m \in world' /\ MobPlayed(m) /\ m # o
    BY <1>0, <1>6, SoundFacts
  <2>2. CASE m = c
    BY <1>2, <2>1, <2>2 DEF MobPlayed
  <2>3. CASE m # c
    <3>1. desc'[m] = desc[m] /\ desc[m] \in Desc \cup {None}
      BY <1>0, <1>2, <2>1, <2>3
    <3>2. desc[m] # e
      BY <1>0, <1>1, <2>1, <2>3 DEF MobPlayed
    <3> QED
      BY <1>2, <2>1, <3>1, <3>2 DEF MobPlayed, Freed, Outside
  <2> QED
    BY <2>2, <2>3
<1>7. ASSUME NEW t \in Desc, ~ Freed(t)', original'[t] # None
      PROVE  body'[t] \in Mob \cap live' /\ desc'[body'[t]] = t
  <2>1. t # e /\ body[t] \in Mob \cap live /\ desc[body[t]] = t
    BY <1>2, <1>7, SoundFacts
  <2>2. body[t] # c /\ body[t] # o
    BY <1>0, <2>1
  <2> QED
    BY <1>0, <1>2, <2>1, <2>2
<1>8. \A t \in Desc : Claims(t)' \subseteq Claims(t)
  BY <1>0, <1>2 DEF Claims
<1>9. \A t \in Desc : Outside(t)' => Claims(t)' \cap world' = {}
  BY <1>2, <1>8, SoundFacts
<1>10. ASSUME NEW t \in Desc, NEW u \in Desc, Outside(t)', Outside(u)', t # u
       PROVE  Claims(t)' \cap Claims(u)' = {}
  <2>1. Claims(t) \cap Claims(u) = {}
    BY <1>2, <1>10, SoundFacts
  <2> QED
    BY <1>8, <2>1
<1>11. Claimed'
  BY <1>3, <1>6, <1>7, <1>9, <1>10 DEF Claimed
<1> QED
  BY <1>4, <1>5, <1>11

\* do_switch: the body left behind has no descriptor until somebody returns.
LEMMA Switches ==
    ASSUME Sound, NEW b \in live \cap Body, NEW e \in Desc, e = desc[b], ~ Freed(e),
           NEW m \in world \cap Mob, desc[m] = None,
           body' = [body EXCEPT ![e] = m],
           original' = [original EXCEPT ![e] = b],
           desc' = [desc EXCEPT ![m] = e, ![b] = None],
           UNCHANGED <<conn, live, world, who>>
    PROVE  DescPlays' /\ OnePerson' /\ (~ Undefined' => Claimed')
<1>0. /\ body \in [Desc -> Being \cup {None}]
      /\ desc \in [Being -> Desc \cup {None}] /\ original \in [Desc -> Body \cup {None}]
      /\ None \notin Being /\ None \notin Desc /\ live \subseteq Being
      /\ Body \subseteq Being /\ Mob \subseteq Being /\ Body \cap Mob = {}
      /\ m \in live
  BY SoundFacts DEF TypeOK
<1>1. body[e] = b /\ original[e] = None
  <2>1. body[e] = b
    BY <1>0, SoundFacts DEF BodyPlayed
  <2> QED
    BY <1>0, <2>1, SoundFacts
<1>2. /\ body'[e] = m /\ original'[e] = b
      /\ \A t \in Desc \ {e} : body'[t] = body[t] /\ original'[t] = original[t]
      /\ desc'[m] = e /\ desc'[b] = None
      /\ \A x \in Being \ {m, b} : desc'[x] = desc[x]
      /\ \A t \in Desc : (Freed(t)' <=> Freed(t)) /\ (Outside(t)' <=> Outside(t))
  BY <1>0 DEF Freed, Outside
<1>3. ASSUME NEW c \in live \cap Body PROVE BodyPlayed(c)'
  <2>1. CASE c = b
    BY <1>2, <2>1 DEF BodyPlayed
  <2>2. CASE c # b
    <3>1. BodyPlayed(c) /\ desc'[c] = desc[c] /\ desc[c] \in Desc \cup {None}
      BY <1>0, <1>2, <1>3, <2>2, SoundFacts
    <3>2. desc[c] # e
      BY <1>0, <1>1, <2>2, <3>1 DEF BodyPlayed
    <3> QED
      BY <1>2, <3>1, <3>2 DEF BodyPlayed, Freed
  <2> QED
    BY <2>1, <2>2
<1>4. DescPlays'
  BY <1>0, <1>3, SoundFacts DEF DescPlays, BodyPlayed, Players, Freed
<1>5. OnePerson'
  BY SoundFacts DEF OnePerson, Players
<1>6. ASSUME NEW n \in live' \cap Mob PROVE n \in world' /\ MobPlayed(n)'
  <2>1. n \in live /\ n \in world' /\ MobPlayed(n) /\ n # b
    BY <1>0, <1>6, SoundFacts
  <2>2. CASE n = m
    BY <1>2, <2>1, <2>2 DEF MobPlayed
  <2>3. CASE n # m
    <3>1. desc'[n] = desc[n] /\ desc[n] \in Desc \cup {None}
      BY <1>0, <1>2, <2>1, <2>3
    <3>2. desc[n] # e
      BY <1>0, <1>1, <2>1 DEF MobPlayed
    <3> QED
      BY <1>2, <2>1, <3>1, <3>2 DEF MobPlayed, Freed, Outside
  <2> QED
    BY <2>2, <2>3
<1>7. ASSUME NEW t \in Desc, ~ Freed(t)', original'[t] # None
      PROVE  body'[t] \in Mob \cap live' /\ desc'[body'[t]] = t
  <2>1. CASE t = e
    BY <1>0, <1>2, <2>1
  <2>2. CASE t # e
    <3>1. body[t] \in Mob \cap live /\ desc[body[t]] = t
      BY <1>2, <1>7, <2>2, SoundFacts
    <3>2. body[t] # m /\ body[t] # b
      BY <1>0, <3>1
    <3> QED
      BY <1>0, <1>2, <2>2, <3>1, <3>2
  <2> QED
    BY <2>1, <2>2
<1>8. \A t \in Desc : Claims(t)' = Claims(t)
  BY <1>0, <1>1, <1>2 DEF Claims
<1>9. /\ \A t \in Desc : Outside(t)' => Claims(t)' \cap world' = {}
      /\ \A t, u \in Desc : Outside(t)' /\ Outside(u)' /\ t # u => Claims(t)' \cap Claims(u)' = {}
  BY <1>2, <1>8, SoundFacts
<1>10. Claimed'
  BY <1>3, <1>6, <1>7, <1>9 DEF Claimed
<1> QED
  BY <1>4, <1>5, <1>10

\* A login takes the body back that its owner left by a switch.
LEMMA TakesBack ==
    ASSUME Sound, NEW d \in Desc, NEW p \in Person, LoginSwitched(d, p)
    PROVE  DescPlays' /\ OnePerson' /\ (~ Undefined' => Claimed')
<1>0. /\ conn \in [Desc -> Conn] /\ body \in [Desc -> Being \cup {None}]
      /\ desc \in [Being -> Desc \cup {None}] /\ original \in [Desc -> Body \cup {None}]
      /\ None \notin Being /\ None \notin Desc /\ live \subseteq Being /\ world \subseteq live
      /\ Body \subseteq Being /\ Mob \subseteq Being /\ Body \cap Mob = {}
      /\ conn[d] = "login" /\ Outside(d) /\ ~ Freed(d)
  BY SoundFacts DEF TypeOK, LoginSwitched, LoggingIn, Outside, Freed
<1>1. CASE GoWild
  <2>1. Sound /\ UNCHANGED <<conn, body, original, desc, who, live, world>> /\ Undefined'
    BY <1>1 DEF GoWild, Undefined
  <2> QED
    BY <2>1, StillSound DEF Freed, Outside
<1>2. CASE ~ GoWild
  <2>1. PICK m \in Switched(p) :
            /\ ~ Freed(desc[m])
            /\ body' = [body EXCEPT ![d] = original[desc[m]], ![desc[m]] = None]
            /\ original' = [original EXCEPT ![desc[m]] = None]
            /\ conn' = [conn EXCEPT ![d] = "playing", ![desc[m]] = "close"]
            /\ desc' = [desc EXCEPT ![original[desc[m]]] = d]
            /\ live' = live \ {body[d]}
            /\ UNCHANGED <<open, snooping, snoop_by, world, who, wild>>
    BY <1>2 DEF LoginSwitched
  <2>2. PICK e \in Desc : e = desc[m] /\ ~ Freed(e) /\ original[e] # None
    BY <1>0, <2>1 DEF Switched
  <2>3. PICK o \in Body : o = original[e]
    BY <1>0, <2>2
  <2>4. m \in world \cap Mob /\ m \in live /\ body[e] = m
    <3>1. m \in world \cap Mob /\ m \in live
      BY <1>0, <2>1 DEF Switched
    <3>2. body[e] \in {m, None} /\ body[e] \in Mob
      BY <1>0, <2>2, <3>1, SoundFacts DEF MobPlayed
    <3> QED
      BY <1>0, <3>1, <3>2
  <2>5. /\ o # None /\ body' = [body EXCEPT ![d] = o, ![e] = None]
        /\ original' = [original EXCEPT ![e] = None]
        /\ conn' = [conn EXCEPT ![d] = "playing", ![e] = "close"]
        /\ desc' = [desc EXCEPT ![o] = d]
        /\ live' = live \ {body[d]} /\ world' = world /\ who' = who
    BY <2>1, <2>2, <2>3
  <2>6. /\ \A t \in Desc \ {d, e} : conn'[t] = conn[t] /\ body'[t] = body[t]
        /\ \A t \in Desc \ {e} : original'[t] = original[t]
        /\ body'[e] = None /\ original'[e] = None /\ conn'[e] = "close"
        /\ d # e => body'[d] = o /\ conn'[d] = "playing"
        /\ desc'[o] = d /\ \A x \in Being \ {o} : desc'[x] = desc[x]
        /\ Players' = Players
    BY <1>0, <2>5 DEF Players
  <2>7. /\ \A t \in Desc : ~ Freed(t)' => ~ Freed(t)
        /\ \A t \in Desc : Outside(t)' => Outside(t) /\ t \notin {d, e}
    BY <1>0, <2>2, <2>5, <2>6 DEF Freed, Outside
  <2>8. ASSUME NEW c \in live \cap Body, c # o, BodyPlayed(c), desc[c] # d PROVE BodyPlayed(c)'
    <3>1. desc'[c] = desc[c] /\ desc[c] \in Desc \cup {None}
      BY <1>0, <2>6, <2>8
    <3>2. desc[c] # e
      BY <1>0, <2>2, <2>4, <2>8 DEF BodyPlayed
    <3> QED
      BY <2>6, <2>7, <2>8, <3>1, <3>2 DEF BodyPlayed, Freed
  <2>9. DescPlays'
    <3>1. ASSUME NEW c \in Players' PROVE BodyPlayed(c)'
      <4>1. c \in Players /\ c \in live \cap Body /\ BodyPlayed(c) /\ desc[c] # d /\ original[d] # c
        BY <1>0, <2>6, SoundFacts, OutsideFree
      <4>2. CASE c = o
        <5>1. d # e
          BY <2>3, <4>1, <4>2
        <5> QED
          BY <2>6, <4>2, <5>1 DEF BodyPlayed
      <4>3. CASE c # o
        BY <2>8, <4>1, <4>3
      <4> QED
        BY <4>2, <4>3
    <3> QED
      BY <3>1 DEF DescPlays, BodyPlayed, Freed
  <2>10. OnePerson'
    BY <2>5, <2>6, SoundFacts DEF OnePerson
  <2>11. ASSUME ~ Undefined' PROVE Claimed'
    <3>0. world \subseteq live' /\ original[d] = None /\ d # e
      <4>1. world \subseteq live'
        BY <2>5, <2>11 DEF Undefined
      <4>2. ASSUME original[d] # None PROVE FALSE
        <5>1. body[d] \in Mob \cap live /\ body[d] \in world
          BY <1>0, <4>2, SoundFacts
        <5> QED
          BY <2>5, <4>1, <5>1
      <4> QED
        BY <2>2, <4>1, <4>2
    <3>1. ASSUME NEW c \in live' \cap Body PROVE BodyPlayed(c)'
      <4>1. CASE c = o
        BY <2>6, <3>0, <4>1 DEF BodyPlayed
      <4>2. CASE c # o
        <5>1. c \in live /\ c # body[d] /\ BodyPlayed(c)
          BY <2>5, <3>1, SoundFacts
        <5>2. desc[c] # d
          BY <1>0, <5>1 DEF BodyPlayed
        <5> QED
          BY <2>8, <4>2, <5>1, <5>2
      <4> QED
        BY <4>1, <4>2
    <3>2. ASSUME NEW n \in live' \cap Mob PROVE n \in world' /\ MobPlayed(n)'
      <4>1. /\ n \in live /\ n # body[d] /\ n \in world' /\ MobPlayed(n) /\ n # o
            /\ desc'[n] = desc[n] /\ desc[n] \in Desc \cup {None}
        BY <1>0, <2>5, <2>6, <3>2, SoundFacts
      <4>2. desc[n] # d
        BY <1>0, <4>1 DEF MobPlayed, Outside
      <4> QED
        BY <2>6, <2>7, <4>1, <4>2 DEF MobPlayed, Freed, Outside
    <3>3. ASSUME NEW t \in Desc, ~ Freed(t)', original'[t] # None
          PROVE  body'[t] \in Mob \cap live' /\ desc'[body'[t]] = t
      <4>1. /\ t \notin {d, e} /\ body[t] \in Mob \cap live /\ desc[body[t]] = t /\ body[t] \in world
        BY <2>6, <2>7, <3>0, <3>3, SoundFacts
      <4> QED
        BY <1>0, <2>6, <3>0, <4>1
    <3>4. \A t \in Desc : Outside(t)' => Claims(t)' = Claims(t)
      BY <2>6, <2>7 DEF Claims
    <3>5. /\ \A t \in Desc : Outside(t)' => Claims(t)' \cap world' = {}
          /\ \A t, u \in Desc : Outside(t)' /\ Outside(u)' /\ t # u => Claims(t)' \cap Claims(u)' = {}
      BY <2>5, <2>7, <3>4, SoundFacts
    <3> QED
      BY <3>1, <3>2, <3>3, <3>5 DEF Claimed
  <2> QED
    BY <2>9, <2>10, <2>11
<1> QED
  BY <1>1, <1>2

\* A new connection has no body, and nobody is linked to it.
LEMMA Connects ==
    ASSUME Sound, NEW d \in Desc, Connect(d)
    PROVE  DescPlays' /\ OnePerson' /\ (~ Undefined' => Claimed')
<1>0. /\ conn \in [Desc -> Conn] /\ body \in [Desc -> Being \cup {None}]
      /\ desc \in [Being -> Desc \cup {None}] /\ original \in [Desc -> Body \cup {None}]
      /\ None \notin Being /\ None \notin Desc /\ live \subseteq Being /\ world \subseteq live
      /\ Body \subseteq Being /\ Mob \subseteq Being
      /\ Freed(d) /\ \A b \in live : desc[b] # d
  BY SoundFacts DEF TypeOK, Connect
<1>1. /\ body'[d] = None /\ original'[d] = None
      /\ \A t \in Desc \ {d} : /\ conn'[t] = conn[t] /\ body'[t] = body[t] /\ original'[t] = original[t]
                               /\ (Freed(t)' <=> Freed(t)) /\ (Outside(t)' <=> Outside(t))
      /\ UNCHANGED <<live, world, who, desc>>
  BY <1>0 DEF Connect, Freed, Outside
<1>2. ASSUME NEW c \in live \cap Body PROVE BodyPlayed(c)'
  BY <1>0, <1>1, SoundFacts DEF BodyPlayed, Freed
<1>3. DescPlays'
  BY <1>0, <1>1, <1>2 DEF DescPlays, BodyPlayed, Players, Freed
<1>4. OnePerson'
  BY <1>1, SoundFacts DEF OnePerson, Players
<1>5. ASSUME NEW m \in live' \cap Mob PROVE m \in world' /\ MobPlayed(m)'
  <2>1. m \in live /\ m \in world /\ MobPlayed(m) /\ desc[m] \in Desc \cup {None} /\ desc[m] # d
    BY <1>0, <1>1, <1>5, SoundFacts
  <2> QED
    BY <1>1, <2>1 DEF MobPlayed, Freed, Outside
<1>6. \A t \in Desc : ~ Freed(t)' /\ original'[t] # None => body'[t] \in Mob \cap live' /\ desc'[body'[t]] = t
  BY <1>1, SoundFacts
<1>7. Claims(d)' = {} /\ \A t \in Desc \ {d} : Claims(t)' = Claims(t)
  BY <1>0, <1>1 DEF Claims
<1>8. /\ \A t \in Desc : Outside(t)' => Claims(t)' \cap world' = {}
      /\ \A t, u \in Desc : Outside(t)' /\ Outside(u)' /\ t # u => Claims(t)' \cap Claims(u)' = {}
  BY <1>1, <1>7, SoundFacts
<1>9. Claimed'
  BY <1>1, <1>2, <1>5, <1>6, <1>8 DEF Claimed
<1> QED
  BY <1>3, <1>4, <1>9

\* A new mobile has no descriptor.
LEMMA Spawns ==
    ASSUME Sound, NEW m \in Mob, SpawnMob(m)
    PROVE  DescPlays' /\ OnePerson' /\ (~ Undefined' => Claimed')
<1>0. /\ desc \in [Being -> Desc \cup {None}] /\ m \notin live /\ m \notin world
      /\ None \notin Being /\ None \notin Desc /\ live \subseteq Being /\ world \subseteq live
      /\ Body \subseteq Being /\ Mob \subseteq Being /\ Body \cap Mob = {}
  BY SoundFacts DEF TypeOK, SpawnMob
<1>1. /\ UNCHANGED <<conn, body, original, who>>
      /\ live' = live \cup {m} /\ world' = world \cup {m}
      /\ desc'[m] = None /\ \A x \in Being \ {m} : desc'[x] = desc[x]
      /\ Players' = Players
  BY <1>0 DEF SpawnMob, Players
<1>2. ASSUME NEW c \in live' \cap Body PROVE BodyPlayed(c)'
  <2>1. c \in live /\ c # m /\ BodyPlayed(c) /\ desc'[c] = desc[c]
    BY <1>0, <1>1, <1>2, SoundFacts
  <2> QED
    BY <1>1, <2>1 DEF BodyPlayed, Freed
<1>3. DescPlays'
  BY <1>0, <1>1, <1>2 DEF DescPlays, BodyPlayed, Players, Freed
<1>4. OnePerson'
  BY <1>1, SoundFacts DEF OnePerson
<1>5. ASSUME NEW n \in live' \cap Mob PROVE n \in world' /\ MobPlayed(n)'
  BY <1>0, <1>1, SoundFacts DEF MobPlayed, Freed
<1>6. ASSUME NEW t \in Desc, ~ Freed(t)', original'[t] # None
      PROVE  body'[t] \in Mob \cap live' /\ desc'[body'[t]] = t
  <2>1. body[t] \in Mob \cap live /\ desc[body[t]] = t
    BY <1>1, <1>6, SoundFacts DEF Freed
  <2> QED
    BY <1>0, <1>1, <2>1
<1>7. /\ \A t \in Desc : Outside(t)' => Claims(t)' \cap world' = {}
      /\ \A t, u \in Desc : Outside(t)' /\ Outside(u)' /\ t # u => Claims(t)' \cap Claims(u)' = {}
  <2>1. \A t \in Desc : Claims(t)' = Claims(t) /\ (Outside(t)' <=> Outside(t)) /\ m \notin Claims(t)
    BY <1>0, <1>1 DEF Claims, Outside
  <2> QED
    BY <1>1, <2>1, SoundFacts
<1>8. Claimed'
  BY <1>2, <1>5, <1>6, <1>7 DEF Claimed
<1> QED
  BY <1>3, <1>4, <1>8

\* No step, however rare, leaves the types.
LEMMA RareTypes ==
    ASSUME TypeOK, ~ Undefined, Next
    PROVE  TypeOK'
<1>0. Being = Body \cup Mob /\ None \notin Being /\ None \notin Desc /\ live \subseteq Being
  BY BodyAssumption DEF TypeOK, Being
<1>1. ASSUME NEW own, NEW snoopers, NEW victims, ForgetSnooping(own, snoopers, victims)
      PROVE  snooping' \in [Desc -> Being \cup {None}] /\ snoop_by' \in [Desc -> Being \cup {None}]
  BY <1>1 DEF ForgetSnooping, TypeOK
<1>2. GoWild => TypeOK'
  BY DEF GoWild, TypeOK
<1>3. ASSUME NEW d \in Desc, NEW drop_all \in BOOLEAN, CloseSocket(d, drop_all) PROVE TypeOK'
  <2>1. CASE GoWild
    BY <1>2, <2>1
  <2>2. CASE ~ GoWild
    <3>1. snooping' \in [Desc -> Being \cup {None}] /\ snoop_by' \in [Desc -> Being \cup {None}]
      BY <1>1, <1>3, <2>2 DEF CloseSocket, LeaveSnooping
    <3> QED
      BY <1>3, <2>2, <3>1 DEF CloseSocket, TypeOK, Conn
  <2> QED
    BY <2>1, <2>2
<1>4. ASSUME NEW d \in Desc, NEW t \in Players, NEW old, Reconnect(d, t, old) PROVE TypeOK'
  <2>1. CASE GoWild
    BY <1>2, <2>1
  <2>2. CASE ~ GoWild
    <3>1. snooping' \in [Desc -> Being \cup {None}] /\ snoop_by' \in [Desc -> Being \cup {None}]
      BY <1>1, <1>4, <2>2 DEF Reconnect, LeaveSnooping, TypeOK
    <3> QED
      BY <1>0, <1>4, <2>2, <3>1 DEF Reconnect, TypeOK, Conn, Players
  <2> QED
    BY <2>1, <2>2
<1>5. ASSUME NEW b \in Body, NEW cut \in Desc \cup {None}, NEW respawn \in BOOLEAN, Extract(b, cut, respawn)
      PROVE  TypeOK'
  <2>1. CASE GoWild
    BY <1>2, <2>1
  <2>2. CASE ~ GoWild
    <3>1. snooping' \in [Desc -> Being \cup {None}] /\ snoop_by' \in [Desc -> Being \cup {None}]
      BY <1>1, <1>5, <2>2 DEF Extract
    <3>2. \E back \in SUBSET Desc, d \in Desc \cup {None}, stays \in BOOLEAN, dies \in BOOLEAN :
             /\ body' = [t \in Desc |-> IF t \in back THEN b ELSE body[t]]
             /\ original' = [t \in Desc |-> IF t \in back THEN None ELSE original[t]]
             /\ desc' = [c \in Being |-> IF c = b THEN d
                                         ELSE IF \E t \in back : body[t] = c THEN None ELSE desc[c]]
             /\ world' \subseteq world /\ live' \subseteq live
             /\ conn' = [t \in Desc |-> IF t = cut THEN "free" ELSE IF t # d \/ stays THEN conn[t]
                                        ELSE IF dies THEN "free" ELSE "menu"]
             /\ open' = open \ {cut}
             /\ UNCHANGED <<who, wild>>
      <4> DEFINE d0 == IF cut = None THEN desc[b] ELSE None
                 back == IF d0 = None THEN LeftBehind(b) ELSE {}
      <4>1. PICK d \in IF back = {} THEN {d0} ELSE back :
             /\ body' = [t \in Desc |-> IF t \in back THEN b ELSE body[t]]
             /\ original' = [t \in Desc |-> IF t \in back THEN None ELSE original[t]]
             /\ desc' = [c \in Being |-> IF c = b THEN d
                                         ELSE IF \E t \in back : body[t] = c THEN None ELSE desc[c]]
             /\ world' \subseteq world /\ live' \subseteq live
             /\ conn' = [t \in Desc |-> IF t = cut THEN "free" ELSE IF t # d \/ (d \in open /\ respawn) THEN conn[t]
                                        ELSE IF d \notin open THEN "free" ELSE "menu"]
             /\ open' = open \ {cut}
             /\ UNCHANGED <<who, wild>>
        BY <1>5, <2>2 DEF Extract
      <4>2. back \in SUBSET Desc /\ d \in Desc \cup {None}
        BY <1>0, <4>1 DEF LeftBehind, TypeOK
      <4>3. (d \in open /\ respawn) \in BOOLEAN /\ (d \notin open) \in BOOLEAN
        OBVIOUS
      <4> HIDE DEF back
      <4> QED
        BY <4>1, <4>2, <4>3
    <3>3. body' \in [Desc -> Being \cup {None}] /\ original' \in [Desc -> Body \cup {None}]
      BY <1>0, <3>2 DEF TypeOK
    <3>4. desc' \in [Being -> Desc \cup {None}]
      BY <1>0, <3>2 DEF TypeOK
    <3>5. conn' \in [Desc -> Conn]
      BY <1>0, <3>2 DEF TypeOK, Conn
    <3>6. open' \subseteq Desc /\ live' \subseteq Being /\ world' \subseteq Being /\ UNCHANGED <<who, wild>>
      BY <3>2 DEF TypeOK
    <3> QED
      BY <3>1, <3>3, <3>4, <3>5, <3>6 DEF TypeOK
  <2> QED
    BY <2>1, <2>2
<1>6. ASSUME NEW c \in live, NEW e \in Desc, BackFrom(c, e)
      PROVE  /\ body' \in [Desc -> Being \cup {None}] /\ original' \in [Desc -> Body \cup {None}]
             /\ desc' \in [Being -> Desc \cup {None}]
  BY <1>0, <1>6 DEF BackFrom, TypeOK
<1>7. ASSUME NEW d \in Desc,
             \/ Connect(d) \/ LoseLink(d) \/ PreLoginIdle(d) \/ CloseClosing(d) \/ Dc(d)
             \/ Refuse(d) \/ BlankName(d) \/ FirstInput(d) \/ LeaveMenu(d) \/ EnterGame(d)
             \/ Quit(d) \/ ServeFreed(d) \/ Switch(d) \/ Return(d) \/ LinkAccount(d) \/ LinkDone(d)
             \/ \E p \in Person : LoginSwitched(d, p) \/ LoginAgain(d, p) \/ LoginFresh(d, p)
             \/ \E v \in Being : Snoop(d, v)
      PROVE  TypeOK'
  <2>1. CASE LoseLink(d) \/ PreLoginIdle(d) \/ CloseClosing(d) \/ Dc(d)
    BY <1>3, <2>1 DEF LoseLink, PreLoginIdle, CloseClosing, Dc
  <2>2. CASE Connect(d) \/ Refuse(d) \/ LinkDone(d)
    BY <2>2 DEF Connect, Refuse, LinkDone, TypeOK, Conn
  <2>3. CASE BlankName(d) \/ ServeFreed(d)
    BY <1>2, <2>3 DEF BlankName, ServeFreed
  <2>4. CASE FirstInput(d)
    <3>1. PICK b \in Body : /\ body' = [body EXCEPT ![d] = b]
                            /\ live' = live \cup {b}
                            /\ desc' = [desc EXCEPT ![b] = d]
                            /\ who' = [who EXCEPT ![b] = None]
      BY <2>4 DEF FirstInput, Allocatable
    <3> QED
      BY <1>0, <2>4, <3>1 DEF FirstInput, TypeOK
  <2>5. CASE LeaveMenu(d)
    BY <2>5 DEF LeaveMenu, TypeOK, Conn
  <2>6. CASE EnterGame(d)
    <3>1. CASE \E t \in InPlay(who[body[d]]) : Reconnect(d, t, body[d])
      BY <1>4, <3>1 DEF InPlay
    <3>2. CASE ~ GoWild /\ ~ \E t \in InPlay(who[body[d]]) : Reconnect(d, t, body[d])
      BY <1>0, <2>6, <3>2 DEF EnterGame, TypeOK, Conn
    <3> QED
      BY <1>2, <3>1, <3>2
  <2>7. CASE Quit(d)
    BY <1>0, <1>5, <2>7 DEF Quit
  <2>8. CASE Switch(d)
    <3>1. CASE ~ GoWild
      <4>1. PICK b \in Body, e \in Desc, m \in Mob :
                /\ body' = [body EXCEPT ![e] = m]
                /\ original' = [original EXCEPT ![e] = b]
                /\ desc' = [desc EXCEPT ![m] = e, ![b] = None]
                /\ UNCHANGED <<conn, open, snooping, snoop_by, live, world, who, wild>>
        BY <1>0, <2>8, <3>1 DEF Switch, TypeOK
      <4> QED
        BY <1>0, <4>1 DEF TypeOK
    <3> QED
      BY <1>2, <3>1
  <2>9. CASE Return(d)
    <3>1. CASE ~ GoWild
      <4>1. /\ body[d] \in live /\ desc[body[d]] \in Desc /\ BackFrom(body[d], desc[body[d]])
            /\ UNCHANGED <<conn, open, snooping, snoop_by, live, world, who, wild>>
        BY <1>0, <2>9, <3>1 DEF Return, Commands, TypeOK
      <4> QED
        BY <1>6, <4>1 DEF TypeOK
    <3> QED
      BY <1>2, <3>1
  <2>10. CASE LinkAccount(d)
    BY <1>2, <2>10 DEF LinkAccount, TypeOK, Conn
  <2>11. CASE \E p \in Person : LoginSwitched(d, p)
    <3>1. CASE ~ GoWild
      <4>1. PICK m \in Mob :
            /\ desc[m] \in Desc /\ original[desc[m]] \in Body
            /\ body' = [body EXCEPT ![d] = original[desc[m]], ![desc[m]] = None]
            /\ original' = [original EXCEPT ![desc[m]] = None]
            /\ conn' = [conn EXCEPT ![d] = "playing", ![desc[m]] = "close"]
            /\ desc' = [desc EXCEPT ![original[desc[m]]] = d]
            /\ live' = live \ {body[d]}
            /\ UNCHANGED <<open, snooping, snoop_by, world, who, wild>>
        BY <1>0, <2>11, <3>1 DEF LoginSwitched, Switched, TypeOK
      <4> QED
        BY <1>0, <4>1 DEF TypeOK, Conn
    <3> QED
      BY <1>2, <3>1
  <2>12. CASE \E p \in Person : LoginAgain(d, p)
    BY <1>2, <1>4, <2>12 DEF LoginAgain, InPlay
  <2>13. CASE \E p \in Person : LoginFresh(d, p)
    <3>1. CASE ~ GoWild
      <4>1. PICK p \in Person, b \in Body :
            /\ body' = [body EXCEPT ![d] = b]
            /\ live' = (live \ {body[d]}) \cup {b}
            /\ desc' = [desc EXCEPT ![b] = d]
            /\ who' = [who EXCEPT ![b] = p]
            /\ conn' = [conn EXCEPT ![d] = "menu"]
            /\ UNCHANGED <<open, original, snooping, snoop_by, world, wild>>
        BY <2>13, <3>1 DEF LoginFresh, Allocatable
      <4> QED
        BY <1>0, <4>1 DEF TypeOK, Conn
    <3> QED
      BY <1>2, <3>1
  <2>14. CASE \E v \in Being : Snoop(d, v)
    <3>1. CASE ~ GoWild
      <4> DEFINE told == [g \in Desc |-> IF snooping[desc[body[d]]] # None /\ g = desc[snooping[desc[body[d]]]]
                                         THEN None ELSE snoop_by[g]]
      <4>1. PICK v \in Being :
                /\ snooping' = [snooping EXCEPT ![desc[body[d]]] = IF v = body[d] THEN None ELSE v]
                /\ snoop_by' = IF v = body[d] THEN told ELSE [told EXCEPT ![desc[v]] = body[d]]
                /\ body[d] \in live
                /\ UNCHANGED <<conn, open, body, original, live, world, who, desc, wild>>
        BY <2>14, <3>1 DEF Snoop, Commands
      <4>2. told \in [Desc -> Being \cup {None}]
        BY DEF TypeOK
      <4> HIDE DEF told
      <4>3. snoop_by' \in [Desc -> Being \cup {None}] /\ snooping' \in [Desc -> Being \cup {None}]
        BY <1>0, <4>1, <4>2 DEF TypeOK
      <4> QED
        BY <4>1, <4>3 DEF TypeOK
    <3> QED
      BY <1>2, <3>1
  <2> QED
    BY <1>7, <2>1, <2>2, <2>3, <2>4, <2>5, <2>6, <2>7, <2>8, <2>9, <2>10, <2>11, <2>12, <2>13, <2>14
<1>8. ASSUME NEW b \in Body, Die(b) \/ CastOut(b) PROVE TypeOK'
  <2>1. desc[b] \in Desc \cup {None}
    BY <1>0 DEF TypeOK
  <2> QED
    BY <1>2, <1>5, <1>8, <2>1 DEF Die, CastOut
<1>9. ASSUME NEW m \in Mob, SpawnMob(m) \/ KillMob(m) PROVE TypeOK'
  <2>1. CASE SpawnMob(m)
    BY <1>0, <2>1 DEF SpawnMob, TypeOK
  <2>2. CASE KillMob(m) /\ ~ GoWild
    <3>1. snooping' \in [Desc -> Being \cup {None}] /\ snoop_by' \in [Desc -> Being \cup {None}]
      BY <1>1, <2>2 DEF KillMob
    <3>2. /\ body' \in [Desc -> Being \cup {None}] /\ original' \in [Desc -> Body \cup {None}]
          /\ desc' \in [Being -> Desc \cup {None}]
      <4>1. desc[m] \in Desc \cup {None} /\ m \in live
        BY <1>0, <2>2 DEF KillMob, TypeOK, Undefined
      <4>2. (BackFrom(m, desc[m]) /\ desc[m] \in Desc) \/ UNCHANGED <<body, original, desc>>
        BY <2>2, <4>1 DEF KillMob
      <4> QED
        BY <1>6, <4>1, <4>2 DEF TypeOK
    <3> QED
      BY <2>2, <3>1, <3>2 DEF KillMob, TypeOK
  <2> QED
    BY <1>2, <1>9, <2>1, <2>2
<1> QED
  BY <1>7, <1>8, <1>9 DEF Next

\* Nobody is connected and nobody is in the game at first.
LEMMA RareInit == Init => RareIInv
<1>1. ASSUME Init PROVE RareIInv
  <2>1. TypeOK
    BY <1>1 DEF Init, TypeOK, Being, Conn
  <2>2. Players = {} /\ (\A d \in Desc : Freed(d) /\ ~ Outside(d)) /\ (\A b \in Being : desc[b] = None)
    BY <1>1, BodyAssumption DEF Init, Players, Freed, Outside
  <2> QED
    BY <1>1, <2>1, <2>2 DEF Init, RareIInv, DescPlays, OnePerson, Claimed, BodyPlayed, MobPlayed, Being
<1> QED
  BY <1>1

\* Every step of every game keeps it, the step that first goes wrong included.
LEMMA RareStep ==
    ASSUME RareIInv, [Next]_vars
    PROVE  RareIInv'
<1>1. CASE UNCHANGED vars
  <2>1. (TypeOK' <=> TypeOK) /\ (OnePerson' <=> OnePerson) /\ (DescPlays' <=> DescPlays) /\ (Undefined' <=> Undefined)
    BY <1>1 DEF vars, TypeOK, OnePerson, DescPlays, Undefined, Players, Freed
  <2>2. Claimed' <=> Claimed
    BY <1>1 DEF vars, Claimed, BodyPlayed, MobPlayed, Claims, Outside, Freed
  <2> QED
    BY <2>1, <2>2 DEF RareIInv
<1>2. CASE Next /\ ~ Undefined
  <2>1. Sound /\ TypeOK'
    BY <1>2, RareTypes DEF RareIInv, Sound, Undefined
  <2> DEFINE Goal == DescPlays' /\ OnePerson' /\ (~ Undefined' => Claimed')
  <2>2. GoWild => Goal
    <3>1. GoWild => UNCHANGED <<conn, body, original, desc, who, live, world>>
      BY DEF GoWild
    <3> QED
      BY <2>1, <3>1, StillSound DEF Freed, Outside
  <2> HIDE DEF Goal
  <2>3. ASSUME NEW d \in Desc, NEW drop_all \in BOOLEAN, CloseSocket(d, drop_all) PROVE Goal
    <3>1. CASE ~ GoWild
      <4>1. /\ UNCHANGED <<body, original, desc, who, world>> /\ live' \subseteq live
            /\ \/ conn' = [conn EXCEPT ![d] = "free"]
               \/ conn[d] = "playing" /\ conn' = [conn EXCEPT ![d] = "linkless"]
        BY <2>3, <3>1 DEF CloseSocket
      <4>2. \A t \in Desc : ~ Freed(t)' => ~ Freed(t) /\ (Outside(t)' => Outside(t))
        BY <2>1, <4>1 DEF Sound, TypeOK, Freed, Outside
      <4> QED
        BY <2>1, <4>1, <4>2, StillSound DEF Goal
    <3> QED
      BY <2>2, <3>1
  <2>4. ASSUME NEW d \in Desc, NEW k \in Conn \ {"free"}, k \in {"login", "menu"} => Outside(d), ~ Freed(d),
               conn' = [conn EXCEPT ![d] = k],
               UNCHANGED <<body, original, desc, who, live, world>>
        PROVE  Goal
    <3>1. \A t \in Desc : ~ Freed(t)' => ~ Freed(t) /\ (Outside(t)' => Outside(t))
      BY <2>1, <2>4 DEF Sound, TypeOK, Freed, Outside
    <3> QED
      BY <2>1, <2>4, <3>1, StillSound DEF Goal
  <2>5. ASSUME NEW d \in Desc,
               \/ Connect(d) \/ LoseLink(d) \/ PreLoginIdle(d) \/ CloseClosing(d) \/ Dc(d)
               \/ Refuse(d) \/ BlankName(d) \/ FirstInput(d) \/ LeaveMenu(d) \/ EnterGame(d)
               \/ Quit(d) \/ ServeFreed(d) \/ Switch(d) \/ Return(d) \/ LinkAccount(d) \/ LinkDone(d)
               \/ \E p \in Person : LoginSwitched(d, p) \/ LoginAgain(d, p) \/ LoginFresh(d, p)
               \/ \E v \in Being : Snoop(d, v)
        PROVE  Goal
    <3>0. /\ conn \in [Desc -> Conn] /\ body \in [Desc -> Being \cup {None}] /\ live \subseteq Being
          /\ desc \in [Being -> Desc \cup {None}] /\ who \in [Body -> Person \cup {None}]
          /\ open \subseteq Desc /\ world \subseteq live
          /\ None \notin Being /\ None \notin Desc /\ None \notin Body
      BY <2>1, BodyAssumption DEF Sound, TypeOK, Being
    <3>1. CASE Connect(d)
      BY <2>1, <3>1, Connects DEF Goal
    <3>2. CASE LoseLink(d) \/ PreLoginIdle(d) \/ CloseClosing(d) \/ Dc(d)
      BY <2>3, <3>2 DEF LoseLink, PreLoginIdle, CloseClosing, Dc
    <3>3. CASE Refuse(d) \/ LinkDone(d)
      BY <2>4, <3>3 DEF Refuse, LinkDone, Conn, Freed
    <3>4. CASE BlankName(d) \/ ServeFreed(d)
      BY <2>2, <3>4 DEF BlankName, ServeFreed
    <3>5. CASE FirstInput(d)
      <4>1. PICK b \in Allocatable(d) :
              /\ body' = [body EXCEPT ![d] = b]
              /\ live' = live \cup {b}
              /\ desc' = [desc EXCEPT ![b] = d]
              /\ who' = [who EXCEPT ![b] = None]
        BY <3>5 DEF FirstInput
      <4>2. b \in Body /\ b # None /\ b \notin live /\ Unused(b, d) /\ body[d] = None /\ conn[d] = "login"
        BY <3>0, <3>5, <4>1 DEF FirstInput, Allocatable
      <4>3. /\ conn' = [conn EXCEPT ![d] = "login"]
            /\ live' = (live \ {body[d]}) \cup ({b} \ {None})
            /\ desc' = IF b = None THEN desc ELSE [desc EXCEPT ![b] = d]
            /\ \A x \in Body \ {b} : who'[x] = who[x]
            /\ UNCHANGED <<original, world>> /\ Outside(d) /\ b \notin world
        BY <3>0, <3>5, <4>1, <4>2 DEF FirstInput, Outside
      <4> QED
        BY <2>1, <4>1, <4>2, <4>3, TakesBody DEF Goal
    <3>6. CASE LeaveMenu(d)
      <4>1. /\ conn[d] = "menu" /\ Outside(d) /\ ~ Freed(d) /\ conn' = [conn EXCEPT ![d] = "login"]
            /\ UNCHANGED <<original, world, who, desc>>
        BY <3>6 DEF LeaveMenu, Outside, Freed
      <4>2. CASE UNCHANGED <<body, live>>
        BY <2>4, <4>1, <4>2 DEF Conn
      <4>3. CASE body' = [body EXCEPT ![d] = None] /\ live' = live \ {body[d]}
        <5>1. live' = (live \ {body[d]}) \cup ({None} \ {None})
          BY <4>3
        <5>2. desc' = IF None = None THEN desc ELSE [desc EXCEPT ![None] = d]
          BY <4>1
        <5> QED
          BY <2>1, <4>1, <4>3, <5>1, <5>2, TakesBody DEF Goal
      <4> QED
        BY <3>6, <4>2, <4>3 DEF LeaveMenu
    <3>7. CASE EnterGame(d)
      <4>0. conn[d] = "menu" /\ Outside(d)
        BY <3>7 DEF EnterGame, Outside
      <4>1. CASE \E t \in InPlay(who[body[d]]) : Reconnect(d, t, body[d])
        BY <2>1, <4>0, <4>1, TakesOver DEF InPlay, Goal
      <4>2. CASE ~ GoWild /\ ~ \E t \in InPlay(who[body[d]]) : Reconnect(d, t, body[d])
        <5>1. /\ body[d] \in live /\ body[d] \notin world
              /\ InPlay(who[body[d]]) = {}
              /\ world' = world \cup {body[d]}
              /\ conn' = [conn EXCEPT ![d] = "playing"]
              /\ UNCHANGED <<body, original, live, who, desc>>
          BY <3>7, <4>2 DEF EnterGame
        <5> QED
          BY <2>1, <4>0, <5>1, FirstEntry DEF Goal
      <4> QED
        BY <2>2, <4>1, <4>2
    <3>8. CASE Quit(d)
      BY <2>1, <3>8, Leaves DEF Quit, Goal
    <3>9. CASE Switch(d)
      <4>1. CASE ~ GoWild
        <5>1. /\ body[d] \in live \cap Body /\ desc[body[d]] \in Desc /\ ~ Freed(desc[body[d]])
              /\ UNCHANGED <<conn, live, world, who>>
              /\ \E m \in world \cap Mob :
                    /\ desc[m] = None
                    /\ body' = [body EXCEPT ![desc[body[d]]] = m]
                    /\ original' = [original EXCEPT ![desc[body[d]]] = body[d]]
                    /\ desc' = [desc EXCEPT ![m] = desc[body[d]], ![body[d]] = None]
          BY <3>0, <3>9, <4>1 DEF Switch, Commands
        <5> QED
          BY <2>1, <5>1, Switches DEF Goal
      <4> QED
        BY <2>2, <4>1
    <3>10. CASE Return(d)
      <4>1. CASE ~ GoWild
        <5>1. /\ body[d] \in live /\ desc[body[d]] \in Desc /\ ~ Freed(desc[body[d]])
              /\ original[desc[body[d]]] # None /\ BackFrom(body[d], desc[body[d]])
              /\ UNCHANGED <<conn, live, world, who>>
          BY <3>0, <3>10, <4>1 DEF Return, Commands
        <5> QED
          BY <2>1, <5>1, ComesBack DEF Goal
      <4> QED
        BY <2>2, <4>1
    <3>11. CASE LinkAccount(d)
      <4>1. CASE ~ GoWild
        <5>1. /\ desc[body[d]] \in Desc /\ ~ Freed(desc[body[d]])
              /\ conn' = [conn EXCEPT ![desc[body[d]]] = "linkpwd"]
              /\ UNCHANGED <<body, original, live, world, who, desc>>
          BY <3>0, <3>11, <4>1 DEF LinkAccount, Commands
        <5> QED
          BY <2>4, <5>1 DEF Conn
      <4> QED
        BY <2>2, <4>1
    <3>12. CASE \E p \in Person : LoginSwitched(d, p)
      BY <2>1, <3>12, TakesBack DEF Goal
    <3>13. CASE \E p \in Person : LoginAgain(d, p)
      <4>1. CASE ~ GoWild
        <5>1. conn[d] = "login" /\ \E t \in Players : Reconnect(d, t, body[d])
          BY <3>13, <4>1 DEF LoginAgain, LoggingIn, InPlay
        <5> QED
          BY <2>1, <5>1, TakesOver DEF Goal, Outside
      <4> QED
        BY <2>2, <4>1
    <3>14. CASE \E p \in Person : LoginFresh(d, p)
      <4>1. CASE ~ GoWild
        <5>1. PICK p \in Person, b \in Allocatable(d) :
              /\ conn[d] = "login"
              /\ body' = [body EXCEPT ![d] = b]
              /\ live' = (live \ {body[d]}) \cup {b}
              /\ desc' = [desc EXCEPT ![b] = d]
              /\ who' = [who EXCEPT ![b] = p]
              /\ conn' = [conn EXCEPT ![d] = "menu"]
              /\ UNCHANGED <<original, world>>
          BY <3>14, <4>1 DEF LoginFresh, LoggingIn
        <5>2. b \in Body /\ b # None /\ Unused(b, d) /\ Outside(d) /\ (b \notin live \/ b = body[d])
          BY <3>0, <5>1 DEF Allocatable, Outside
        <5>3. b \notin world
          <6>1. b \in world => b \in Players
            BY <5>2 DEF Players
          <6> QED
            BY <2>1, <3>0, <5>2, <6>1, OutsideFree
        <5>4. /\ live' = (live \ {body[d]}) \cup ({b} \ {None})
              /\ desc' = IF b = None THEN desc ELSE [desc EXCEPT ![b] = d]
              /\ \A x \in Body \ {b} : who'[x] = who[x]
          BY <3>0, <5>1, <5>2
        <5> QED
          BY <2>1, <5>1, <5>2, <5>3, <5>4, TakesBody DEF Goal
      <4> QED
        BY <2>2, <4>1
    <3>15. CASE \E v \in Being : Snoop(d, v)
      <4>1. CASE ~ GoWild
        <5>1. UNCHANGED <<conn, body, original, desc, who, live, world>>
          BY <3>15, <4>1 DEF Snoop
        <5> QED
          BY <2>1, <5>1, StillSound DEF Goal, Freed, Outside
      <4> QED
        BY <2>2, <4>1
    <3> QED
      BY <2>5, <3>1, <3>2, <3>3, <3>4, <3>5, <3>6, <3>7, <3>8, <3>9, <3>10, <3>11, <3>12, <3>13, <3>14, <3>15
  <2>6. ASSUME NEW b \in Body, Die(b) \/ CastOut(b) PROVE Goal
    <3>1. desc[b] \in Desc \cup {None} /\ b \in live /\ open \subseteq Desc /\ None \notin Desc
      BY <2>1, <2>6, BodyAssumption DEF Die, CastOut, Players, Sound, TypeOK, Being
    <3>2. CASE Extract(b, None, TRUE) \/ Extract(b, None, FALSE)
      BY <2>1, <3>2, Leaves DEF Goal
    <3>3. CASE desc[b] \in open /\ conn[desc[b]] = "playing" /\ Extract(b, desc[b], FALSE)
      BY <2>1, <3>1, <3>3, Leaves DEF Goal, Freed
    <3> QED
      BY <2>2, <2>6, <3>2, <3>3 DEF Die, CastOut
  <2>7. ASSUME NEW m \in Mob, SpawnMob(m) \/ KillMob(m) PROVE Goal
    <3>1. CASE SpawnMob(m)
      BY <2>1, <3>1, Spawns DEF Goal
    <3>2. CASE KillMob(m) /\ ~ GoWild
      <4>0. /\ m \in live /\ desc[m] \in Desc \cup {None} /\ conn' = conn /\ who' = who
            /\ live' = live \ {m} /\ world' = world \ {m} /\ m \notin Body
            /\ desc[m] # None => ~ Freed(desc[m])
        BY <2>1, <3>2, BodyAssumption DEF KillMob, Sound, TypeOK, Being
      <4>1. CASE desc[m] # None /\ original[desc[m]] # None
        <5>1. BackFrom(m, desc[m])
          BY <3>2, <4>1 DEF KillMob
        <5> QED
          BY <2>1, <4>0, <4>1, <5>1, ComesBack DEF Goal
      <4>2. CASE ~ (desc[m] # None /\ original[desc[m]] # None)
        <5>1. UNCHANGED <<body, original, desc>>
          BY <3>2, <4>2 DEF KillMob
        <5>2. \A n \in (world \ world') \cap Mob : \A d \in Desc : desc[n] = d => Freed(d) \/ original[d] = None
          BY <2>1, <4>0, <4>2, BodyAssumption DEF Sound
        <5> QED
          BY <2>1, <4>0, <5>1, <5>2, StillSound DEF Goal, Freed, Outside
      <4> QED
        BY <4>1, <4>2
    <3> QED
      BY <2>2, <2>7, <3>1, <3>2
  <2>8. Goal
    BY <1>2, <2>5, <2>6, <2>7 DEF Next
  <2> QED
    BY <2>1, <2>8 DEF RareIInv, Goal
<1>3. CASE Next /\ Undefined
  BY <1>1, <1>3 DEF Next
<1> QED
  BY <1>1, <1>2, <1>3

\* Types, the two promises and what they rest on hold in every game.
THEOREM RareInvariant == Spec => []RareIInv
<1> QED
  BY RareInit, RareStep, PTL DEF Spec

\* do_switch, do_return, the login that takes a switched player's body back,
\* extract_char and close_socket never part a player from the descriptor its
\* desc names.
THEOREM DescPlaysTheorem == Spec => []DescPlays
<1>1. RareIInv => DescPlays
  BY DEF RareIInv
<1> QED
  BY <1>1, RareInvariant, PTL

\* A stored character is in the game once, though any number of connections may
\* hold a copy of it in the menu.
THEOREM OneBodyEach ==
    Spec => []OneBody
<1>1. ASSUME RareIInv, NEW p \in Person PROVE Cardinality(InPlay(p)) <= 1
  <2>1. \A b, c \in InPlay(p) : b = c
    BY <1>1 DEF RareIInv, OnePerson, InPlay
  <2>2. CASE InPlay(p) = {}
    <3>1. Cardinality({}) = 0
      BY FS_EmptySet
    <3> QED
      BY <2>2, <3>1
  <2>3. CASE InPlay(p) # {}
    <3>1. PICK b : InPlay(p) = {b}
      BY <2>1, <2>3
    <3>2. Cardinality({b}) = 1
      BY FS_Singleton
    <3> QED
      BY <3>1, <3>2
  <2> QED
    BY <2>2, <2>3
<1>2. RareIInv => OneBody
  BY <1>1 DEF OneBody
<1> QED
  BY <1>2, RareInvariant, PTL
=============================================================================
