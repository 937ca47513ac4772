------------------------- MODULE AccountStoreProofs -------------------------
(***************************************************************************)
(* The files of an account's character, for any set of connections, any    *)
(* rarities and any bounds.  The inductive invariant IInv is built in      *)
(* layers, each kept by every step of the ones before it and itself:       *)
(*   Typed      types, and every procedure at a step of its plan           *)
(*   Dated      no character is newer than what was made last              *)
(*   Ordered    every file is where the next step of the procedure expects *)
(*              it, and what was found at the start is what would be put   *)
(*              back                                                       *)
(*   Kept       what was last saved is where the next step leaves it or    *)
(*              takes it from                                              *)
(*   Findable   between procedures, it is in a file that is looked for     *)
(*   Belonging  who holds the character, and which copy of the belongings  *)
(*              is the one last saved                                      *)
(* A layer says nothing of behaviours that had one of the rarities it      *)
(* excepts; since odd only grows, its excepted steps need no proof.        *)
(***************************************************************************)
EXTENDS AccountStore, SequenceTheorems, TLAPS

-----------------------------------------------------------------------------
(* Procedures as sequences of steps. *)

LEMMA ThenProperties ==
    ASSUME NEW x \in Step, NEW s \in Seq(Step)
    PROVE  /\ Then(x, s) \in Seq(Step) /\ Then(x, s) # <<>>
           /\ Len(Then(x, s)) = Len(s) + 1
           /\ Head(Then(x, s)) = x /\ Tail(Then(x, s)) = s
<1> DEFINE t == <<x>> \o s
<1>1. <<x>> \in Seq(Step) /\ Len(<<x>>) = 1
  OBVIOUS
<1>2. t \in Seq(Step) /\ Len(t) = Len(s) + 1 /\ t[1] = x /\ \A i \in 1..Len(s) : t[i + 1] = s[i]
  BY <1>1, ConcatProperties
<1>3. t # <<>>
  BY <1>2
<1>4. Tail(t) \in Seq(Step) /\ Len(Tail(t)) = Len(s) /\ \A i \in 1..Len(s) : Tail(t)[i] = s[i]
  BY <1>2, <1>3, HeadTailProperties
<1>5. Tail(t) = s
  BY <1>4, SeqEqual
<1> QED
  BY <1>2, <1>3, <1>5 DEF Then

\* The three steps of an operation.
LEMMA EachProperties ==
    ASSUME NEW op \in Ops, NEW rest \in Seq(Step)
    PROVE  LET obj == Then(<<op, "obj">>, Then(<<op, "exp">>, rest))
               exp == Then(<<op, "exp">>, rest)
           IN  /\ Each(op, rest) \in Seq(Step) /\ Head(Each(op, rest)) = <<op, "char">> /\ Tail(Each(op, rest)) = obj
               /\ obj \in Seq(Step) /\ Head(obj) = <<op, "obj">> /\ Tail(obj) = exp
               /\ exp \in Seq(Step) /\ Head(exp) = <<op, "exp">> /\ Tail(exp) = rest
               /\ Each(op, rest) # <<>> /\ obj # <<>> /\ exp # <<>>
               /\ Len(rest) \in Nat /\ Len(Each(op, rest)) = Len(rest) + 3 /\ Len(obj) = Len(rest) + 2 /\ Len(exp) = Len(rest) + 1
<1>1. <<op, "char">> \in Step /\ <<op, "obj">> \in Step /\ <<op, "exp">> \in Step
  BY DEF Step, Part
<1>2. Len(rest) \in Nat
  OBVIOUS
<1> DEFINE exp == Then(<<op, "exp">>, rest)
           obj == Then(<<op, "obj">>, exp)
<1>3. exp \in Seq(Step) /\ exp # <<>> /\ Len(exp) = Len(rest) + 1 /\ Head(exp) = <<op, "exp">> /\ Tail(exp) = rest
  BY <1>1, ThenProperties
<1> HIDE DEF exp
<1>4. obj \in Seq(Step) /\ obj # <<>> /\ Len(obj) = Len(exp) + 1 /\ Head(obj) = <<op, "obj">> /\ Tail(obj) = exp
  BY <1>1, <1>3, ThenProperties
<1> HIDE DEF obj
<1>5. Then(<<op, "char">>, obj) \in Seq(Step) /\ Then(<<op, "char">>, obj) # <<>> /\ Len(Then(<<op, "char">>, obj)) = Len(obj) + 1
      /\ Head(Then(<<op, "char">>, obj)) = <<op, "char">> /\ Tail(Then(<<op, "char">>, obj)) = obj
  BY <1>1, <1>4, ThenProperties
<1>6. Each(op, rest) = Then(<<op, "char">>, obj)
  BY DEF Each, obj, exp
<1>7. Len(Each(op, rest)) = Len(rest) + 3 /\ Len(obj) = Len(rest) + 2
  BY <1>2, <1>3, <1>4, <1>5, <1>6
<1> QED
  BY <1>2, <1>3, <1>4, <1>5, <1>6, <1>7 DEF obj, exp

\* A few steps left.
LEMMA Few ==
    ASSUME NEW S, NEW x \in S, NEW y \in S, NEW z \in S, NEW w \in S
    PROVE  /\ <<x>> \in Seq(S) /\ <<x>> # <<>> /\ Head(<<x>>) = x /\ Tail(<<x>>) = <<>> /\ Len(<<x>>) = 1
           /\ <<x, y>> \in Seq(S) /\ <<x, y>> # <<>> /\ Head(<<x, y>>) = x /\ Tail(<<x, y>>) = <<y>> /\ Len(<<x, y>>) = 2
           /\ <<x, y, z>> \in Seq(S) /\ <<x, y, z>> # <<>> /\ Head(<<x, y, z>>) = x /\ Tail(<<x, y, z>>) = <<y, z>>
           /\ Len(<<x, y, z>>) = 3
           /\ <<x, y, z, w>> \in Seq(S) /\ <<x, y, z, w>> # <<>> /\ Head(<<x, y, z, w>>) = x /\ Tail(<<x, y, z, w>>) = <<y, z, w>>
           /\ Len(<<x, y, z, w>>) = 4
OBVIOUS

-----------------------------------------------------------------------------
(* Where a procedure stands. *)

LEMMA TaskTyped ==
    ASSUME TypeOK
    PROVE  /\ task.kind \in Kinds /\ task.conn \in Conn \cup {None} /\ task.steps \in Seq(Step) /\ task.moved \subseteq Part
           /\ task.refused \in BOOLEAN
           /\ ~ Idle => Now = Head(task.steps) /\ Now \in Step /\ Now[1] \in Ops /\ Len(task.steps) \in Nat \ {0}
           /\ Idle => Now[1] = "idle" /\ Now[2] = "all"
<1>1. task \in Tasks
  BY DEF TypeOK
<1>2. task.steps \in Seq(Step) /\ task.kind \in Kinds /\ task.conn \in Conn \cup {None} /\ task.moved \subseteq Part /\ task.refused \in BOOLEAN
  BY <1>1 DEF Tasks
<1>3. ASSUME ~ Idle
      PROVE  Now = Head(task.steps) /\ Now \in Step /\ Now[1] \in Ops /\ Len(task.steps) \in Nat \ {0}
  <2>1. task.steps # <<>>
    BY <1>3 DEF Idle
  <2>2. Head(task.steps) \in Step /\ Len(task.steps) \in Nat \ {0}
    BY <1>2, <2>1
  <2> QED
    BY <1>3, <2>2 DEF Now, Step
<1>4. Idle => Now[1] = "idle" /\ Now[2] = "all"
  BY DEF Now
<1> QED
  BY <1>2, <1>3, <1>4

\* A procedure that has come to op stands at one of its three steps, and what
\* is left after it is either a later one or the rest.
LEMMA AmidStep ==
    ASSUME NEW op \in Ops, NEW rest \in Seq(Step), Amid(op, rest)
    PROVE  /\ ~ Idle /\ Now[1] = op /\ Now[2] \in Part
           /\ Tail(task.steps) \in Seq(Step)
           /\ Len(task.steps) > 1 \/ (Now[2] = "exp" /\ rest = <<>> /\ Len(task.steps) = 1)
           /\ Now[2] = "char" => Tail(task.steps) = Then(<<op, "obj">>, Then(<<op, "exp">>, rest)) /\ Tail(task.steps) # <<>>
                                 /\ Head(Tail(task.steps)) = <<op, "obj">>
           /\ Now[2] = "obj" => Tail(task.steps) = Then(<<op, "exp">>, rest) /\ Tail(task.steps) # <<>>
                                 /\ Head(Tail(task.steps)) = <<op, "exp">>
           /\ Now[2] = "exp" => Tail(task.steps) = rest
<1> DEFINE last == Then(<<op, "exp">>, rest)
           middle == Then(<<op, "obj">>, Then(<<op, "exp">>, rest))
           first == Each(op, rest)
<1>1. /\ first \in Seq(Step) /\ Head(first) = <<op, "char">> /\ Tail(first) = middle
      /\ middle \in Seq(Step) /\ Head(middle) = <<op, "obj">> /\ Tail(middle) = last
      /\ last \in Seq(Step) /\ Head(last) = <<op, "exp">> /\ Tail(last) = rest
      /\ first # <<>> /\ middle # <<>> /\ last # <<>>
      /\ Len(rest) \in Nat /\ Len(first) = Len(rest) + 3 /\ Len(middle) = Len(rest) + 2 /\ Len(last) = Len(rest) + 1
  BY EachProperties
<1>2. rest # <<>> => Len(rest) > 0
  OBVIOUS
<1>3. task.steps \in {first, middle, last}
  BY DEF Amid
<1>4. middle = Then(<<op, "obj">>, Then(<<op, "exp">>, rest)) /\ last = Then(<<op, "exp">>, rest)
  OBVIOUS
<1> HIDE DEF first, middle, last
<1>5. CASE task.steps = first
  <2>1. ~ Idle /\ Now[1] = op /\ Now[2] = "char"
    BY <1>1, <1>5 DEF Idle, Now
  <2>2. Len(task.steps) > 1
    BY <1>1, <1>5
  <2>3. Tail(task.steps) = middle
    BY <1>1, <1>5
  <2>4. Now[2] \in Part
    BY <2>1 DEF Part
  <2>5. Tail(task.steps) = Then(<<op, "obj">>, Then(<<op, "exp">>, rest))
    BY <2>3, <1>4
  <2> QED
    BY <2>1, <2>2, <2>3, <2>4, <2>5, <1>1
<1>6. CASE task.steps = middle
  <2>1. ~ Idle /\ Now[1] = op /\ Now[2] = "obj"
    BY <1>1, <1>6 DEF Idle, Now
  <2>2. Len(task.steps) > 1
    BY <1>1, <1>6
  <2>3. Tail(task.steps) = last
    BY <1>1, <1>6
  <2>4. Now[2] \in Part
    BY <2>1 DEF Part
  <2>5. Tail(task.steps) = Then(<<op, "exp">>, rest)
    BY <2>3, <1>4
  <2> QED
    BY <2>1, <2>2, <2>3, <2>4, <2>5, <1>1
<1>7. CASE task.steps = last
  <2>1. ~ Idle /\ Now[1] = op /\ Now[2] = "exp"
    BY <1>1, <1>7 DEF Idle, Now
  <2>2. Len(task.steps) > 1 \/ (rest = <<>> /\ Len(task.steps) = 1)
    BY <1>1, <1>2, <1>7
  <2>3. Tail(task.steps) = rest
    BY <1>1, <1>7
  <2>4. Now[2] \in Part
    BY <2>1 DEF Part
  <2> QED
    BY <2>1, <2>2, <2>3, <2>4, <1>1
<1> QED
  BY <1>3, <1>5, <1>6, <1>7
-----------------------------------------------------------------------------
(* The plans, one by one. *)

LEMMA Rests ==
    /\ <<>> \in Seq(Step)
    /\ Each("drop", <<>>) \in Seq(Step) /\ Each("clean", <<>>) \in Seq(Step)
    /\ ToUnlist \in Seq(Step) /\ ToUnlist # <<>> /\ Head(ToUnlist) = <<"unlist", "all">> /\ Tail(ToUnlist) = Each("drop", <<>>)
    /\ Len(ToUnlist) > 1
    /\ ToList \in Seq(Step) /\ ToList # <<>> /\ Head(ToList) = <<"list", "all">> /\ Tail(ToList) = <<>> /\ Len(ToList) = 1
    /\ OpenSteps \in Seq(Step) /\ OpenSteps # <<>> /\ Head(OpenSteps) = <<"open", "all">>
    /\ Tail(OpenSteps) = <<<<"clear", "obj">>, <<"clear", "exp">>, <<"login", "all">>>> /\ Len(OpenSteps) = 4
    /\ Afterwards \in Seq(Step)
    /\ ToSnapshot \in Seq(Step) /\ ToSnapshot # <<>> /\ Head(ToSnapshot) = <<"snapshot", "all">> /\ Tail(ToSnapshot) = Afterwards
    /\ Len(ToSnapshot) > 1 \/ (Afterwards = <<>> /\ Len(ToSnapshot) = 1)
    /\ Each("retire", ToSnapshot) \in Seq(Step) /\ Each("retire", ToSnapshot) # <<>>
    /\ Head(Each("retire", ToSnapshot)) = <<"retire", "char">>
<1>1. <<>> \in Seq(Step)
  OBVIOUS
<1>2. /\ <<"unlist", "all">> \in Step /\ <<"list", "all">> \in Step /\ <<"open", "all">> \in Step
      /\ <<"clear", "obj">> \in Step /\ <<"clear", "exp">> \in Step /\ <<"login", "all">> \in Step /\ <<"snapshot", "all">> \in Step
      /\ "drop" \in Ops /\ "clean" \in Ops /\ "retire" \in Ops
  BY DEF Step, Ops, Part
<1>3. Each("drop", <<>>) \in Seq(Step) /\ Each("clean", <<>>) \in Seq(Step) /\ Len(Each("drop", <<>>)) = Len(<<>>) + 3
  <2>1. Each("drop", <<>>) \in Seq(Step) /\ Len(Each("drop", <<>>)) = Len(<<>>) + 3
    BY <1>1, <1>2, EachProperties
  <2>2. Each("clean", <<>>) \in Seq(Step)
    BY <1>1, <1>2, EachProperties
  <2> QED
    BY <2>1, <2>2
<1>4. /\ ToUnlist \in Seq(Step) /\ ToUnlist # <<>> /\ Head(ToUnlist) = <<"unlist", "all">> /\ Tail(ToUnlist) = Each("drop", <<>>)
      /\ Len(ToUnlist) = Len(Each("drop", <<>>)) + 1
  BY <1>2, <1>3, ThenProperties DEF ToUnlist
<1>5. Len(ToUnlist) > 1
  BY <1>3, <1>4
<1>6. ToList \in Seq(Step) /\ ToList # <<>> /\ Head(ToList) = <<"list", "all">> /\ Tail(ToList) = <<>> /\ Len(ToList) = 1
  BY <1>2, Few DEF ToList
<1>7. /\ OpenSteps \in Seq(Step) /\ OpenSteps # <<>> /\ Head(OpenSteps) = <<"open", "all">>
      /\ Tail(OpenSteps) = <<<<"clear", "obj">>, <<"clear", "exp">>, <<"login", "all">>>> /\ Len(OpenSteps) = 4
  BY <1>2, Few DEF OpenSteps
<1>8. Afterwards \in Seq(Step)
  BY <1>1, <1>6, <1>7 DEF Afterwards
<1>9. /\ ToSnapshot \in Seq(Step) /\ ToSnapshot # <<>> /\ Head(ToSnapshot) = <<"snapshot", "all">> /\ Tail(ToSnapshot) = Afterwards
      /\ Len(ToSnapshot) = Len(Afterwards) + 1
  BY <1>2, <1>8, ThenProperties DEF ToSnapshot
<1>10. Len(ToSnapshot) > 1 \/ (Afterwards = <<>> /\ Len(ToSnapshot) = 1)
  <2>1. Afterwards # <<>> => Len(Afterwards) > 0
    BY <1>8
  <2>2. Afterwards = <<>> => Len(Afterwards) = 0
    OBVIOUS
  <2> QED
    BY <2>1, <2>2, <1>8, <1>9
<1>11. /\ Each("retire", ToSnapshot) \in Seq(Step) /\ Each("retire", ToSnapshot) # <<>>
       /\ Head(Each("retire", ToSnapshot)) = <<"retire", "char">>
  BY <1>2, <1>9, EachProperties
<1> QED
  BY <1>1, <1>3, <1>4, <1>5, <1>6, <1>7, <1>8, <1>9, <1>10, <1>11

\* What undoing a migration ends with, and a deletion.
LEMMA LastThree ==
    ASSUME NEW op \in Ops
    PROVE  Each(op, <<>>) \in Seq(Step) /\ Each(op, <<>>) # <<>> /\ Head(Each(op, <<>>)) = <<op, "char">>
<1>1. <<>> \in Seq(Step)
  OBVIOUS
<1> QED
  BY <1>1, EachProperties

LEMMA DeletingAt ==
    ASSUME Deleting
    PROVE  /\ ~ Idle /\ Now[1] \in {"stage", "unlist", "drop", "restore"}
           /\ At("stage") => Amid("stage", ToUnlist) /\ ~ task.refused
           /\ At("unlist") => task.steps = ToUnlist /\ ~ task.refused
           /\ At("drop") => Amid("drop", <<>>) /\ ~ task.refused
           /\ At("restore") =>
                  /\ task.refused
                  /\ task.steps \in {<<<<"restore", "exp">>, <<"restore", "obj">>, <<"restore", "char">>>>,
                                     <<<<"restore", "obj">>, <<"restore", "char">>>>, <<<<"restore", "char">>>>}
<1>1. "stage" \in Ops /\ "drop" \in Ops
  BY DEF Ops
<1>2. Amid("stage", ToUnlist) => ~ Idle /\ Now[1] = "stage"
  BY <1>1, Rests, AmidStep
<1>3. Amid("drop", <<>>) => ~ Idle /\ Now[1] = "drop"
  BY <1>1, Rests, AmidStep
<1>4. task.steps = ToUnlist => ~ Idle /\ Now[1] = "unlist"
  <2>1. ToUnlist # <<>> /\ Head(ToUnlist) = <<"unlist", "all">>
    BY Rests
  <2> QED
    BY <2>1 DEF Idle, Now
<1>5. task.steps \in {<<<<"restore", "exp">>, <<"restore", "obj">>, <<"restore", "char">>>>,
                      <<<<"restore", "obj">>, <<"restore", "char">>>>, <<<<"restore", "char">>>>} => ~ Idle /\ Now[1] = "restore"
  BY DEF Idle, Now
<1> QED
  BY <1>2, <1>3, <1>4, <1>5 DEF Deleting, At

LEMMA MigratingAt ==
    ASSUME Migrating
    PROVE  /\ ~ Idle /\ Now[1] \in {"hydrate", "retire", "snapshot"}
           /\ At("hydrate") => Amid("hydrate", Each("retire", ToSnapshot))
           /\ At("retire") => Amid("retire", ToSnapshot)
           /\ At("snapshot") => task.steps = ToSnapshot
<1>1. "hydrate" \in Ops /\ "retire" \in Ops
  BY DEF Ops
<1>2. Amid("hydrate", Each("retire", ToSnapshot)) => ~ Idle /\ Now[1] = "hydrate"
  BY <1>1, Rests, AmidStep
<1>3. Amid("retire", ToSnapshot) => ~ Idle /\ Now[1] = "retire"
  BY <1>1, Rests, AmidStep
<1>4. task.steps = ToSnapshot => ~ Idle /\ Now[1] = "snapshot"
  <2>1. ToSnapshot # <<>> /\ Head(ToSnapshot) = <<"snapshot", "all">>
    BY Rests
  <2> QED
    BY <2>1 DEF Idle, Now
<1> QED
  BY <1>2, <1>3, <1>4 DEF Migrating, At

LEMMA UndoingAt ==
    ASSUME Undoing
    PROVE  /\ ~ Idle /\ Now[1] \in {"unretire", "clean"}
           /\ At("unretire") => Amid("unretire", Each("clean", <<>>)) /\ task.kind \in {"link", "select"}
           /\ At("clean") => Amid("clean", <<>>)
<1>1. "unretire" \in Ops /\ "clean" \in Ops
  BY DEF Ops
<1>2. Amid("unretire", Each("clean", <<>>)) => ~ Idle /\ Now[1] = "unretire"
  BY <1>1, Rests, AmidStep
<1>3. Amid("clean", <<>>) => ~ Idle /\ Now[1] = "clean"
  BY <1>1, Rests, AmidStep
<1> QED
  BY <1>2, <1>3 DEF Undoing, At

LEMMA ListingAt ==
    ASSUME task.steps = ToList
    PROVE  ~ Idle /\ Now[1] = "list"
<1>1. ToList # <<>> /\ Head(ToList) = <<"list", "all">>
  BY Rests
<1> QED
  BY <1>1 DEF Idle, Now

LEMMA OpeningAt ==
    ASSUME Opening
    PROVE  /\ ~ Idle /\ Now[1] \in {"open", "clear", "login"}
           /\ At("open") => task.steps = OpenSteps
           /\ At("clear") => task.steps \in {<<<<"clear", "obj">>, <<"clear", "exp">>, <<"login", "all">>>>,
                                             <<<<"clear", "exp">>, <<"login", "all">>>>}
           /\ At("login") => task.steps = <<<<"login", "all">>>>
<1>1. task.steps = OpenSteps => ~ Idle /\ Now[1] = "open"
  <2>1. OpenSteps # <<>> /\ Head(OpenSteps) = <<"open", "all">>
    BY Rests
  <2> QED
    BY <2>1 DEF Idle, Now
<1>2. task.steps = <<<<"login", "all">>>> => ~ Idle /\ Now[1] = "login"
  BY DEF Idle, Now
<1>3. task.steps \in {<<<<"clear", "obj">>, <<"clear", "exp">>, <<"login", "all">>>>, <<<<"clear", "exp">>, <<"login", "all">>>>} =>
        ~ Idle /\ Now[1] = "clear"
  BY DEF Idle, Now
<1> QED
  BY <1>1, <1>2, <1>3 DEF Opening, At

LEMMA CreatingAt ==
    ASSUME Creating
    PROVE  /\ ~ Idle /\ Now[1] \in {"create", "list"}
           /\ At("create") => Amid("create", ToList)
           /\ At("list") => task.steps = ToList
<1>1. "create" \in Ops
  BY DEF Ops
<1>2. Amid("create", ToList) => ~ Idle /\ Now[1] = "create"
  BY <1>1, Rests, AmidStep
<1> QED
  BY <1>2, ListingAt DEF Creating, At

\* A save, step by step, and what is left after it.
Remains(rest) ==
    LET left == Tail(task.steps)
    IN  \/ Now = <<"save", "char">> /\ Len(task.steps) > 1 /\ left = Then(<<"save", "runtime">>, Then(<<"save", "mirror">>, rest))
        \/ Now = <<"save", "char">> /\ left = rest /\ (rest = <<>> <=> Len(task.steps) = 1)
        \/ Now = <<"save", "runtime">> /\ left = Then(<<"save", "mirror">>, rest) /\ Tail(left) = rest
           /\ Len(task.steps) > 1 /\ (rest = <<>> <=> Len(task.steps) = 2)
        \/ Now = <<"save", "runtime">> /\ left = Then(<<"save", "mirror">>, Then(<<"save", "char">>, rest))
           /\ Tail(left) = Then(<<"save", "char">>, rest) /\ Len(task.steps) > 2
        \/ Now = <<"save", "mirror">> /\ left = Then(<<"save", "char">>, rest) /\ Len(task.steps) > 1
        \/ Now = <<"save", "mirror">> /\ left = rest /\ (rest = <<>> <=> Len(task.steps) = 1)
        \/ Now \in {<<"quit", "all">>, <<"leave", "all">>} /\ left = <<>> /\ Len(task.steps) = 1

LEMMA SavingAt ==
    ASSUME Saving, ~ Idle
    PROVE  \E rest \in ToLeave : Remains(rest)
<1>1. /\ <<"save", "char">> \in Step /\ <<"save", "runtime">> \in Step /\ <<"save", "mirror">> \in Step
      /\ <<"quit", "all">> \in Step /\ <<"leave", "all">> \in Step
  BY DEF Step, Ops, Part
<1>2. PICK rest \in ToLeave :
            task.steps \in {CharFirst(rest), Then(<<"save", "runtime">>, Then(<<"save", "mirror">>, rest)), Then(<<"save", "mirror">>, rest),
                            ObjectsFirst(rest), Then(<<"save", "mirror">>, Then(<<"save", "char">>, rest)), Then(<<"save", "char">>, rest), rest}
  BY DEF Saving
<1>3. /\ rest \in Seq(Step) /\ Len(rest) \in Nat /\ (rest = <<>> <=> Len(rest) = 0)
      /\ rest # <<>> => Len(rest) = 1 /\ Tail(rest) = <<>> /\ Head(rest) \in {<<"quit", "all">>, <<"leave", "all">>}
  <2>1. CASE rest = <<>>
    BY <2>1
  <2>2. CASE rest = <<<<"quit", "all">>>>
    BY <2>2, <1>1, Few
  <2>3. CASE rest = <<<<"leave", "all">>>>
    BY <2>3, <1>1, Few
  <2> QED
    BY <2>1, <2>2, <2>3 DEF ToLeave
<1> DEFINE mirror == Then(<<"save", "mirror">>, rest)
           runtimeMirror == Then(<<"save", "runtime">>, mirror)
           char == Then(<<"save", "char">>, rest)
           mirrorChar == Then(<<"save", "mirror">>, char)
<1>4. /\ mirror \in Seq(Step) /\ Head(mirror) = <<"save", "mirror">> /\ Tail(mirror) = rest /\ Len(mirror) = Len(rest) + 1
      /\ mirror # <<>>
  BY <1>1, <1>3, ThenProperties
<1>5. /\ char \in Seq(Step) /\ Head(char) = <<"save", "char">> /\ Tail(char) = rest /\ Len(char) = Len(rest) + 1 /\ char # <<>>
  BY <1>1, <1>3, ThenProperties
<1> HIDE DEF mirror, char
<1>6. /\ runtimeMirror \in Seq(Step) /\ Head(runtimeMirror) = <<"save", "runtime">> /\ Tail(runtimeMirror) = mirror
      /\ Len(runtimeMirror) = Len(mirror) + 1 /\ runtimeMirror # <<>>
  BY <1>1, <1>4, ThenProperties
<1>7. /\ mirrorChar \in Seq(Step) /\ Head(mirrorChar) = <<"save", "mirror">> /\ Tail(mirrorChar) = char
      /\ Len(mirrorChar) = Len(char) + 1 /\ mirrorChar # <<>>
  BY <1>1, <1>5, ThenProperties
<1> HIDE DEF runtimeMirror, mirrorChar
<1>8. /\ Head(Then(<<"save", "char">>, runtimeMirror)) = <<"save", "char">> /\ Tail(Then(<<"save", "char">>, runtimeMirror)) = runtimeMirror
      /\ Len(Then(<<"save", "char">>, runtimeMirror)) = Len(runtimeMirror) + 1
  BY <1>1, <1>6, ThenProperties
<1>9. /\ Head(Then(<<"save", "runtime">>, mirrorChar)) = <<"save", "runtime">>
      /\ Tail(Then(<<"save", "runtime">>, mirrorChar)) = mirrorChar
      /\ Len(Then(<<"save", "runtime">>, mirrorChar)) = Len(mirrorChar) + 1
  BY <1>1, <1>7, ThenProperties
<1>10. Now = Head(task.steps)
  BY DEF Now
<1>11. task.steps \in {Then(<<"save", "char">>, runtimeMirror), runtimeMirror, mirror, Then(<<"save", "runtime">>, mirrorChar),
                       mirrorChar, char, rest}
  BY <1>2 DEF CharFirst, ObjectsFirst, runtimeMirror, mirrorChar, char, mirror
<1>12. /\ runtimeMirror = Then(<<"save", "runtime">>, Then(<<"save", "mirror">>, rest)) /\ mirror = Then(<<"save", "mirror">>, rest)
       /\ mirrorChar = Then(<<"save", "mirror">>, Then(<<"save", "char">>, rest)) /\ char = Then(<<"save", "char">>, rest)
  BY DEF runtimeMirror, mirrorChar, char, mirror
<1> WITNESS rest \in ToLeave
<1>13. CASE task.steps = Then(<<"save", "char">>, runtimeMirror)
  <2>1. Now = <<"save", "char">> /\ Len(task.steps) > 1 /\ Tail(task.steps) = runtimeMirror
    BY <1>3, <1>4, <1>6, <1>8, <1>10, <1>13
  <2> QED
    BY <2>1, <1>12 DEF Remains
<1>14. CASE task.steps = runtimeMirror
  <2>1. /\ Now = <<"save", "runtime">> /\ Tail(task.steps) = mirror /\ Tail(Tail(task.steps)) = rest
        /\ Len(task.steps) > 1 /\ (rest = <<>> <=> Len(task.steps) = 2)
    BY <1>3, <1>4, <1>6, <1>10, <1>14
  <2> QED
    BY <2>1, <1>12 DEF Remains
<1>15. CASE task.steps = mirror
  <2>1. Now = <<"save", "mirror">> /\ Tail(task.steps) = rest /\ (rest = <<>> <=> Len(task.steps) = 1)
    BY <1>3, <1>4, <1>10, <1>15
  <2> QED
    BY <2>1 DEF Remains
<1>16. CASE task.steps = Then(<<"save", "runtime">>, mirrorChar)
  <2>1. /\ Now = <<"save", "runtime">> /\ Tail(task.steps) = mirrorChar /\ Tail(Tail(task.steps)) = char /\ Len(task.steps) > 2
    BY <1>3, <1>5, <1>7, <1>9, <1>10, <1>16
  <2> QED
    BY <2>1, <1>12 DEF Remains
<1>17. CASE task.steps = mirrorChar
  <2>1. Now = <<"save", "mirror">> /\ Tail(task.steps) = char /\ Len(task.steps) > 1
    BY <1>3, <1>5, <1>7, <1>10, <1>17
  <2> QED
    BY <2>1, <1>12 DEF Remains
<1>18. CASE task.steps = char
  <2>1. Now = <<"save", "char">> /\ Tail(task.steps) = rest /\ (rest = <<>> <=> Len(task.steps) = 1)
    BY <1>3, <1>5, <1>10, <1>18
  <2> QED
    BY <2>1 DEF Remains
<1>19. CASE task.steps = rest
  <2>1. rest # <<>>
    BY <1>19 DEF Idle
  <2>2. Now \in {<<"quit", "all">>, <<"leave", "all">>} /\ Tail(task.steps) = <<>> /\ Len(task.steps) = 1
    BY <2>1, <1>3, <1>10, <1>19
  <2> QED
    BY <2>2 DEF Remains
<1> QED
  BY <1>11, <1>13, <1>14, <1>15, <1>16, <1>17, <1>18, <1>19

-----------------------------------------------------------------------------
(* What becomes of the task. *)

LEMMA LastStep ==
    ASSUME NEW S, NEW s \in Seq(S), s # <<>>
    PROVE  Tail(s) \in Seq(S) /\ (Len(s) = 1 <=> Tail(s) = <<>>)
<1>1. Tail(s) \in Seq(S) /\ Len(Tail(s)) = Len(s) - 1 /\ Len(s) \in Nat
  BY HeadTailProperties
<1>2. Tail(s) = <<>> <=> Len(Tail(s)) = 0
  BY <1>1, EmptySeq
<1> QED
  BY <1>1, <1>2

\* One step further: the rest of the steps, of the same procedure if any are
\* left or it was refused.
LEMMA Advanced ==
    ASSUME TypeOK, ~ Idle, Advance
    PROVE  /\ task' \in Tasks /\ task'.steps = Tail(task.steps) /\ task'.refused = task.refused
           /\ Tail(task.steps) # <<>> \/ task.refused =>
                /\ task'.kind = task.kind /\ task'.conn = task.conn /\ task'.moved = task.moved /\ task'.from = task.from
           /\ Tail(task.steps) = <<>> /\ ~ task.refused => task' = NoTask
<1>1. task \in Tasks
  BY DEF TypeOK
<1>2. task.steps \in Seq(Step) /\ task.steps # <<>>
  BY <1>1 DEF Tasks, Idle
<1>3. Tail(task.steps) \in Seq(Step) /\ (Len(task.steps) = 1 <=> Tail(task.steps) = <<>>)
  BY <1>2, LastStep
<1>4. CASE Len(task.steps) = 1 /\ ~ task.refused
  <2>1. task' = NoTask
    BY <1>4 DEF Advance
  <2>2. NoTask \in Tasks /\ NoTask.steps = <<>> /\ NoTask.refused = FALSE
    BY DEF NoTask, Tasks, Kinds
  <2> QED
    BY <2>1, <2>2, <1>1, <1>3, <1>4 DEF Tasks
<1>5. CASE ~ (Len(task.steps) = 1 /\ ~ task.refused)
  <2>1. task' = [task EXCEPT !.steps = Tail(@)]
    BY <1>5 DEF Advance
  <2>2. task' \in Tasks
    BY <2>1, <1>1, <1>3 DEF Tasks
  <2> QED
    BY <2>1, <2>2, <1>1, <1>3, <1>5 DEF Tasks
<1> QED
  BY <1>4, <1>5

LEMMA AdvancedMoving ==
    ASSUME TypeOK, ~ Idle, NEW p \in Part, AdvanceMoving(p)
    PROVE  /\ task' \in Tasks /\ task'.steps = Tail(task.steps) /\ task'.moved = task.moved \cup {p}
           /\ task'.refused = task.refused /\ task'.kind = task.kind /\ task'.conn = task.conn /\ task'.from = task.from
<1>1. task \in Tasks
  BY DEF TypeOK
<1>2. task.steps \in Seq(Step) /\ task.steps # <<>>
  BY <1>1 DEF Tasks, Idle
<1>3. Tail(task.steps) \in Seq(Step)
  BY <1>2
<1>4. task' = [task EXCEPT !.steps = Tail(@), !.moved = @ \cup {p}]
  BY DEF AdvanceMoving
<1> QED
  BY <1>1, <1>3, <1>4 DEF Tasks

LEMMA Failed ==
    ASSUME TypeOK, NEW undo \in Seq(Step), FailWith(undo)
    PROVE  /\ task' \in Tasks /\ task'.steps = undo /\ task'.refused
           /\ task'.kind = task.kind /\ task'.conn = task.conn /\ task'.moved = task.moved /\ task'.from = task.from
BY DEF TypeOK, FailWith, Tasks

LEMMA Started ==
    ASSUME TypeOK, NEW kind \in Kinds, NEW c \in Conn \cup {None}, NEW steps \in Seq(Step), Start(kind, c, steps)
    PROVE  /\ task' \in Tasks /\ task'.steps = steps /\ ~ task'.refused
           /\ task'.kind = kind /\ task'.conn = c /\ task'.moved = {} /\ task'.from = Found
<1>1. Found \in [legacy : File, native : File, runtime : Age \cup {None}]
  <2>1. NoFile \in File
    BY DEF NoFile, File
  <2> QED
    BY <2>1 DEF TypeOK, Found
<1> QED
  BY <1>1 DEF Start, Task, Tasks, Contents

LEMMA AmidNext ==
    ASSUME NEW op \in Ops, NEW rest \in Seq(Step), Amid(op, rest), task'.steps = Tail(task.steps)
    PROVE  /\ Now[2] \in Part /\ Now[1] = op
           /\ Now[2] = "char" => Now' = <<op, "obj">> /\ task'.steps = Then(<<op, "obj">>, Then(<<op, "exp">>, rest)) /\ task'.steps # <<>>
           /\ Now[2] = "obj" => Now' = <<op, "exp">> /\ task'.steps = Then(<<op, "exp">>, rest) /\ task'.steps # <<>>
           /\ Now[2] = "exp" => /\ task'.steps = rest
                                /\ Now' = IF rest = <<>> THEN <<"idle", "all">> ELSE Head(rest)
<1>1. /\ Now[1] = op /\ Now[2] \in Part
      /\ Now[2] = "char" => Tail(task.steps) = Then(<<op, "obj">>, Then(<<op, "exp">>, rest)) /\ Tail(task.steps) # <<>>
                            /\ Head(Tail(task.steps)) = <<op, "obj">>
      /\ Now[2] = "obj" => Tail(task.steps) = Then(<<op, "exp">>, rest) /\ Tail(task.steps) # <<>>
                            /\ Head(Tail(task.steps)) = <<op, "exp">>
      /\ Now[2] = "exp" => Tail(task.steps) = rest
  BY AmidStep
<1>2. Now' = IF task'.steps = <<>> THEN <<"idle", "all">> ELSE Head(task'.steps)
  BY DEF Now, Idle
<1> QED
  BY <1>1, <1>2

-----------------------------------------------------------------------------
(* Which plan a step belongs to, and the step after it. *)

LEMMA Place ==
    ASSUME Planned, ~ Idle
    PROVE  /\ up
           /\ Now[1] \in {"stage", "unlist", "drop", "restore"} => Deleting
           /\ Now[1] \in {"hydrate", "retire", "snapshot"} => Migrating
           /\ Now[1] \in {"unretire", "clean"} => Undoing
           /\ Now[1] \in {"open", "clear", "login"} => Opening
           /\ Now[1] = "create" => Creating
           /\ Now[1] = "list" => Listing \/ Creating
           /\ Now[1] \in {"save", "quit", "leave"} => Saving
<1>1. Deleting => Now[1] \in {"stage", "unlist", "drop", "restore"}
  BY DeletingAt
<1>2. Migrating => Now[1] \in {"hydrate", "retire", "snapshot"}
  BY MigratingAt
<1>3. Undoing => Now[1] \in {"unretire", "clean"}
  BY UndoingAt
<1>4. Listing => Now[1] = "list"
  BY ListingAt DEF Listing
<1>5. Opening => Now[1] \in {"open", "clear", "login"}
  BY OpeningAt
<1>6. Creating => Now[1] \in {"create", "list"}
  BY CreatingAt
<1>7. Saving => Now[1] \in {"save", "quit", "leave"}
  <2> SUFFICES ASSUME Saving PROVE Now[1] \in {"save", "quit", "leave"}
    OBVIOUS
  <2>1. ~ Idle
    OBVIOUS
  <2>2. PICK rest \in ToLeave : Remains(rest)
    BY <2>1, SavingAt
  <2>3. Now \in {<<"save", "char">>, <<"save", "runtime">>, <<"save", "mirror">>, <<"quit", "all">>, <<"leave", "all">>}
    BY <2>2 DEF Remains
  <2> QED
    BY <2>3
<1> QED
  BY <1>1, <1>2, <1>3, <1>4, <1>5, <1>6, <1>7 DEF Planned

SameProcedure == task'.kind = task.kind /\ task'.conn = task.conn /\ task'.from = task.from

\* From one part to the next, after the last one to the step that follows.
Onward(op, next) ==
    Now' = IF Now[2] = "char" THEN <<op, "obj">> ELSE IF Now[2] = "obj" THEN <<op, "exp">> ELSE next

LEMMA DoingNow ==
    ASSUME NEW op, Doing(op)
    PROVE  ~ Idle /\ up /\ Now[1] = op /\ Now[2] = Subject /\ Now = Head(task.steps)
BY DEF Doing, Now, Subject, Idle

\* The plan after a step, from the shape of the steps left.
LEMMA PlannedNext ==
    ASSUME task'.steps # <<>> => up' /\ (Deleting \/ Migrating \/ Undoing \/ Listing \/ Opening \/ Creating \/ Saving)',
           task'.steps # <<>> /\ task'.kind \in {"select", "create"} => task'.conn \in Conn
    PROVE  Planned'
BY DEF Planned, Idle

\* The same for any operation on each part.
LEMMA AmidAdvanced ==
    ASSUME TypeOK, NEW op \in Ops, NEW rest \in Seq(Step), Amid(op, rest), Advance
    PROVE  /\ Now[1] = op /\ Now[2] \in Part
           /\ task' \in Tasks /\ task'.refused = task.refused
           /\ Onward(op, IF rest = <<>> THEN <<"idle", "all">> ELSE Head(rest))
           /\ rest # <<>> \/ task.refused \/ Now[2] # "exp" => SameProcedure /\ task'.moved = task.moved
           /\ Now[2] # "exp" => task'.steps # <<>>
                                /\ task'.steps \in {Then(<<op, "obj">>, Then(<<op, "exp">>, rest)), Then(<<op, "exp">>, rest)}
           /\ Now[2] = "exp" => task'.steps = rest
<1>1. ~ Idle /\ Now[1] = op /\ Now[2] \in Part /\ (Now[2] # "exp" => Tail(task.steps) # <<>>) /\ (Now[2] = "exp" => Tail(task.steps) = rest)
  BY AmidStep DEF Part
<1>2. /\ task' \in Tasks /\ task'.steps = Tail(task.steps) /\ task'.refused = task.refused
      /\ Tail(task.steps) # <<>> \/ task.refused =>
           /\ task'.kind = task.kind /\ task'.conn = task.conn /\ task'.moved = task.moved /\ task'.from = task.from
  BY <1>1, Advanced
<1>3. /\ Now[2] = "char" => Now' = <<op, "obj">> /\ task'.steps = Then(<<op, "obj">>, Then(<<op, "exp">>, rest)) /\ task'.steps # <<>>
      /\ Now[2] = "obj" => Now' = <<op, "exp">> /\ task'.steps = Then(<<op, "exp">>, rest) /\ task'.steps # <<>>
      /\ Now[2] = "exp" => /\ task'.steps = rest
                           /\ Now' = IF rest = <<>> THEN <<"idle", "all">> ELSE Head(rest)
  BY <1>2, AmidNext
<1> QED
  BY <1>1, <1>2, <1>3 DEF Onward, SameProcedure, Part

LEMMA AmidMoving ==
    ASSUME TypeOK, NEW op \in Ops, NEW rest \in Seq(Step), Amid(op, rest), NEW p \in Part, AdvanceMoving(p)
    PROVE  /\ task' \in Tasks /\ task'.refused = task.refused /\ SameProcedure /\ task'.moved = task.moved \cup {p}
           /\ Onward(op, IF rest = <<>> THEN <<"idle", "all">> ELSE Head(rest))
           /\ Now[2] # "exp" => task'.steps # <<>>
                                /\ task'.steps \in {Then(<<op, "obj">>, Then(<<op, "exp">>, rest)), Then(<<op, "exp">>, rest)}
           /\ Now[2] = "exp" => task'.steps = rest
<1>1. ~ Idle /\ Now[1] = op /\ Now[2] \in Part
  BY AmidStep
<1>2. /\ task' \in Tasks /\ task'.steps = Tail(task.steps) /\ task'.refused = task.refused /\ SameProcedure
      /\ task'.moved = task.moved \cup {p}
  BY <1>1, AdvancedMoving DEF SameProcedure
<1>3. /\ Now[2] = "char" => Now' = <<op, "obj">> /\ task'.steps = Then(<<op, "obj">>, Then(<<op, "exp">>, rest)) /\ task'.steps # <<>>
      /\ Now[2] = "obj" => Now' = <<op, "exp">> /\ task'.steps = Then(<<op, "exp">>, rest) /\ task'.steps # <<>>
      /\ Now[2] = "exp" => /\ task'.steps = rest
                           /\ Now' = IF rest = <<>> THEN <<"idle", "all">> ELSE Head(rest)
  BY <1>2, AmidNext
<1> QED
  BY <1>1, <1>2, <1>3 DEF Onward, Part

\* How a procedure gives up.
Refused == task' \in Tasks /\ Planned' /\ SameProcedure /\ task'.refused /\ task'.moved = task.moved

LEMMA GivesUp ==
    ASSUME TypeOK, FailWith(<<>>)
    PROVE  Refused /\ Now' = <<"idle", "all">>
<1>1. /\ task' \in Tasks /\ task'.steps = <<>> /\ task'.refused
      /\ task'.kind = task.kind /\ task'.conn = task.conn /\ task'.moved = task.moved /\ task'.from = task.from
  BY Failed, Rests
<1>2. Planned'
  BY <1>1, PlannedNext
<1>3. Now' = <<"idle", "all">>
  BY <1>1 DEF Now, Idle
<1> QED
  BY <1>1, <1>2, <1>3 DEF Refused, SameProcedure

LEMMA CleansUp ==
    ASSUME TypeOK, FailWith(Each("clean", <<>>)), up', task.kind \in {"link", "select", "create"},
           task.kind \in {"select", "create"} => task.conn \in Conn
    PROVE  Refused /\ Now' = <<"clean", "char">>
<1>1. Each("clean", <<>>) \in Seq(Step) /\ Each("clean", <<>>) # <<>> /\ Head(Each("clean", <<>>)) = <<"clean", "char">>
  BY LastThree DEF Ops
<1>2. /\ task' \in Tasks /\ task'.steps = Each("clean", <<>>) /\ task'.refused
      /\ task'.kind = task.kind /\ task'.conn = task.conn /\ task'.moved = task.moved /\ task'.from = task.from
  BY <1>1, Failed
<1>3. Undoing'
  BY <1>2 DEF Undoing, Amid
<1>4. Planned'
  BY <1>2, <1>3, PlannedNext
<1>5. Now' = <<"clean", "char">>
  BY <1>1, <1>2 DEF Now, Idle
<1> QED
  BY <1>2, <1>4, <1>5 DEF Refused, SameProcedure

LEMMA PutsBack ==
    ASSUME TypeOK, CleanUp, up', task.kind \in {"link", "select"}, task.kind = "select" => task.conn \in Conn
    PROVE  Refused /\ Now' = <<"unretire", "char">>
<1> DEFINE undo == Each("unretire", Each("clean", <<>>))
<1>1. Each("clean", <<>>) \in Seq(Step) /\ "unretire" \in Ops
  BY Rests DEF Ops
<1>2. undo \in Seq(Step) /\ undo # <<>> /\ Head(undo) = <<"unretire", "char">>
  BY <1>1, EachProperties
<1>3. /\ task' \in Tasks /\ task'.steps = undo /\ task'.refused
      /\ task'.kind = task.kind /\ task'.conn = task.conn /\ task'.moved = task.moved /\ task'.from = task.from
  BY <1>2, Failed DEF CleanUp
<1>4. Undoing'
  BY <1>3 DEF Undoing, Amid
<1>5. Planned'
  BY <1>3, <1>4, PlannedNext
<1>6. Now' = <<"unretire", "char">>
  BY <1>2, <1>3 DEF Now, Idle
<1> QED
  BY <1>3, <1>5, <1>6 DEF Refused, SameProcedure

LEMMA RestoresAll ==
    ASSUME TypeOK, Unstage, up', task.kind \in {"delete", "erase"}
    PROVE  Refused /\ Now' = <<"restore", "exp">>
<1> DEFINE undo == <<<<"restore", "exp">>, <<"restore", "obj">>, <<"restore", "char">>>>
<1>1. <<"restore", "exp">> \in Step /\ <<"restore", "obj">> \in Step /\ <<"restore", "char">> \in Step
  BY DEF Step, Ops, Part
<1>2. undo \in Seq(Step) /\ undo # <<>> /\ Head(undo) = <<"restore", "exp">>
  BY <1>1, Few
<1>3. /\ task' \in Tasks /\ task'.steps = undo /\ task'.refused
      /\ task'.kind = task.kind /\ task'.conn = task.conn /\ task'.moved = task.moved /\ task'.from = task.from
  BY <1>2, Failed DEF Unstage
<1>4. Deleting'
  BY <1>3 DEF Deleting
<1>5. Now' = <<"restore", "exp">>
  BY <1>2, <1>3 DEF Now, Idle
<1>6. Planned'
  BY <1>3, <1>4, PlannedNext
<1> QED
  BY <1>3, <1>5, <1>6 DEF Refused, SameProcedure

LEMMA StageFlow ==
    ASSUME TypeOK, Planned, Doing("stage"), up'
    PROVE  /\ Now[1] = "stage" /\ Subject = Now[2] /\ Now[2] \in Part /\ task.kind \in {"delete", "erase"} /\ ~ task.refused
           /\ Advance \/ AdvanceMoving(Subject) =>
                /\ task' \in Tasks /\ Planned' /\ SameProcedure /\ ~ task'.refused
                /\ Onward("stage", <<"unlist", "all">>)
           /\ Advance => task'.moved = task.moved
           /\ AdvanceMoving(Subject) => task'.moved = task.moved \cup {Now[2]}
           /\ Unstage => Refused /\ Now' = <<"restore", "exp">>
<1>1. ~ Idle /\ Now[1] = "stage" /\ Now[2] = Subject
  BY DoingNow
<1>2. Deleting
  BY <1>1, Place
<1>3. Amid("stage", ToUnlist) /\ ~ task.refused
  BY <1>1, <1>2, DeletingAt DEF At
<1>4. "stage" \in Ops /\ ToUnlist \in Seq(Step) /\ ToUnlist # <<>> /\ Head(ToUnlist) = <<"unlist", "all">>
  BY Rests DEF Ops
<1>5. task.kind \in {"delete", "erase"}
  BY <1>2 DEF Deleting
<1>6. Now[2] \in Part
  BY <1>3, <1>4, AmidStep
<1>7. ASSUME task'.steps \in {Then(<<"stage", "obj">>, Then(<<"stage", "exp">>, ToUnlist)), Then(<<"stage", "exp">>, ToUnlist), ToUnlist},
             SameProcedure, ~ task'.refused
      PROVE  Planned'
  <2>1. Deleting'
    BY <1>5, <1>7 DEF Deleting, Amid, SameProcedure
  <2> QED
    BY <1>5, <1>7, <2>1, PlannedNext DEF SameProcedure
<1>8. ASSUME Advance
      PROVE  /\ task' \in Tasks /\ Planned' /\ SameProcedure /\ ~ task'.refused /\ task'.moved = task.moved
             /\ Onward("stage", <<"unlist", "all">>)
  BY <1>3, <1>4, <1>7, <1>8, AmidAdvanced
<1>9. ASSUME AdvanceMoving(Subject)
      PROVE  /\ task' \in Tasks /\ Planned' /\ SameProcedure /\ ~ task'.refused /\ task'.moved = task.moved \cup {Now[2]}
             /\ Onward("stage", <<"unlist", "all">>)
  BY <1>1, <1>3, <1>4, <1>6, <1>7, <1>9, AmidMoving
<1> QED
  BY <1>1, <1>3, <1>5, <1>6, <1>8, <1>9, RestoresAll

LEMMA UnlistFlow ==
    ASSUME TypeOK, Planned, Doing("unlist"), up'
    PROVE  /\ Now[1] = "unlist" /\ task.kind \in {"delete", "erase"} /\ ~ task.refused
           /\ Advance => task' \in Tasks /\ Planned' /\ Now' = <<"drop", "char">> /\ ~ task'.refused
           /\ Unstage => Refused /\ Now' = <<"restore", "exp">>
<1>1. ~ Idle /\ Now[1] = "unlist"
  BY DoingNow
<1>2. Deleting
  BY <1>1, Place
<1>3. task.steps = ToUnlist /\ ~ task.refused
  BY <1>1, <1>2, DeletingAt DEF At
<1>4. Tail(task.steps) = Each("drop", <<>>)
  BY <1>3, Rests
<1>5. Each("drop", <<>>) # <<>> /\ Head(Each("drop", <<>>)) = <<"drop", "char">>
  BY LastThree DEF Ops
<1>6. task.kind \in {"delete", "erase"}
  BY <1>2 DEF Deleting
<1>7. ASSUME Advance
      PROVE  task' \in Tasks /\ Planned' /\ Now' = <<"drop", "char">> /\ ~ task'.refused
  <2>1. task' \in Tasks /\ task'.steps = Each("drop", <<>>) /\ ~ task'.refused /\ SameProcedure
    BY <1>1, <1>3, <1>4, <1>5, <1>7, Advanced DEF SameProcedure
  <2>2. Deleting'
    BY <1>6, <2>1 DEF Deleting, Amid, SameProcedure
  <2>3. Planned'
    BY <1>6, <2>1, <2>2, PlannedNext DEF SameProcedure
  <2> QED
    BY <1>5, <2>1, <2>3 DEF Now, Idle
<1> QED
  BY <1>1, <1>3, <1>6, <1>7, RestoresAll

LEMMA DropFlow ==
    ASSUME TypeOK, Planned, Doing("drop"), up', Advance
    PROVE  /\ Now[1] = "drop" /\ Subject = Now[2] /\ Now[2] \in Part
           /\ task' \in Tasks /\ Planned' /\ ~ task'.refused /\ Onward("drop", <<"idle", "all">>)
<1>1. ~ Idle /\ Now[1] = "drop" /\ Now[2] = Subject
  BY DoingNow
<1>2. Deleting
  BY <1>1, Place
<1>3. Amid("drop", <<>>) /\ ~ task.refused /\ task.kind \in {"delete", "erase"}
  BY <1>1, <1>2, DeletingAt DEF At, Deleting
<1>4. "drop" \in Ops /\ <<>> \in Seq(Step)
  BY Rests DEF Ops
<1>5. /\ Now[2] \in Part /\ task' \in Tasks /\ ~ task'.refused /\ Onward("drop", <<"idle", "all">>)
      /\ Now[2] # "exp" => SameProcedure /\ task'.steps \in {Then(<<"drop", "obj">>, Then(<<"drop", "exp">>, <<>>)), Then(<<"drop", "exp">>, <<>>)}
      /\ Now[2] = "exp" => task'.steps = <<>>
  BY <1>3, <1>4, AmidAdvanced
<1>6. CASE Now[2] = "exp"
  BY <1>1, <1>5, <1>6, PlannedNext
<1>7. CASE Now[2] # "exp"
  <2>1. Deleting'
    BY <1>3, <1>5, <1>7 DEF Deleting, Amid, SameProcedure
  <2>2. Planned'
    BY <1>3, <1>5, <1>7, <2>1, PlannedNext DEF SameProcedure
  <2> QED
    BY <1>1, <1>5, <2>2
<1> QED
  BY <1>6, <1>7

LEMMA RestoreFlow ==
    ASSUME TypeOK, Planned, Doing("restore"), up', Advance
    PROVE  /\ Now[1] = "restore" /\ Subject = Now[2] /\ Now[2] \in Part /\ Refused /\ task.kind \in {"delete", "erase"}
           /\ Now' = IF Now[2] = "exp" THEN <<"restore", "obj">> ELSE IF Now[2] = "obj" THEN <<"restore", "char">> ELSE <<"idle", "all">>
<1> DEFINE three == <<<<"restore", "exp">>, <<"restore", "obj">>, <<"restore", "char">>>>
           two == <<<<"restore", "obj">>, <<"restore", "char">>>>
           one == <<<<"restore", "char">>>>
<1>1. ~ Idle /\ Now[1] = "restore" /\ Now[2] = Subject /\ Now = Head(task.steps)
  BY DoingNow
<1>2. Deleting
  BY <1>1, Place
<1>3. task.steps \in {three, two, one} /\ task.refused /\ task.kind \in {"delete", "erase"}
  BY <1>1, <1>2, DeletingAt DEF At, Deleting
<1>4. <<"restore", "exp">> \in Step /\ <<"restore", "obj">> \in Step /\ <<"restore", "char">> \in Step
  BY DEF Step, Ops, Part
<1>5. /\ Head(three) = <<"restore", "exp">> /\ Tail(three) = two /\ Head(two) = <<"restore", "obj">> /\ Tail(two) = one
      /\ Head(one) = <<"restore", "char">> /\ Tail(one) = <<>> /\ two # <<>> /\ one # <<>>
  BY <1>4, Few
<1>6. /\ task' \in Tasks /\ task'.steps = Tail(task.steps) /\ task'.refused /\ SameProcedure /\ task'.moved = task.moved
  BY <1>1, <1>3, Advanced DEF SameProcedure
<1>7. Now' = IF task'.steps = <<>> THEN <<"idle", "all">> ELSE Head(task'.steps)
  BY DEF Now, Idle
<1>8. task'.steps # <<>> => Deleting'
  <2>1. task'.steps # <<>> => task'.steps \in {two, one}
    BY <1>3, <1>5, <1>6
  <2> QED
    BY <1>3, <1>6, <2>1 DEF Deleting, SameProcedure
<1>9. Planned'
  BY <1>3, <1>6, <1>8, PlannedNext DEF SameProcedure
<1> HIDE DEF three, two, one
<1>10. CASE task.steps = three
  <2>1. Now = <<"restore", "exp">> /\ Now' = <<"restore", "obj">>
    BY <1>1, <1>5, <1>6, <1>7, <1>10
  <2> QED
    BY <2>1, <1>1, <1>3, <1>6, <1>9 DEF Refused, Part
<1>11. CASE task.steps = two
  <2>1. Now = <<"restore", "obj">> /\ Now' = <<"restore", "char">>
    BY <1>1, <1>5, <1>6, <1>7, <1>11
  <2> QED
    BY <2>1, <1>1, <1>3, <1>6, <1>9 DEF Refused, Part
<1>12. CASE task.steps = one
  <2>1. Now = <<"restore", "char">> /\ Now' = <<"idle", "all">>
    BY <1>1, <1>5, <1>6, <1>7, <1>12
  <2> QED
    BY <2>1, <1>1, <1>3, <1>6, <1>9 DEF Refused, Part
<1> QED
  BY <1>3, <1>10, <1>11, <1>12

LEMMA HydrateFlow ==
    ASSUME TypeOK, Planned, Doing("hydrate"), up', listed' = listed
    PROVE  /\ Now[1] = "hydrate" /\ Subject = Now[2] /\ Now[2] \in Part /\ task.kind \in {"link", "select"} /\ ~ task.refused
           /\ Advance => /\ task' \in Tasks /\ Planned' /\ SameProcedure /\ ~ task'.refused /\ task'.moved = task.moved
                         /\ Onward("hydrate", <<"retire", "char">>)
           /\ FailWith(<<>>) => Refused /\ Now' = <<"idle", "all">>
           /\ CleanUp => Refused /\ Now' = <<"unretire", "char">>
<1> DEFINE rest == Each("retire", ToSnapshot)
<1>1. ~ Idle /\ Now[1] = "hydrate" /\ Now[2] = Subject
  BY DoingNow
<1>2. Migrating
  BY <1>1, Place
<1>3. Amid("hydrate", rest) /\ ~ task.refused /\ task.kind \in {"link", "select"} /\ (task.kind = "select" => task.conn \in Conn)
  BY <1>1, <1>2, MigratingAt DEF At, Migrating, Planned
<1>4. "hydrate" \in Ops /\ rest \in Seq(Step) /\ rest # <<>> /\ Head(rest) = <<"retire", "char">>
  BY Rests DEF Ops
<1>5. Now[2] \in Part
  BY <1>3, <1>4, AmidStep
<1>6. ASSUME Advance
      PROVE  /\ task' \in Tasks /\ Planned' /\ SameProcedure /\ ~ task'.refused /\ task'.moved = task.moved
             /\ Onward("hydrate", <<"retire", "char">>)
  <2>1. /\ task' \in Tasks /\ SameProcedure /\ ~ task'.refused /\ task'.moved = task.moved
        /\ Onward("hydrate", <<"retire", "char">>)
        /\ task'.steps \in {Then(<<"hydrate", "obj">>, Then(<<"hydrate", "exp">>, rest)), Then(<<"hydrate", "exp">>, rest), rest}
    BY <1>3, <1>4, <1>6, AmidAdvanced
  <2>2. Afterwards' = Afterwards
    BY <2>1 DEF Afterwards, SameProcedure
  <2>3. ToSnapshot' = ToSnapshot
    BY <2>2 DEF ToSnapshot
  <2>4. Migrating'
    BY <1>3, <2>1, <2>3 DEF Migrating, Amid, SameProcedure
  <2>5. Planned'
    BY <1>3, <2>1, <2>4, PlannedNext DEF SameProcedure
  <2> QED
    BY <2>1, <2>5
<1> QED
  BY <1>1, <1>3, <1>5, <1>6, GivesUp, PutsBack

LEMMA RetireFlow ==
    ASSUME TypeOK, Planned, Doing("retire"), up', listed' = listed
    PROVE  /\ Now[1] = "retire" /\ Subject = Now[2] /\ Now[2] \in Part /\ task.kind \in {"link", "select"} /\ ~ task.refused
           /\ Advance \/ AdvanceMoving(Subject) =>
                /\ task' \in Tasks /\ Planned' /\ SameProcedure /\ ~ task'.refused /\ Onward("retire", <<"snapshot", "all">>)
           /\ Advance => task'.moved = task.moved
           /\ AdvanceMoving(Subject) => task'.moved = task.moved \cup {Now[2]}
           /\ CleanUp => Refused /\ Now' = <<"unretire", "char">>
<1>1. ~ Idle /\ Now[1] = "retire" /\ Now[2] = Subject
  BY DoingNow
<1>2. Migrating
  BY <1>1, Place
<1>3. Amid("retire", ToSnapshot) /\ ~ task.refused /\ task.kind \in {"link", "select"} /\ (task.kind = "select" => task.conn \in Conn)
  BY <1>1, <1>2, MigratingAt DEF At, Migrating, Planned
<1>4. "retire" \in Ops /\ ToSnapshot \in Seq(Step) /\ ToSnapshot # <<>> /\ Head(ToSnapshot) = <<"snapshot", "all">>
  BY Rests DEF Ops
<1>5. Now[2] \in Part
  BY <1>3, <1>4, AmidStep
<1>6. ASSUME task'.steps \in {Then(<<"retire", "obj">>, Then(<<"retire", "exp">>, ToSnapshot)), Then(<<"retire", "exp">>, ToSnapshot), ToSnapshot},
             SameProcedure, ~ task'.refused
      PROVE  Planned'
  <2>1. Afterwards' = Afterwards
    BY <1>6 DEF Afterwards, SameProcedure
  <2>2. ToSnapshot' = ToSnapshot
    BY <2>1 DEF ToSnapshot
  <2>3. Migrating'
    BY <1>3, <1>6, <2>2 DEF Migrating, Amid, SameProcedure
  <2> QED
    BY <1>3, <1>6, <2>3, PlannedNext DEF SameProcedure
<1>7. ASSUME Advance
      PROVE  /\ task' \in Tasks /\ Planned' /\ SameProcedure /\ ~ task'.refused /\ task'.moved = task.moved
             /\ Onward("retire", <<"snapshot", "all">>)
  BY <1>3, <1>4, <1>6, <1>7, AmidAdvanced
<1>8. ASSUME AdvanceMoving(Subject)
      PROVE  /\ task' \in Tasks /\ Planned' /\ SameProcedure /\ ~ task'.refused /\ task'.moved = task.moved \cup {Now[2]}
             /\ Onward("retire", <<"snapshot", "all">>)
  <2>1. /\ task' \in Tasks /\ SameProcedure /\ ~ task'.refused /\ task'.moved = task.moved \cup {Now[2]}
        /\ Onward("retire", <<"snapshot", "all">>)
        /\ task'.steps \in {Then(<<"retire", "obj">>, Then(<<"retire", "exp">>, ToSnapshot)), Then(<<"retire", "exp">>, ToSnapshot), ToSnapshot}
    <3>1. Subject \in Part /\ Now[2] \in Part
      BY <1>1, <1>5
    <3>2. /\ task' \in Tasks /\ task'.refused = task.refused /\ SameProcedure /\ task'.moved = task.moved \cup {Subject}
          /\ Onward("retire", IF ToSnapshot = <<>> THEN <<"idle", "all">> ELSE Head(ToSnapshot))
          /\ Now[2] # "exp" => task'.steps \in {Then(<<"retire", "obj">>, Then(<<"retire", "exp">>, ToSnapshot)),
                                                Then(<<"retire", "exp">>, ToSnapshot)}
          /\ Now[2] = "exp" => task'.steps = ToSnapshot
      BY <3>1, <1>3, <1>4, <1>8, AmidMoving
    <3> QED
      BY <3>1, <3>2, <1>1, <1>3, <1>4
  <2> QED
    BY <1>6, <2>1
<1> QED
  BY <1>1, <1>3, <1>5, <1>7, <1>8, PutsBack

\* After the migration, what it was for.
LEMMA SnapshotFlow ==
    ASSUME TypeOK, Planned, Doing("snapshot"), up', listed' = listed
    PROVE  /\ Now[1] = "snapshot" /\ task.kind \in {"link", "select"} /\ ~ task.refused
           /\ Advance =>
                /\ task' \in Tasks /\ Planned' /\ ~ task'.refused
                /\ Now' = IF task.kind = "select" THEN <<"open", "all">> ELSE IF listed THEN <<"idle", "all">> ELSE <<"list", "all">>
                /\ Now'[1] # "idle" => SameProcedure /\ task'.moved = task.moved
           /\ FailWith(Each("clean", <<>>)) => Refused /\ Now' = <<"clean", "char">>
<1>1. ~ Idle /\ Now[1] = "snapshot"
  BY DoingNow
<1>2. Migrating
  BY <1>1, Place
<1>3. task.steps = ToSnapshot /\ ~ task.refused /\ task.kind \in {"link", "select"} /\ (task.kind = "select" => task.conn \in Conn)
  BY <1>1, <1>2, MigratingAt DEF At, Migrating, Planned
<1>4. Tail(task.steps) = Afterwards
  BY <1>3, Rests
<1>5. ASSUME Advance
      PROVE  /\ task' \in Tasks /\ Planned' /\ ~ task'.refused
             /\ Now' = IF task.kind = "select" THEN <<"open", "all">> ELSE IF listed THEN <<"idle", "all">> ELSE <<"list", "all">>
             /\ Now'[1] # "idle" => SameProcedure /\ task'.moved = task.moved
  <2>1. /\ task' \in Tasks /\ task'.steps = Afterwards /\ ~ task'.refused
        /\ Afterwards # <<>> => SameProcedure /\ task'.moved = task.moved
    BY <1>1, <1>3, <1>4, <1>5, Advanced DEF SameProcedure
  <2>2. Now' = IF task'.steps = <<>> THEN <<"idle", "all">> ELSE Head(task'.steps)
    BY DEF Now, Idle
  <2>3. CASE task.kind = "select"
    <3>1. task'.steps = OpenSteps /\ OpenSteps # <<>> /\ Head(OpenSteps) = <<"open", "all">>
      BY <2>1, <2>3, Rests DEF Afterwards
    <3>2. Opening'
      BY <2>1, <2>3, <3>1 DEF Opening, SameProcedure
    <3>3. Planned'
      BY <1>3, <2>1, <2>3, <3>1, <3>2, PlannedNext DEF SameProcedure
    <3> QED
      BY <2>1, <2>2, <2>3, <3>1, <3>3
  <2>4. CASE task.kind = "link" /\ listed
    <3>1. task'.steps = <<>>
      BY <2>1, <2>4 DEF Afterwards
    <3>2. Planned'
      BY <3>1, PlannedNext
    <3> QED
      BY <2>1, <2>2, <2>4, <3>1, <3>2
  <2>5. CASE task.kind = "link" /\ ~ listed
    <3>1. task'.steps = ToList /\ ToList # <<>> /\ Head(ToList) = <<"list", "all">> /\ Afterwards = ToList
      BY <2>1, <2>5, Rests DEF Afterwards
    <3>2. Listing'
      BY <2>1, <2>5, <3>1 DEF Listing, SameProcedure
    <3>3. Planned'
      BY <2>1, <2>5, <3>1, <3>2, PlannedNext DEF SameProcedure
    <3> QED
      BY <2>1, <2>2, <2>5, <3>1, <3>3
  <2> QED
    BY <1>3, <2>3, <2>4, <2>5
<1> QED
  BY <1>1, <1>3, <1>5, CleansUp

LEMMA UnretireFlow ==
    ASSUME TypeOK, Planned, Doing("unretire"), up', Advance
    PROVE  /\ Now[1] = "unretire" /\ Subject = Now[2] /\ Now[2] \in Part /\ task.kind \in {"link", "select"}
           /\ Refused /\ Onward("unretire", <<"clean", "char">>)
<1> DEFINE rest == Each("clean", <<>>)
<1>1. ~ Idle /\ Now[1] = "unretire" /\ Now[2] = Subject
  BY DoingNow
<1>2. Undoing
  BY <1>1, Place
<1>3. Amid("unretire", rest) /\ task.refused /\ task.kind \in {"link", "select"} /\ (task.kind = "select" => task.conn \in Conn)
  BY <1>1, <1>2, UndoingAt DEF At, Undoing, Planned
<1>4. "unretire" \in Ops /\ rest \in Seq(Step) /\ rest # <<>> /\ Head(rest) = <<"clean", "char">>
  <2>1. "unretire" \in Ops /\ "clean" \in Ops
    BY DEF Ops
  <2> QED
    BY <2>1, LastThree
<1>5. /\ Now[2] \in Part /\ task' \in Tasks /\ SameProcedure /\ task'.refused /\ task'.moved = task.moved
      /\ Onward("unretire", <<"clean", "char">>)
      /\ task'.steps \in {Then(<<"unretire", "obj">>, Then(<<"unretire", "exp">>, rest)), Then(<<"unretire", "exp">>, rest), rest}
  BY <1>3, <1>4, AmidAdvanced
<1>6. Undoing'
  BY <1>3, <1>5 DEF Undoing, Amid, SameProcedure
<1>7. Planned'
  BY <1>3, <1>5, <1>6, PlannedNext DEF SameProcedure
<1> QED
  BY <1>1, <1>3, <1>5, <1>7 DEF Refused

LEMMA CleanFlow ==
    ASSUME TypeOK, Planned, Doing("clean"), up', Advance
    PROVE  /\ Now[1] = "clean" /\ Subject = Now[2] /\ Now[2] \in Part
           /\ Refused /\ Onward("clean", <<"idle", "all">>)
<1>1. ~ Idle /\ Now[1] = "clean" /\ Now[2] = Subject
  BY DoingNow
<1>2. Undoing
  BY <1>1, Place
<1>3. /\ Amid("clean", <<>>) /\ task.refused /\ task.kind \in {"link", "select", "create"}
      /\ task.kind \in {"select", "create"} => task.conn \in Conn
  BY <1>1, <1>2, UndoingAt DEF At, Undoing, Planned
<1>4. "clean" \in Ops /\ <<>> \in Seq(Step)
  BY Rests DEF Ops
<1>5. /\ Now[2] \in Part /\ task' \in Tasks /\ SameProcedure /\ task'.refused /\ task'.moved = task.moved
      /\ Onward("clean", <<"idle", "all">>)
      /\ task'.steps \in {Then(<<"clean", "obj">>, Then(<<"clean", "exp">>, <<>>)), Then(<<"clean", "exp">>, <<>>), <<>>}
  BY <1>3, <1>4, AmidAdvanced
<1>6. task'.steps # <<>> => Undoing'
  BY <1>3, <1>5 DEF Undoing, Amid, SameProcedure
<1>7. Planned'
  BY <1>3, <1>5, <1>6, PlannedNext DEF SameProcedure
<1> QED
  BY <1>1, <1>3, <1>5, <1>7 DEF Refused

LEMMA CreateFlow ==
    ASSUME TypeOK, Planned, Doing("create"), up'
    PROVE  /\ Now[1] = "create" /\ Subject = Now[2] /\ Now[2] \in Part /\ task.kind = "create" /\ task.conn \in Conn /\ ~ task.refused
           /\ Advance => /\ task' \in Tasks /\ Planned' /\ SameProcedure /\ ~ task'.refused /\ task'.moved = task.moved
                         /\ Onward("create", <<"list", "all">>)
           /\ FailWith(Each("clean", <<>>)) => Refused /\ Now' = <<"clean", "char">>
<1>1. ~ Idle /\ Now[1] = "create" /\ Now[2] = Subject
  BY DoingNow
<1>2. Creating
  BY <1>1, Place
<1>3. Amid("create", ToList) /\ ~ task.refused /\ task.kind = "create" /\ task.conn \in Conn
  BY <1>1, <1>2, CreatingAt DEF At, Creating, Planned
<1>4. "create" \in Ops /\ ToList \in Seq(Step) /\ ToList # <<>> /\ Head(ToList) = <<"list", "all">>
  BY Rests DEF Ops
<1>5. Now[2] \in Part
  BY <1>3, <1>4, AmidStep
<1>6. ASSUME Advance
      PROVE  /\ task' \in Tasks /\ Planned' /\ SameProcedure /\ ~ task'.refused /\ task'.moved = task.moved
             /\ Onward("create", <<"list", "all">>)
  <2>1. /\ task' \in Tasks /\ SameProcedure /\ ~ task'.refused /\ task'.moved = task.moved
        /\ Onward("create", <<"list", "all">>)
        /\ task'.steps \in {Then(<<"create", "obj">>, Then(<<"create", "exp">>, ToList)), Then(<<"create", "exp">>, ToList), ToList}
    BY <1>3, <1>4, <1>6, AmidAdvanced
  <2>2. Creating'
    BY <1>3, <2>1 DEF Creating, Amid, SameProcedure
  <2>3. Planned'
    BY <1>3, <2>1, <2>2, PlannedNext DEF SameProcedure
  <2> QED
    BY <2>1, <2>3
<1> QED
  BY <1>1, <1>3, <1>5, <1>6, CleansUp

LEMMA ListFlow ==
    ASSUME TypeOK, Planned, Doing("list"), up'
    PROVE  /\ Now = <<"list", "all">> /\ ~ task.refused
           /\ (task.kind = "link" /\ ~ listed) \/ (task.kind = "create" /\ task.conn \in Conn)
           /\ Advance => task' = NoTask /\ task' \in Tasks /\ Planned' /\ Now' = <<"idle", "all">>
           /\ FailWith(<<>>) => Refused /\ Now' = <<"idle", "all">>
           /\ FailWith(Each("clean", <<>>)) /\ task.kind = "create" => Refused /\ Now' = <<"clean", "char">>
<1>1. ~ Idle /\ Now[1] = "list" /\ Now = Head(task.steps)
  BY DoingNow
<1>2. Listing \/ Creating
  BY <1>1, Place
<1>3. /\ task.steps = ToList /\ ~ task.refused
      /\ (task.kind = "link" /\ ~ listed) \/ (task.kind = "create" /\ task.conn \in Conn)
  <2>1. CASE Listing
    BY <2>1 DEF Listing
  <2>2. CASE Creating
    <3>1. task.steps = ToList
      BY <1>1, <2>2, CreatingAt DEF At
    <3> QED
      BY <1>1, <2>2, <3>1 DEF Creating, Planned
  <2> QED
    BY <1>2, <2>1, <2>2
<1>4. Now = <<"list", "all">> /\ Tail(task.steps) = <<>>
  BY <1>1, <1>3, Rests
<1>5. ASSUME Advance
      PROVE  task' = NoTask /\ task' \in Tasks /\ Planned' /\ Now' = <<"idle", "all">>
  <2>1. task' = NoTask /\ task' \in Tasks /\ task'.steps = <<>>
    BY <1>1, <1>3, <1>4, <1>5, Advanced
  <2> QED
    BY <2>1, PlannedNext DEF Now, Idle
<1> QED
  BY <1>3, <1>4, <1>5, GivesUp, CleansUp

LEMMA OpenFlow ==
    ASSUME TypeOK, Planned, Doing("open"), up', Advance
    PROVE  /\ Now[1] = "open" /\ task.kind = "select" /\ task.conn \in Conn /\ ~ task.refused
           /\ task' \in Tasks /\ Planned' /\ SameProcedure /\ ~ task'.refused /\ Now' = <<"clear", "obj">>
<1> DEFINE three == <<<<"clear", "obj">>, <<"clear", "exp">>, <<"login", "all">>>>
<1>1. ~ Idle /\ Now[1] = "open"
  BY DoingNow
<1>2. Opening
  BY <1>1, Place
<1>3. task.steps = OpenSteps /\ ~ task.refused /\ task.kind = "select" /\ task.conn \in Conn
  BY <1>1, <1>2, OpeningAt DEF At, Opening, Planned
<1>4. Tail(task.steps) = three
  BY <1>3, Rests
<1>5. <<"clear", "obj">> \in Step /\ <<"clear", "exp">> \in Step /\ <<"login", "all">> \in Step
  BY DEF Step, Ops, Part
<1>6. three # <<>> /\ Head(three) = <<"clear", "obj">>
  BY <1>5, Few
<1>7. task' \in Tasks /\ task'.steps = three /\ ~ task'.refused /\ SameProcedure
  BY <1>1, <1>3, <1>4, <1>6, Advanced DEF SameProcedure
<1>8. Opening'
  BY <1>3, <1>7 DEF Opening, SameProcedure
<1>9. Planned'
  BY <1>3, <1>7, <1>8, PlannedNext DEF SameProcedure
<1> QED
  BY <1>1, <1>3, <1>6, <1>7, <1>9 DEF Now, Idle

LEMMA ClearFlow ==
    ASSUME TypeOK, Planned, Doing("clear"), up'
    PROVE  /\ Now[1] = "clear" /\ Subject = Now[2] /\ Now[2] \in {"obj", "exp"} /\ task.kind = "select" /\ task.conn \in Conn /\ ~ task.refused
           /\ Advance => /\ task' \in Tasks /\ Planned' /\ SameProcedure /\ ~ task'.refused
                         /\ Now' = IF Now[2] = "obj" THEN <<"clear", "exp">> ELSE <<"login", "all">>
           /\ FailWith(<<>>) => Refused /\ Now' = <<"idle", "all">>
<1> DEFINE three == <<<<"clear", "obj">>, <<"clear", "exp">>, <<"login", "all">>>>
           two == <<<<"clear", "exp">>, <<"login", "all">>>>
           one == <<<<"login", "all">>>>
<1>1. ~ Idle /\ Now[1] = "clear" /\ Now[2] = Subject /\ Now = Head(task.steps)
  BY DoingNow
<1>2. Opening
  BY <1>1, Place
<1>3. task.steps \in {three, two} /\ ~ task.refused /\ task.kind = "select" /\ task.conn \in Conn
  BY <1>1, <1>2, OpeningAt DEF At, Opening, Planned
<1>4. <<"clear", "obj">> \in Step /\ <<"clear", "exp">> \in Step /\ <<"login", "all">> \in Step
  BY DEF Step, Ops, Part
<1>5. /\ Head(three) = <<"clear", "obj">> /\ Tail(three) = two /\ Head(two) = <<"clear", "exp">> /\ Tail(two) = one
      /\ Head(one) = <<"login", "all">> /\ two # <<>> /\ one # <<>>
  BY <1>4, Few
<1>6. ASSUME Advance
      PROVE  /\ task' \in Tasks /\ Planned' /\ SameProcedure /\ ~ task'.refused
             /\ Now' = IF Now[2] = "obj" THEN <<"clear", "exp">> ELSE <<"login", "all">>
  <2>1. task' \in Tasks /\ task'.steps = Tail(task.steps) /\ ~ task'.refused /\ SameProcedure
    BY <1>1, <1>3, <1>5, <1>6, Advanced DEF SameProcedure
  <2>2. task'.steps \in {two, one}
    BY <1>3, <1>5, <2>1
  <2>3. Opening'
    BY <1>3, <2>1, <2>2 DEF Opening, SameProcedure
  <2>4. Planned'
    BY <1>3, <2>1, <2>3, PlannedNext DEF SameProcedure
  <2>5. Now' = IF task'.steps = <<>> THEN <<"idle", "all">> ELSE Head(task'.steps)
    BY DEF Now, Idle
  <2>6. CASE task.steps = three
    <3>1. Now[2] = "obj" /\ Now' = <<"clear", "exp">>
      BY <1>1, <1>5, <2>1, <2>5, <2>6
    <3> QED
      BY <2>1, <2>4, <3>1
  <2>7. CASE task.steps = two
    <3>1. Now[2] = "exp" /\ Now' = <<"login", "all">>
      BY <1>1, <1>5, <2>1, <2>5, <2>7
    <3> QED
      BY <2>1, <2>4, <3>1
  <2> QED
    BY <1>3, <2>6, <2>7
<1>7. Now[2] \in {"obj", "exp"}
  <2>1. CASE task.steps = three
    BY <2>1, <1>1, <1>5
  <2>2. CASE task.steps = two
    BY <2>2, <1>1, <1>5
  <2> QED
    BY <2>1, <2>2, <1>3
<1> QED
  BY <1>1, <1>3, <1>6, <1>7, GivesUp

LEMMA LoginFlow ==
    ASSUME TypeOK, Planned, Doing("login"), up', Advance
    PROVE  /\ Now[1] = "login" /\ task.kind = "select" /\ task.conn \in Conn /\ ~ task.refused
           /\ task' = NoTask /\ task' \in Tasks /\ Planned' /\ Now' = <<"idle", "all">>
<1>1. ~ Idle /\ Now[1] = "login"
  BY DoingNow
<1>2. Opening
  BY <1>1, Place
<1>3. task.steps = <<<<"login", "all">>>> /\ ~ task.refused /\ task.kind = "select" /\ task.conn \in Conn
  BY <1>1, <1>2, OpeningAt DEF At, Opening, Planned
<1>4. <<"login", "all">> \in Step
  BY DEF Step, Ops, Part
<1>5. Tail(task.steps) = <<>>
  BY <1>3, <1>4, Few
<1>6. task' = NoTask /\ task' \in Tasks /\ task'.steps = <<>>
  BY <1>1, <1>3, <1>5, Advanced
<1> QED
  BY <1>1, <1>3, <1>6, PlannedNext DEF Now, Idle

ToRest == {<<"idle", "all">>, <<"quit", "all">>, <<"leave", "all">>}

LEMMA Leave ==
    ASSUME NEW rest \in ToLeave
    PROVE  /\ rest \in Seq(Step) /\ (IF rest = <<>> THEN <<"idle", "all">> ELSE Head(rest)) \in ToRest
           /\ rest # <<>> /\ Head(rest) = <<"quit", "all">> => rest = <<<<"quit", "all">>>>
<1>1. <<"quit", "all">> \in Step /\ <<"leave", "all">> \in Step
  BY DEF Step, Ops
<1>2. CASE rest = <<>>
  BY <1>2 DEF ToRest
<1>3. CASE rest = <<<<"quit", "all">>>>
  BY <1>3, <1>1, Few DEF ToRest
<1>4. CASE rest = <<<<"leave", "all">>>>
  BY <1>4, <1>1, Few DEF ToRest
<1> QED
  BY <1>2, <1>3, <1>4 DEF ToLeave

\* The shapes a save leaves behind.
LEMMA SavingNext ==
    ASSUME NEW rest \in ToLeave, player' # None, up', task'.steps # <<>> => task'.kind = "save" /\ ~ task'.refused,
           task'.steps \in {CharFirst(rest), Then(<<"save", "runtime">>, Then(<<"save", "mirror">>, rest)), Then(<<"save", "mirror">>, rest),
                            ObjectsFirst(rest), Then(<<"save", "mirror">>, Then(<<"save", "char">>, rest)), Then(<<"save", "char">>, rest), rest}
    PROVE  Planned' /\ (task'.steps = rest => Now' \in ToRest /\ (Now' = <<"quit", "all">> => rest = <<<<"quit", "all">>>>))
<1>1. task'.steps # <<>> => Saving'
  BY DEF Saving
<1>2. Planned'
  BY <1>1, PlannedNext
<1>3. Now' = IF task'.steps = <<>> THEN <<"idle", "all">> ELSE Head(task'.steps)
  BY DEF Now, Idle
<1>4. ASSUME task'.steps = rest
      PROVE  Now' \in ToRest /\ (Now' = <<"quit", "all">> => rest = <<<<"quit", "all">>>>)
  BY <1>3, <1>4, Leave
<1> QED
  BY <1>2, <1>4

LEMMA SaveCharFlow ==
    ASSUME TypeOK, Planned, Doing("save"), Subject = "char", up', player' = player, Advance
    PROVE  /\ Now = <<"save", "char">> /\ player # None /\ ~ task.refused
           /\ task' \in Tasks /\ Planned' /\ ~ task'.refused /\ Now' \in ToRest \cup {<<"save", "runtime">>}
           /\ Now' = <<"quit", "all">> => Tail(task.steps) = <<<<"quit", "all">>>>
<1>1. ~ Idle /\ Now[1] = "save" /\ Now[2] = "char"
  BY DoingNow
<1>2. Saving
  BY <1>1, Place
<1>3. player # None /\ ~ task.refused /\ task.kind = "save"
  BY <1>2 DEF Saving
<1>a. PICK rest \in ToLeave : Remains(rest)
  BY <1>1, <1>2, SavingAt
<1>4. \/ Now = <<"save", "char">> /\ Tail(task.steps) = Then(<<"save", "runtime">>, Then(<<"save", "mirror">>, rest))
      \/ Now = <<"save", "char">> /\ Tail(task.steps) = rest
  BY <1>1, <1>a DEF Remains
<1>5. /\ task' \in Tasks /\ task'.steps = Tail(task.steps) /\ ~ task'.refused
      /\ Tail(task.steps) # <<>> => task'.kind = "save"
  BY <1>1, <1>3, Advanced
<1>6. CASE Tail(task.steps) = rest
  BY <1>3, <1>4, <1>5, <1>6, SavingNext
<1>7. CASE Tail(task.steps) = Then(<<"save", "runtime">>, Then(<<"save", "mirror">>, rest))
  <2> DEFINE mirror == Then(<<"save", "mirror">>, rest)
  <2>1. <<"save", "runtime">> \in Step /\ <<"save", "mirror">> \in Step
    BY DEF Step, Ops
  <2>2. mirror \in Seq(Step)
    BY <2>1, Leave, ThenProperties
  <2>3. Then(<<"save", "runtime">>, mirror) # <<>> /\ Head(Then(<<"save", "runtime">>, mirror)) = <<"save", "runtime">>
    BY <2>1, <2>2, ThenProperties
  <2>4. Now' = <<"save", "runtime">>
    BY <2>3, <1>5, <1>7 DEF Now, Idle
  <2>5. Planned'
    BY <1>3, <1>5, <1>7, SavingNext
  <2> QED
    BY <2>4, <2>5, <1>3, <1>4, <1>5
<1> QED
  BY <1>4, <1>6, <1>7

\* The objects' file failed: the account's copy is not tried.
Skips == task' = IF Len(task.steps) = 2 THEN NoTask ELSE [task EXCEPT !.steps = Tail(Tail(@))]

LEMMA SaveRuntimeFlow ==
    ASSUME TypeOK, Planned, Doing("save"), Subject = "runtime", up', player' = player
    PROVE  /\ Now = <<"save", "runtime">> /\ player # None /\ ~ task.refused
           /\ Advance => task' \in Tasks /\ Planned' /\ ~ task'.refused /\ Now' = <<"save", "mirror">>
           /\ Skips => task' \in Tasks /\ Planned' /\ ~ task'.refused /\ Now' \in ToRest \cup {<<"save", "char">>}
<1>1. ~ Idle /\ Now[1] = "save" /\ Now[2] = "runtime"
  BY DoingNow
<1>2. Saving
  BY <1>1, Place
<1>3. player # None /\ ~ task.refused /\ task.kind = "save"
  BY <1>2 DEF Saving
<1>a. PICK rest \in ToLeave : Remains(rest)
  BY <1>1, <1>2, SavingAt
<1>4. \/ /\ Now = <<"save", "runtime">> /\ Tail(task.steps) = Then(<<"save", "mirror">>, rest) /\ Tail(Tail(task.steps)) = rest
         /\ Len(task.steps) > 1 /\ (rest = <<>> <=> Len(task.steps) = 2)
      \/ /\ Now = <<"save", "runtime">> /\ Tail(task.steps) = Then(<<"save", "mirror">>, Then(<<"save", "char">>, rest))
         /\ Tail(Tail(task.steps)) = Then(<<"save", "char">>, rest) /\ Len(task.steps) > 2
  BY SMTT(20), <1>1, <1>a DEF Remains
<1> DEFINE char == Then(<<"save", "char">>, rest)
<1>5. <<"save", "runtime">> \in Step /\ <<"save", "mirror">> \in Step /\ <<"save", "char">> \in Step
  BY DEF Step, Ops, Part
<1>6. rest \in Seq(Step)
  BY Leave
<1>7. char \in Seq(Step) /\ char # <<>> /\ Head(char) = <<"save", "char">>
  BY <1>5, <1>6, ThenProperties
<1>8. /\ Then(<<"save", "mirror">>, rest) # <<>> /\ Head(Then(<<"save", "mirror">>, rest)) = <<"save", "mirror">>
      /\ Then(<<"save", "mirror">>, char) # <<>> /\ Head(Then(<<"save", "mirror">>, char)) = <<"save", "mirror">>
  BY <1>5, <1>6, <1>7, ThenProperties
<1>9. ASSUME Advance
      PROVE  task' \in Tasks /\ Planned' /\ ~ task'.refused /\ Now' = <<"save", "mirror">>
  <2>1. /\ task' \in Tasks /\ task'.steps = Tail(task.steps) /\ ~ task'.refused
        /\ Tail(task.steps) # <<>> => task'.kind = "save"
    BY <1>1, <1>3, <1>9, Advanced
  <2>2. Now' = <<"save", "mirror">>
    BY <2>1, <1>4, <1>8 DEF Now, Idle
  <2>3. Planned'
    BY <2>1, <1>3, <1>4, SavingNext
  <2> QED
    BY <2>1, <2>2, <2>3
<1>10. ASSUME Skips
       PROVE  task' \in Tasks /\ Planned' /\ ~ task'.refused /\ Now' \in ToRest \cup {<<"save", "char">>}
  <2>1. task \in Tasks
    BY DEF TypeOK
  <2>2. CASE Len(task.steps) = 2
    <3>1. task' = NoTask /\ task'.steps = <<>> /\ task'.refused = FALSE
      BY <1>10, <2>2 DEF Skips, NoTask
    <3>2. NoTask \in Tasks
      BY DEF NoTask, Tasks, Kinds
    <3>3. Planned'
      BY <3>1, PlannedNext
    <3>4. Now' = <<"idle", "all">>
      BY <3>1 DEF Now, Idle
    <3> QED
      BY <3>1, <3>2, <3>3, <3>4 DEF ToRest
  <2>3. CASE Len(task.steps) # 2
    <3>1. task' = [task EXCEPT !.steps = Tail(Tail(task.steps))]
      BY <1>10, <2>3 DEF Skips
    <3>2. Tail(Tail(task.steps)) \in Seq(Step)
      BY <1>4, <1>6, <1>7
    <3>3. task' \in Tasks /\ task'.steps = Tail(Tail(task.steps)) /\ task'.kind = "save" /\ ~ task'.refused
      BY <2>1, <3>1, <3>2, <1>3 DEF Tasks
    <3>4. CASE task'.steps = rest
      BY <1>3, <3>3, <3>4, SavingNext
    <3>5. CASE task'.steps = char
      <4>1. Now' = <<"save", "char">>
        BY <3>5, <1>7 DEF Now, Idle
      <4>2. Planned'
        BY <1>3, <3>3, <3>5, SavingNext
      <4> QED
        BY <3>3, <4>1, <4>2
    <3> QED
      BY <1>4, <3>3, <3>4, <3>5
  <2> QED
    BY <2>2, <2>3
<1> QED
  BY <1>3, <1>4, <1>9, <1>10

LEMMA SaveMirrorFlow ==
    ASSUME TypeOK, Planned, Doing("save"), Subject = "mirror", up', player' = player, Advance
    PROVE  /\ Now = <<"save", "mirror">> /\ player # None /\ ~ task.refused
           /\ task' \in Tasks /\ Planned' /\ ~ task'.refused /\ Now' \in ToRest \cup {<<"save", "char">>}
<1>1. ~ Idle /\ Now[1] = "save" /\ Now[2] = "mirror"
  BY DoingNow
<1>2. Saving
  BY <1>1, Place
<1>3. player # None /\ ~ task.refused /\ task.kind = "save"
  BY <1>2 DEF Saving
<1>a. PICK rest \in ToLeave : Remains(rest)
  BY <1>1, <1>2, SavingAt
<1>4. \/ Now = <<"save", "mirror">> /\ Tail(task.steps) = Then(<<"save", "char">>, rest)
      \/ Now = <<"save", "mirror">> /\ Tail(task.steps) = rest
  BY <1>1, <1>a DEF Remains
<1>5. /\ task' \in Tasks /\ task'.steps = Tail(task.steps) /\ ~ task'.refused
      /\ Tail(task.steps) # <<>> => task'.kind = "save"
  BY <1>1, <1>3, Advanced
<1>6. CASE Tail(task.steps) = rest
  BY <1>3, <1>4, <1>5, <1>6, SavingNext
<1>7. CASE Tail(task.steps) = Then(<<"save", "char">>, rest)
  <2>1. <<"save", "char">> \in Step
    BY DEF Step, Ops, Part
  <2>2. Then(<<"save", "char">>, rest) # <<>> /\ Head(Then(<<"save", "char">>, rest)) = <<"save", "char">>
    BY <2>1, Leave, ThenProperties
  <2>3. Now' = <<"save", "char">>
    BY <2>2, <1>5, <1>7 DEF Now, Idle
  <2>4. Planned'
    BY <1>3, <1>5, <1>7, SavingNext
  <2> QED
    BY <2>3, <2>4, <1>3, <1>4, <1>5
<1> QED
  BY <1>4, <1>6, <1>7

LEMMA LeftFlow ==
    ASSUME TypeOK, Planned, Doing("quit") \/ Doing("leave"), Advance
    PROVE  /\ Now[1] \in {"quit", "leave"} /\ player # None /\ ~ task.refused
           /\ task' = NoTask /\ task' \in Tasks /\ Planned' /\ Now' = <<"idle", "all">>
<1>1. ~ Idle /\ Now[1] \in {"quit", "leave"}
  BY DoingNow
<1>2. Saving
  BY <1>1, Place
<1>3. player # None /\ ~ task.refused
  BY <1>2 DEF Saving
<1>4. Tail(task.steps) = <<>>
  <2>1. PICK rest \in ToLeave : Remains(rest)
    BY <1>1, <1>2, SavingAt
  <2> QED
    BY <1>1, <2>1 DEF Remains
<1>5. task' = NoTask /\ task' \in Tasks /\ task'.steps = <<>>
  BY <1>1, <1>3, <1>4, Advanced
<1> QED
  BY <1>1, <1>3, <1>5, PlannedNext DEF Now, Idle

-----------------------------------------------------------------------------
(* How a procedure begins. *)

Begun(kind, c, next) ==
    /\ task' \in Tasks /\ Planned' /\ ~ task'.refused /\ task'.kind = kind /\ task'.conn = c /\ task'.moved = {} /\ task'.from = Found
    /\ Now' = next

LEMMA DeletingBegins ==
    ASSUME TypeOK, NEW kind \in {"delete", "erase"}, NEW c \in Conn \cup {None}, Start(kind, c, DeleteSteps), up'
    PROVE  Begun(kind, c, <<"stage", "char">>)
<1>1. DeleteSteps = Each("stage", ToUnlist)
  BY DEF DeleteSteps, ToUnlist
<1>2. DeleteSteps \in Seq(Step) /\ DeleteSteps # <<>> /\ Head(DeleteSteps) = <<"stage", "char">>
  <2>1. "stage" \in Ops /\ ToUnlist \in Seq(Step)
    BY Rests DEF Ops
  <2> QED
    BY <1>1, <2>1, EachProperties
<1>3. /\ task' \in Tasks /\ task'.steps = DeleteSteps /\ ~ task'.refused
      /\ task'.kind = kind /\ task'.conn = c /\ task'.moved = {} /\ task'.from = Found
  BY <1>2, Started DEF Kinds
<1>4. Deleting'
  BY <1>1, <1>3 DEF Deleting, Amid
<1>5. Planned'
  BY <1>3, <1>4, PlannedNext
<1>6. Now' = <<"stage", "char">>
  BY <1>2, <1>3 DEF Now, Idle
<1> QED
  BY <1>3, <1>5, <1>6 DEF Begun

LEMMA MigratingBegins ==
    ASSUME TypeOK, NEW kind \in {"link", "select"}, NEW c \in Conn \cup {None}, kind = "select" => c \in Conn, up', listed' = listed,
           Start(kind, c, MigrateSteps(IF kind = "select" THEN OpenSteps ELSE IF listed THEN <<>> ELSE <<<<"list", "all">>>>))
    PROVE  Begun(kind, c, <<"hydrate", "char">>)
<1> DEFINE rest == IF kind = "select" THEN OpenSteps ELSE IF listed THEN <<>> ELSE ToList
           snapshot == Then(<<"snapshot", "all">>, rest)
           retire == Each("retire", snapshot)
           steps == Each("hydrate", retire)
<1>1. rest \in Seq(Step)
  BY Rests
<1>2. <<"snapshot", "all">> \in Step /\ "retire" \in Ops /\ "hydrate" \in Ops
  BY DEF Step, Ops
<1>3. snapshot \in Seq(Step)
  BY <1>1, <1>2, ThenProperties
<1>4. retire \in Seq(Step)
  <2> HIDE DEF snapshot
  <2> QED
    BY <1>2, <1>3, EachProperties
<1>5. steps \in Seq(Step) /\ steps # <<>> /\ Head(steps) = <<"hydrate", "char">>
  <2> HIDE DEF retire
  <2> QED
    BY <1>2, <1>4, EachProperties
<1>6. Start(kind, c, steps)
  BY DEF MigrateSteps, ToList
<1>7. /\ task' \in Tasks /\ task'.steps = steps /\ ~ task'.refused
      /\ task'.kind = kind /\ task'.conn = c /\ task'.moved = {} /\ task'.from = Found
  <2> HIDE DEF steps
  <2> QED
    BY <1>5, <1>6, Started DEF Kinds
<1>8. Afterwards' = rest
  BY <1>7 DEF Afterwards
<1>9. ToSnapshot' = snapshot
  BY <1>8 DEF ToSnapshot
<1>10. Migrating'
  BY <1>7, <1>9 DEF Migrating, Amid
<1> HIDE DEF steps
<1>11. Planned'
  BY <1>7, <1>10, PlannedNext
<1>12. Now' = <<"hydrate", "char">>
  BY <1>5, <1>7 DEF Now, Idle
<1> QED
  BY <1>7, <1>11, <1>12 DEF Begun

LEMMA OpeningBegins ==
    ASSUME TypeOK, NEW c \in Conn, Start("select", c, OpenSteps), up'
    PROVE  Begun("select", c, <<"open", "all">>)
<1>1. OpenSteps \in Seq(Step) /\ OpenSteps # <<>> /\ Head(OpenSteps) = <<"open", "all">>
  BY Rests
<1>2. /\ task' \in Tasks /\ task'.steps = OpenSteps /\ ~ task'.refused
      /\ task'.kind = "select" /\ task'.conn = c /\ task'.moved = {} /\ task'.from = Found
  BY <1>1, Started DEF Kinds
<1>3. Opening'
  BY <1>2 DEF Opening
<1>4. Planned'
  BY <1>2, <1>3, PlannedNext
<1>5. Now' = <<"open", "all">>
  BY <1>1, <1>2 DEF Now, Idle
<1> QED
  BY <1>2, <1>4, <1>5 DEF Begun

LEMMA CreatingBegins ==
    ASSUME TypeOK, NEW c \in Conn, Start("create", c, Each("create", <<<<"list", "all">>>>)), up'
    PROVE  Begun("create", c, <<"create", "char">>)
<1> DEFINE steps == Each("create", ToList)
<1>1. "create" \in Ops /\ ToList \in Seq(Step)
  BY Rests DEF Ops
<1>2. steps \in Seq(Step) /\ steps # <<>> /\ Head(steps) = <<"create", "char">>
  BY <1>1, EachProperties
<1>3. Start("create", c, steps)
  BY DEF ToList
<1> HIDE DEF steps
<1>4. /\ task' \in Tasks /\ task'.steps = steps /\ ~ task'.refused
      /\ task'.kind = "create" /\ task'.conn = c /\ task'.moved = {} /\ task'.from = Found
  BY <1>2, <1>3, Started DEF Kinds
<1>5. Creating'
  BY <1>4 DEF Creating, Amid, steps
<1>6. Planned'
  BY <1>4, <1>5, PlannedNext
<1>7. Now' = <<"create", "char">>
  BY <1>2, <1>4 DEF Now, Idle
<1> QED
  BY <1>4, <1>6, <1>7 DEF Begun

LEMMA SavingBegins ==
    ASSUME TypeOK, NEW rest \in ToLeave, NEW steps \in {CharFirst(rest), ObjectsFirst(rest), <<<<"save", "char">>>>},
           Start("save", None, steps), up', player' # None
    PROVE  /\ Begun("save", None, Now') /\ Now' \in {<<"save", "char">>, <<"save", "runtime">>}
           /\ Tail(task'.steps) # <<<<"quit", "all">>>>
<1> DEFINE mirror == Then(<<"save", "mirror">>, rest)
           char == Then(<<"save", "char">>, rest)
           runtimeMirror == Then(<<"save", "runtime">>, mirror)
           mirrorChar == Then(<<"save", "mirror">>, char)
<1>1. /\ <<"save", "runtime">> \in Step /\ <<"save", "mirror">> \in Step /\ <<"save", "char">> \in Step
      /\ <<"quit", "all">> \in Step
  BY DEF Step, Ops, Part
<1>2. rest \in Seq(Step)
  BY Leave
<1>3. mirror \in Seq(Step) /\ char \in Seq(Step)
  BY <1>1, <1>2, ThenProperties
<1> HIDE DEF mirror, char
<1>4. runtimeMirror \in Seq(Step) /\ Head(runtimeMirror) = <<"save", "runtime">>
  BY <1>1, <1>3, ThenProperties
<1>5. mirrorChar \in Seq(Step) /\ Head(mirrorChar) = <<"save", "mirror">>
  BY <1>1, <1>3, ThenProperties
<1> HIDE DEF runtimeMirror, mirrorChar
<1>6. Head(<<<<"quit", "all">>>>) = <<"quit", "all">>
  OBVIOUS
<1>7. CASE steps = CharFirst(rest)
  <2>1. steps = Then(<<"save", "char">>, runtimeMirror)
    BY <1>7 DEF CharFirst, runtimeMirror, mirror
  <2>2. steps \in Seq(Step) /\ steps # <<>> /\ Head(steps) = <<"save", "char">> /\ Tail(steps) = runtimeMirror
    BY <2>1, <1>1, <1>4, ThenProperties
  <2>3. /\ task' \in Tasks /\ task'.steps = steps /\ ~ task'.refused
        /\ task'.kind = "save" /\ task'.conn = None /\ task'.moved = {} /\ task'.from = Found
    BY <2>2, Started DEF Kinds
  <2>4. Planned'
    BY <1>7, <2>3, SavingNext
  <2>5. Now' = <<"save", "char">>
    BY <2>2, <2>3 DEF Now, Idle
  <2>6. runtimeMirror # <<<<"quit", "all">>>>
    BY <1>4, <1>6
  <2> QED
    BY <2>2, <2>3, <2>4, <2>5, <2>6 DEF Begun
<1>8. CASE steps = ObjectsFirst(rest)
  <2>1. steps = Then(<<"save", "runtime">>, mirrorChar)
    BY <1>8 DEF ObjectsFirst, mirrorChar, char
  <2>2. steps \in Seq(Step) /\ steps # <<>> /\ Head(steps) = <<"save", "runtime">> /\ Tail(steps) = mirrorChar
    BY <2>1, <1>1, <1>5, ThenProperties
  <2>3. /\ task' \in Tasks /\ task'.steps = steps /\ ~ task'.refused
        /\ task'.kind = "save" /\ task'.conn = None /\ task'.moved = {} /\ task'.from = Found
    BY <2>2, Started DEF Kinds
  <2>4. Planned'
    BY <1>8, <2>3, SavingNext
  <2>5. Now' = <<"save", "runtime">>
    BY <2>2, <2>3 DEF Now, Idle
  <2>6. mirrorChar # <<<<"quit", "all">>>>
    BY <1>5, <1>6
  <2> QED
    BY <2>2, <2>3, <2>4, <2>5, <2>6 DEF Begun
<1>9. CASE steps = <<<<"save", "char">>>>
  <2>1. steps \in Seq(Step) /\ steps # <<>> /\ Head(steps) = <<"save", "char">> /\ Tail(steps) = <<>>
    BY <1>9, <1>1, Few
  <2>2. /\ task' \in Tasks /\ task'.steps = steps /\ ~ task'.refused
        /\ task'.kind = "save" /\ task'.conn = None /\ task'.moved = {} /\ task'.from = Found
    BY <2>1, Started DEF Kinds
  <2>3. <<>> \in ToLeave /\ Then(<<"save", "char">>, <<>>) = steps
    <3>1. <<<<"save", "char">>>> \in Seq(Step)
      BY <2>1, <1>9
    <3> QED
      BY <3>1, <1>9, ConcatEmptySeq DEF ToLeave, Then
  <2>4. Planned'
    BY <2>2, <2>3, SavingNext
  <2>5. Now' = <<"save", "char">>
    BY <2>1, <2>2 DEF Now, Idle
  <2>6. <<<<"quit", "all">>>> # <<>>
    OBVIOUS
  <2> QED
    BY <2>1, <2>2, <2>4, <2>5, <2>6 DEF Begun
<1> QED
  BY <1>7, <1>8, <1>9

-----------------------------------------------------------------------------
(* Every step keeps the types and the plan. *)

DataOK ==
    /\ listed \in BOOLEAN
    /\ native \in File /\ legacy \in File /\ pending \in File
    /\ runtime \in Age \cup {None}
    /\ entry \in {"none", "blank", "legacy", "native"}
    /\ menu \in [Conn -> Age \cup {None}]
    /\ held \in Age \cup {None}
    /\ player \in Conn \cup {None}
    /\ body \in [char : Age, obj : Age]
    /\ up \in BOOLEAN
    /\ made \in Age /\ buried \in Age
    /\ saved \in [Part -> Age]
    /\ odd \subseteq Rare \cup {"crash", "torn"}

LEMMA TypedApart == TypeOK <=> DataOK /\ task \in Tasks
BY DEF TypeOK, DataOK

LEMMA Marks ==
    ASSUME odd \subseteq Rare \cup {"crash", "torn"}, "torn" \in odd => "crash" \in odd
    PROVE  /\ \A xs : MarkAll(xs) => odd' \subseteq Rare \cup {"crash", "torn"} /\ ("torn" \in odd' => "crash" \in odd') /\ odd \subseteq odd' /\ xs \subseteq odd'
           /\ \A x : Mark(x) => odd' \subseteq Rare \cup {"crash", "torn"} /\ ("torn" \in odd' => "crash" \in odd') /\ odd \subseteq odd' /\ x \in odd'
           /\ \A c, x : MarkIf(c, x) => odd' \subseteq Rare \cup {"crash", "torn"} /\ ("torn" \in odd' => "crash" \in odd') /\ odd \subseteq odd'
                                        /\ (c => x \in odd') /\ (~ c => odd' = odd)
<1>1. "torn" \notin Rare
  BY RareAssumption DEF Rarities
<1>2. ASSUME NEW xs, MarkAll(xs)
      PROVE  odd' \subseteq Rare \cup {"crash", "torn"} /\ ("torn" \in odd' => "crash" \in odd') /\ odd \subseteq odd' /\ xs \subseteq odd'
  BY <1>1, <1>2 DEF MarkAll
<1>3. ASSUME NEW x, Mark(x)
      PROVE  odd' \subseteq Rare \cup {"crash", "torn"} /\ ("torn" \in odd' => "crash" \in odd') /\ odd \subseteq odd' /\ x \in odd'
  BY <1>2, <1>3 DEF Mark
<1> QED
  BY <1>2, <1>3 DEF MarkIf

Typed == TypeOK /\ Planned /\ Settled

LEMMA Ages == Nothing \in Age /\ Age \subseteq Nat /\ 1 \in Age /\ None \notin Age /\ None \notin Nat
BY NoneAssumption, MaxAgeAssumption DEF Age, Nothing

LEMMA Files ==
    ASSUME NEW f \in File
    PROVE  /\ \A p \in Part : f[p] \in Age \cup {None}
           /\ \A p \in Part : \A x \in Age \cup {None} : [f EXCEPT ![p] = x] \in File
           /\ NoFile \in File
BY DEF File, NoFile

LEMMA DeletionTyped ==
    ASSUME Typed, Stage \/ PutBack \/ Unlist \/ Drop
    PROVE  Typed'
<1> USE DEF Typed
<1>1. /\ DataOK /\ "char" \in Part /\ "obj" \in Part /\ odd \subseteq Rare \cup {"crash", "torn"} /\ ("torn" \in odd => "crash" \in odd)
      /\ buried \in Age /\ made \in Age /\ buried <= made /\ None \in Conn \cup {None}
  BY TypedApart DEF Settled, DataOK, Part
<1>2. CASE Stage
  <2>1. Doing("stage") /\ up' = up /\ UNCHANGED <<memory, ghost, odd>>
    BY <1>2 DEF Stage, memory
  <2>2. up /\ up'
    BY <2>1 DEF Doing
  <2>3. Subject \in Part
    BY <2>1, <2>2, StageFlow
  <2>4. Advance \/ AdvanceMoving(Subject) \/ Unstage
    BY <1>2 DEF Stage
  <2>5. task' \in Tasks /\ Planned'
    BY <2>1, <2>2, <2>4, StageFlow DEF Refused
  <2>6. native' \in File /\ pending' \in File /\ UNCHANGED <<listed, legacy, runtime>>
    BY SMTT(20), <1>1, <1>2, <2>3, Files DEF Stage, DataOK, disk
  <2> QED
    BY <1>1, <2>1, <2>2, <2>5, <2>6 DEF TypeOK, DataOK, Settled, memory, ghost
<1>3. CASE PutBack
  <2>1. Doing("restore") /\ Advance /\ UNCHANGED <<listed, legacy, runtime, memory, ghost>>
    BY <1>3 DEF PutBack
  <2>2. up /\ up'
    BY <2>1 DEF Doing, memory
  <2>3. Subject \in Part /\ task' \in Tasks /\ Planned'
    BY <2>1, <2>2, RestoreFlow DEF Refused
  <2>4. native' \in File /\ pending' \in File
    BY <1>1, <1>3, <2>3, Files DEF PutBack, DataOK
  <2>5. odd' \subseteq Rare \cup {"crash", "torn"} /\ ("torn" \in odd' => "crash" \in odd')
    BY <1>1, <1>3, Marks DEF PutBack
  <2> QED
    BY <1>1, <2>1, <2>2, <2>3, <2>4, <2>5 DEF TypeOK, DataOK, Settled, memory, ghost
<1>4. CASE Unlist
  <2>1. Doing("unlist") /\ up' = up /\ UNCHANGED <<native, legacy, pending, runtime, player, body, made>>
    BY <1>4 DEF Unlist, Forget, memory, disk, ghost
  <2>2. up /\ up'
    BY <2>1 DEF Doing
  <2>3. Advance \/ Unstage
    BY <1>4 DEF Unlist
  <2>4. task' \in Tasks /\ Planned'
    BY <2>1, <2>2, <2>3, UnlistFlow DEF Refused
  <2>5. /\ listed' \in BOOLEAN /\ entry' \in {"none", "blank", "legacy", "native"} /\ menu' \in [Conn -> Age \cup {None}]
        /\ held' \in Age \cup {None} /\ saved' \in [Part -> Age] /\ buried' \in Age /\ buried' <= made
    <3>1. CASE Unstage /\ UNCHANGED <<disk, memory, ghost, odd>>
      BY <1>1, <3>1 DEF memory, disk, ghost, DataOK
    <3>2. CASE listed' = FALSE /\ Forget
      <4>1. saved' = [p \in Part |-> Nothing] /\ buried' = made /\ listed' = FALSE /\ entry' \in {"none", "blank"} /\ held' \in {None, held}
        BY <3>2 DEF Forget
      <4>2. menu' = [c \in Conn |-> IF c = task.conn THEN None ELSE menu[c]]
        BY <3>2 DEF Forget
      <4>3. menu' \in [Conn -> Age \cup {None}]
        BY <1>1, <4>2 DEF DataOK
      <4>4. saved' \in [Part -> Age]
        BY <4>1, Ages
      <4>5. made \in Nat
        BY <1>1, Ages
      <4>6. listed' \in BOOLEAN /\ entry' \in {"none", "blank", "legacy", "native"}
        BY <4>1
      <4>7. held' \in Age \cup {None}
        BY <1>1, <4>1 DEF DataOK
      <4>8. buried' \in Age /\ buried' <= made
        BY <1>1, <4>1, <4>5
      <4> QED
        BY <4>3, <4>4, <4>6, <4>7, <4>8
    <3> QED
      BY <1>4, <3>1, <3>2 DEF Unlist
  <2>6. odd' \subseteq Rare \cup {"crash", "torn"} /\ ("torn" \in odd' => "crash" \in odd')
    BY <1>1, <1>4, Marks DEF Unlist
  <2> QED
    BY <1>1, <2>1, <2>2, <2>4, <2>5, <2>6 DEF TypeOK, DataOK, Settled
<1>5. CASE Drop
  <2>1. Doing("drop") /\ Advance /\ UNCHANGED <<listed, native, legacy, runtime, memory, ghost, odd>>
    BY <1>5 DEF Drop
  <2>2. up /\ up'
    BY <2>1 DEF Doing, memory
  <2>3. Subject \in Part /\ task' \in Tasks /\ Planned'
    BY <2>1, <2>2, DropFlow
  <2>4. pending' \in File
    BY <1>1, <1>5, <2>3, Files DEF Drop, DataOK
  <2> QED
    BY <1>1, <2>1, <2>2, <2>3, <2>4 DEF TypeOK, DataOK, Settled, memory, ghost
<1> QED
  BY <1>2, <1>3, <1>4, <1>5

LEMMA MigrationTyped ==
    ASSUME Typed, Hydrate \/ Retire \/ RetireSnapshot \/ Unretire \/ Clean
    PROVE  Typed'
<1> USE DEF Typed
<1>1. /\ DataOK /\ odd \subseteq Rare \cup {"crash", "torn"} /\ ("torn" \in odd => "crash" \in odd)
  BY TypedApart DEF Settled, DataOK
<1>2. CASE Hydrate
  <2>1. Doing("hydrate") /\ UNCHANGED <<listed, legacy, pending, runtime, memory, ghost, odd>>
    BY <1>2 DEF Hydrate
  <2>2. up /\ up'
    BY <2>1 DEF Doing, memory
  <2>3. Subject \in Part
    BY <2>1, <2>2, HydrateFlow
  <2>4. Advance \/ FailWith(<<>>) \/ CleanUp
    BY <1>2 DEF Hydrate
  <2>5. task' \in Tasks /\ Planned'
    BY <2>1, <2>2, <2>4, HydrateFlow DEF Refused
  <2>6. native' \in File
    <3> DEFINE x == IF legacy[Subject] = None THEN Nothing ELSE legacy[Subject]
    <3>1. x \in Age \cup {None} /\ native \in File
      BY <1>1, <2>3, Files, Ages DEF DataOK
    <3>2. native' = [native EXCEPT ![Subject] = x] \/ native' = native
      BY <1>2 DEF Hydrate
    <3> HIDE DEF x
    <3> QED
      BY <2>3, <3>1, <3>2, Files
  <2> QED
    BY <1>1, <2>1, <2>2, <2>5, <2>6 DEF TypeOK, DataOK, Settled, memory, ghost
<1>3. CASE Retire
  <2>1. Doing("retire") /\ UNCHANGED <<listed, native, pending, runtime, memory, ghost, odd>>
    BY <1>3 DEF Retire
  <2>2. up /\ up'
    BY <2>1 DEF Doing, memory
  <2>3. Subject \in Part
    BY <2>1, <2>2, RetireFlow
  <2>4. Advance \/ AdvanceMoving(Subject) \/ CleanUp
    BY <1>3 DEF Retire
  <2>5. task' \in Tasks /\ Planned'
    BY <2>1, <2>2, <2>4, RetireFlow DEF Refused
  <2>6. legacy' \in File
    BY <1>1, <1>3, <2>3, Files DEF Retire, DataOK
  <2> QED
    BY <1>1, <2>1, <2>2, <2>5, <2>6 DEF TypeOK, DataOK, Settled, memory, ghost
<1>4. CASE RetireSnapshot
  <2>1. Doing("snapshot") /\ UNCHANGED <<disk, memory, ghost>>
    BY <1>4 DEF RetireSnapshot
  <2>2. up /\ up'
    BY <2>1 DEF Doing, memory
  <2>3. Advance \/ FailWith(Each("clean", <<>>))
    BY <1>4 DEF RetireSnapshot
  <2>4. task' \in Tasks /\ Planned'
    BY <2>1, <2>2, <2>3, SnapshotFlow DEF Refused, disk
  <2>5. odd' \subseteq Rare \cup {"crash", "torn"} /\ ("torn" \in odd' => "crash" \in odd')
    BY <1>1, <1>4, Marks DEF RetireSnapshot
  <2> QED
    BY <1>1, <2>1, <2>2, <2>4, <2>5 DEF TypeOK, DataOK, Settled, memory, ghost, disk
<1>5. CASE Unretire
  <2>1. Doing("unretire") /\ Advance /\ UNCHANGED <<listed, native, pending, runtime, memory, ghost>>
    BY <1>5 DEF Unretire
  <2>2. up /\ up'
    BY <2>1 DEF Doing, memory
  <2>3. Subject \in Part /\ task' \in Tasks /\ Planned'
    BY <2>1, <2>2, UnretireFlow DEF Refused
  <2>4. legacy' \in File
    BY <1>1, <1>5, <2>3, Files DEF Unretire, DataOK
  <2>5. odd' \subseteq Rare \cup {"crash", "torn"} /\ ("torn" \in odd' => "crash" \in odd')
    BY <1>1, <1>5, Marks DEF Unretire
  <2> QED
    BY <1>1, <2>1, <2>2, <2>3, <2>4, <2>5 DEF TypeOK, DataOK, Settled, memory, ghost
<1>6. CASE Clean
  <2>1. Doing("clean") /\ Advance /\ UNCHANGED <<listed, legacy, pending, runtime, memory, ghost>>
    BY <1>6 DEF Clean
  <2>2. up /\ up'
    BY <2>1 DEF Doing, memory
  <2>3. Subject \in Part /\ task' \in Tasks /\ Planned'
    BY <2>1, <2>2, CleanFlow DEF Refused
  <2>4. native' \in File
    BY <1>1, <1>6, <2>3, Files DEF Clean, DataOK
  <2>5. odd' \subseteq Rare \cup {"crash", "torn"} /\ ("torn" \in odd' => "crash" \in odd')
    BY <1>1, <1>6, Marks DEF Clean
  <2> QED
    BY <1>1, <2>1, <2>2, <2>3, <2>4, <2>5 DEF TypeOK, DataOK, Settled, memory, ghost
<1> QED
  BY <1>2, <1>3, <1>4, <1>5, <1>6

LEMMA OpeningTyped ==
    ASSUME Typed, CreateFile \/ List \/ Open \/ Clear \/ Login
    PROVE  Typed'
<1> USE DEF Typed
<1>1. /\ DataOK /\ odd \subseteq Rare \cup {"crash", "torn"} /\ ("torn" \in odd => "crash" \in odd)
      /\ made \in Age /\ "char" \in Part /\ "obj" \in Part
  BY TypedApart DEF Settled, DataOK, Part
<1>2. ASSUME RollBack, task.conn \in Conn
      PROVE  /\ entry' \in {"none", "blank", "legacy", "native"} /\ menu' \in [Conn -> Age \cup {None}] /\ UNCHANGED <<held, player, body, up>>
             /\ odd' \subseteq Rare \cup {"crash", "torn"} /\ ("torn" \in odd' => "crash" \in odd') /\ FailWith(Each("clean", <<>>))
  <2>1. Mark("pretender")
    BY <1>2 DEF RollBack
  <2> QED
    BY <1>1, <1>2, <2>1, Marks DEF RollBack, DataOK
<1>3. CASE CreateFile
  <2>1. Doing("create") /\ UNCHANGED <<listed, legacy, pending, runtime, ghost>>
    BY <1>3 DEF CreateFile
  <2>2. up /\ up'
    BY <1>3, <2>1 DEF Doing, CreateFile, RollBack, memory
  <2>3. Subject \in Part /\ task.conn \in Conn
    BY <2>1, <2>2, CreateFlow
  <2>4. CASE RollBack /\ UNCHANGED native
    <3>1. task' \in Tasks /\ Planned'
      BY <2>1, <2>2, <2>3, <2>4, <1>2, CreateFlow DEF Refused
    <3> QED
      BY <1>1, <1>2, <2>1, <2>2, <2>3, <2>4, <3>1 DEF TypeOK, DataOK, Settled, ghost
  <2>5. CASE native' = [native EXCEPT ![Subject] = IF Subject = "obj" THEN Nothing ELSE made] /\ Advance /\ UNCHANGED <<memory, odd>>
    <3>1. native' = [native EXCEPT ![Subject] = IF Subject = "obj" THEN Nothing ELSE made] /\ Advance /\ UNCHANGED <<memory, odd>>
      BY <2>5
    <3>2. task' \in Tasks /\ Planned'
      BY <2>1, <2>2, <3>1, CreateFlow
    <3>3. native' \in File
      BY <1>1, <2>3, <3>1, Files, Ages DEF DataOK
    <3> QED
      BY <1>1, <2>1, <2>2, <3>1, <3>2, <3>3 DEF TypeOK, DataOK, Settled, memory, ghost
  <2> QED
    BY <1>3, <2>4, <2>5 DEF CreateFile
<1>4. CASE List
  <2>1. Doing("list") /\ UNCHANGED <<native, legacy, pending, runtime>>
    BY <1>4 DEF List, disk
  <2>2. up /\ up'
    BY <1>4, <2>1 DEF Doing, List, RollBack, memory
  <2>3. (task.kind = "link" /\ ~ listed) \/ (task.kind = "create" /\ task.conn \in Conn)
    BY <2>1, <2>2, ListFlow
  <2>4. CASE task.kind = "create" /\ RollBack /\ UNCHANGED <<disk, ghost>>
    <3>1. task.conn \in Conn
      BY <2>3, <2>4
    <3>2. task' \in Tasks /\ Planned'
      BY <2>1, <2>2, <2>4, <3>1, <1>2, ListFlow DEF Refused
    <3> QED
      BY <1>1, <1>2, <2>2, <2>4, <3>1, <3>2 DEF TypeOK, DataOK, Settled, ghost, disk
  <2> DEFINE Succeeds ==
          /\ listed' = TRUE
          /\ menu' = [menu EXCEPT ![task.conn] = made]
          /\ saved' = [char |-> made, obj |-> Nothing, exp |-> made]
          /\ Advance
          /\ UNCHANGED <<native, legacy, pending, runtime, entry, held, player, body, up, made, buried, odd>>
  <2>5. CASE task.kind = "create" /\ Succeeds
    <3>1. Succeeds
      BY <2>5
    <3>2. task' \in Tasks /\ Planned'
      BY <2>1, <2>2, <3>1, ListFlow
    <3>3. saved' \in [Part -> Age] /\ menu' \in [Conn -> Age \cup {None}]
      <4>1. DOMAIN saved' = Part
        BY <3>1 DEF Part
      <4>2. saved' = [p \in Part |-> saved'[p]] /\ \A p \in Part : saved'[p] \in Age
        BY <1>1, <3>1, Ages DEF Part
      <4> QED
        BY <1>1, <3>1, <4>2 DEF DataOK
    <3> QED
      BY <1>1, <2>2, <3>1, <3>2, <3>3 DEF TypeOK, DataOK, Settled
  <2>6. CASE task.kind = "link"
    <3>1. /\ UNCHANGED <<native, legacy, pending, runtime, memory, ghost>>
          /\ \/ listed' = TRUE /\ Advance /\ UNCHANGED odd
             \/ UNCHANGED listed /\ FailWith(<<>>) /\ Mark("unlisted")
      BY <1>4, <2>6 DEF List
    <3>2. task' \in Tasks /\ Planned'
      BY <2>1, <2>2, <3>1, ListFlow DEF Refused
    <3>3. odd' \subseteq Rare \cup {"crash", "torn"} /\ ("torn" \in odd' => "crash" \in odd')
      BY <1>1, <3>1, Marks
    <3> QED
      BY <1>1, <2>2, <3>1, <3>2, <3>3 DEF TypeOK, DataOK, Settled, memory, ghost
  <2> QED
    BY <1>4, <2>3, <2>4, <2>5, <2>6 DEF List
<1>5. CASE Open
  <2>1. Doing("open") /\ Advance /\ UNCHANGED <<disk, menu, player, body, up, ghost, odd>>
    BY <1>5 DEF Open
  <2>2. up /\ up'
    BY <2>1 DEF Doing
  <2>3. task' \in Tasks /\ Planned'
    BY <2>1, <2>2, OpenFlow
  <2>4. entry' = "native" /\ held' \in Age \cup {None}
    BY <1>1, <1>5, Files, Ages DEF Open, DataOK
  <2> QED
    BY <1>1, <2>1, <2>2, <2>3, <2>4 DEF TypeOK, DataOK, Settled, disk, ghost
<1>6. CASE Clear
  <2>1. Doing("clear") /\ UNCHANGED <<listed, native, pending, runtime, entry, menu, player, body, up, ghost, odd>>
    BY <1>6 DEF Clear
  <2>2. up /\ up'
    BY <2>1 DEF Doing
  <2>3. Subject \in Part /\ (Advance \/ FailWith(<<>>))
    BY <1>6, <2>1, <2>2, ClearFlow DEF Clear, Part
  <2>4. task' \in Tasks /\ Planned'
    BY <2>1, <2>2, <2>3, ClearFlow DEF Refused
  <2>5. legacy' \in File /\ held' \in Age \cup {None}
    BY <1>1, <1>6, <2>3, Files DEF Clear, DataOK
  <2> QED
    BY <1>1, <2>1, <2>2, <2>4, <2>5 DEF TypeOK, DataOK, Settled, ghost
<1>7. CASE Login
  <2>1. Doing("login") /\ Advance /\ UNCHANGED <<disk, entry, body, up, ghost, odd>>
    BY <1>7 DEF Login
  <2>2. up /\ up'
    BY <2>1 DEF Doing
  <2>3. task' \in Tasks /\ Planned' /\ task.conn \in Conn
    BY <2>1, <2>2, LoginFlow
  <2>4. native["char"] \in Age \cup {None}
    BY <1>1, Files DEF DataOK
  <2>5. player' \in Conn \cup {None} /\ held' \in Age \cup {None} /\ menu' \in [Conn -> Age \cup {None}]
    BY <1>1, <1>7, <2>3, <2>4 DEF Login, DataOK
  <2> QED
    BY <1>1, <2>1, <2>2, <2>3, <2>5 DEF TypeOK, DataOK, Settled, ghost, disk
<1> QED
  BY <1>3, <1>4, <1>5, <1>6, <1>7

LEMMA SavingTyped ==
    ASSUME Typed, SaveChar \/ SaveRuntime \/ SaveMirror \/ Left
    PROVE  Typed'
<1> USE DEF Typed
<1>1. /\ DataOK /\ odd \subseteq Rare \cup {"crash", "torn"} /\ ("torn" \in odd => "crash" \in odd)
      /\ "char" \in Part /\ "obj" \in Part /\ body.char \in Age /\ body.obj \in Age
  BY TypedApart DEF Settled, DataOK, Part
<1>2. CASE SaveChar
  <2>1. Doing("save") /\ Subject = "char" /\ Advance /\ UNCHANGED <<listed, pending, runtime, menu, held, player, body, up, made, buried, odd>>
    BY <1>2 DEF SaveChar
  <2>2. up /\ up'
    BY <2>1 DEF Doing
  <2>3. task' \in Tasks /\ Planned'
    BY <2>1, <2>2, SaveCharFlow
  <2>4. native' \in File /\ legacy' \in File /\ entry' \in {"none", "blank", "legacy", "native"} /\ saved' \in [Part -> Age]
    BY <1>1, <1>2, Files DEF SaveChar, DataOK
  <2> QED
    BY <1>1, <2>1, <2>2, <2>3, <2>4 DEF TypeOK, DataOK, Settled
<1>3. CASE SaveRuntime
  <2>1. Doing("save") /\ Subject = "runtime" /\ UNCHANGED <<listed, native, legacy, pending, memory, made, buried>>
    BY <1>3 DEF SaveRuntime
  <2>2. up /\ up' /\ player' = player
    BY <2>1 DEF Doing, memory
  <2>3. Advance \/ Skips
    BY <1>3 DEF SaveRuntime, Skips
  <2>4. task' \in Tasks /\ Planned'
    BY <2>1, <2>2, <2>3, SaveRuntimeFlow
  <2>5. runtime' \in Age \cup {None} /\ saved' \in [Part -> Age]
    BY <1>1, <1>3 DEF SaveRuntime, DataOK
  <2>6. odd' \subseteq Rare \cup {"crash", "torn"} /\ ("torn" \in odd' => "crash" \in odd')
    BY <1>1, <1>3, Marks DEF SaveRuntime
  <2> QED
    BY <1>1, <2>1, <2>2, <2>4, <2>5, <2>6 DEF TypeOK, DataOK, Settled, memory
<1>4. CASE SaveMirror
  <2>1. Doing("save") /\ Subject = "mirror" /\ Advance /\ UNCHANGED <<listed, legacy, pending, runtime, memory, ghost, odd>>
    BY <1>4 DEF SaveMirror
  <2>2. up /\ up' /\ player' = player
    BY <2>1 DEF Doing, memory
  <2>3. task' \in Tasks /\ Planned'
    BY <2>1, <2>2, SaveMirrorFlow
  <2>4. native' \in File
    BY <1>1, <1>4, Files DEF SaveMirror, DataOK
  <2> QED
    BY <1>1, <2>1, <2>2, <2>3, <2>4 DEF TypeOK, DataOK, Settled, memory, ghost
<1>5. CASE Left
  <2>1. (Doing("quit") \/ Doing("leave")) /\ Advance /\ UNCHANGED <<disk, entry, up, ghost, odd>>
    BY <1>5 DEF Left
  <2>2. up /\ up'
    BY <2>1 DEF Doing
  <2>3. task' \in Tasks /\ Planned' /\ player \in Conn
    BY <1>1, <2>1, LeftFlow DEF DataOK
  <2>4. /\ menu' \in [Conn -> Age \cup {None}] /\ held' \in Age \cup {None} /\ player' \in Conn \cup {None} /\ body' \in [char : Age, obj : Age]
    BY <1>1, <1>5, <2>3, Ages DEF Left, DataOK, NoBody
  <2> QED
    BY <1>1, <2>1, <2>2, <2>3, <2>4 DEF TypeOK, DataOK, Settled, disk, ghost
<1> QED
  BY <1>2, <1>3, <1>4, <1>5

LEMMA Ends ==
    ASSUME task' = NoTask
    PROVE  task' \in Tasks /\ Planned' /\ Now' = <<"idle", "all">> /\ ~ task'.refused
<1>1. NoTask \in Tasks /\ NoTask.steps = <<>> /\ ~ NoTask.refused
  BY DEF NoTask, Tasks, Kinds
<1>2. Planned'
  BY <1>1, PlannedNext
<1> QED
  BY <1>1, <1>2 DEF Now, Idle

LEMMA Waits ==
    ASSUME TypeOK, Idle, task' = task
    PROVE  task' \in Tasks /\ Planned' /\ Now' = <<"idle", "all">> /\ Now = <<"idle", "all">>
<1>1. task'.steps = <<>>
  BY DEF Idle
<1>2. Planned'
  BY <1>1, PlannedNext
<1> QED
  BY <1>1, <1>2 DEF Now, Idle, TypeOK

LEMMA BeginTyped ==
    ASSUME Typed, \/ AddChar \/ Link \/ Save \/ Quit \/ Rent \/ Erase \/ EraseLegacy
                  \/ \E c \in Conn : Create(c) \/ Select(c) \/ SelfDelete(c)
    PROVE  Typed'
<1> USE DEF Typed
<1>1. /\ DataOK /\ odd \subseteq Rare \cup {"crash", "torn"} /\ ("torn" \in odd => "crash" \in odd)
      /\ buried <= made /\ made \in Age /\ body.char \in Age /\ body.obj \in Age
  BY TypedApart DEF Settled, DataOK
<1>2. CASE AddChar
  <2>1. up /\ listed' = TRUE /\ task' = NoTask /\ UNCHANGED <<native, legacy, pending, runtime, memory, ghost>>
    BY <1>2 DEF AddChar, Free
  <2>2. odd' \subseteq Rare \cup {"crash", "torn"} /\ ("torn" \in odd' => "crash" \in odd')
    BY <1>1, <1>2, Marks DEF AddChar
  <2> QED
    BY <1>1, <2>1, <2>2, Ends DEF TypeOK, DataOK, Settled, memory, ghost
<1>3. CASE Link
  <2>1. up /\ UNCHANGED <<disk, memory, ghost, odd>>
    BY <1>3 DEF Link, Free
  <2>2. Start("link", None, MigrateSteps(IF "link" = "select" THEN OpenSteps ELSE IF listed THEN <<>> ELSE <<<<"list", "all">>>>))
    BY <1>3 DEF Link
  <2>3. up' /\ listed' = listed
    BY <2>1 DEF disk, memory
  <2>4. Begun("link", None, <<"hydrate", "char">>)
    BY <2>2, <2>3, MigratingBegins
  <2> QED
    BY <1>1, <2>1, <2>3, <2>4 DEF TypeOK, DataOK, Settled, memory, ghost, disk, Begun
<1>4. CASE Save \/ Quit \/ Rent
  <2>1. /\ up /\ player # None /\ UNCHANGED <<disk, entry, menu, held, player, up, ghost, odd>>
        /\ body' = body \/ body' = [body EXCEPT !.obj = Nothing]
    BY <1>4 DEF Save, Quit, Rent, Free, memory
  <2>2. up' /\ player' # None
    BY <2>1
  <2>3. PICK steps \in {CharFirst(<<>>), CharFirst(<<<<"quit", "all">>>>), ObjectsFirst(<<<<"quit", "all">>>>), ObjectsFirst(<<<<"leave", "all">>>>)} :
            Start("save", None, steps)
    BY <1>4 DEF Save, Quit, Rent
  <2>4. Begun("save", None, Now')
    <3>1. <<>> \in ToLeave /\ <<<<"quit", "all">>>> \in ToLeave /\ <<<<"leave", "all">>>> \in ToLeave
      BY DEF ToLeave
    <3>2. PICK rest \in ToLeave : steps \in {CharFirst(rest), ObjectsFirst(rest)}
      BY <2>3, <3>1
    <3> QED
      BY <2>2, <2>3, <3>2, SavingBegins
  <2>5. body' \in [char : Age, obj : Age]
    BY <1>1, <2>1, Ages DEF DataOK
  <2> QED
    BY <1>1, <2>1, <2>2, <2>4, <2>5 DEF TypeOK, DataOK, Settled, ghost, disk, Begun
<1>5. CASE Erase
  <2>1. /\ up /\ UNCHANGED <<disk, entry, menu, up, ghost>> /\ TakeOut /\ Start("erase", None, DeleteSteps)
    BY <1>5 DEF Erase, Free
  <2>2. up'
    BY <2>1
  <2>3. Begun("erase", None, <<"stage", "char">>)
    BY <2>1, <2>2, DeletingBegins
  <2>4. odd' \subseteq Rare \cup {"crash", "torn"} /\ ("torn" \in odd' => "crash" \in odd')
    BY <1>1, <1>5, Marks DEF Erase
  <2>5. player' = None /\ held' \in Age \cup {None} /\ body' \in [char : Age, obj : Age]
    BY <1>1, <2>1, Ages DEF TakeOut, DataOK, NoBody
  <2> QED
    BY <1>1, <2>1, <2>2, <2>3, <2>4, <2>5 DEF TypeOK, DataOK, Settled, ghost, disk, Begun
<1>6. CASE EraseLegacy
  <2>1. /\ up /\ UNCHANGED <<listed, native, pending, menu, up, made>> /\ TakeOut /\ task' = NoTask
        /\ runtime' = None /\ entry' = "none" /\ saved' = [p \in Part |-> Nothing] /\ buried' = made
    BY <1>6 DEF EraseLegacy, Free
  <2>2. legacy' \in File
    <3>1. legacy \in File /\ "char" \in Part
      BY <1>1 DEF DataOK, Part
    <3>2. legacy["char"] \in Age \cup {None} /\ NoFile \in File
      BY <3>1, Files
    <3>3. [NoFile EXCEPT !["char"] = legacy["char"]] \in File
      BY <3>1, <3>2, Files
    <3> QED
      BY <1>6, <3>2, <3>3 DEF EraseLegacy
  <2>3. odd' \subseteq Rare \cup {"crash", "torn"} /\ ("torn" \in odd' => "crash" \in odd')
    BY <1>1, <1>6, Marks DEF EraseLegacy
  <2>4. player' = None /\ held' \in Age \cup {None} /\ body' \in [char : Age, obj : Age]
    BY <1>1, <2>1, Ages DEF TakeOut, DataOK, NoBody
  <2>5. saved' \in [Part -> Age] /\ buried' <= made'
    BY <1>1, <2>1, Ages
  <2> QED
    BY <1>1, <2>1, <2>2, <2>3, <2>4, <2>5, Ends DEF TypeOK, DataOK, Settled
<1>7. ASSUME NEW c \in Conn, Create(c)
      PROVE  Typed'
  <2>1. /\ up /\ UNCHANGED <<disk, menu, held, player, body, up, saved, buried>> /\ entry' = "native" /\ made' = made + 1 /\ made < MaxAge
        /\ Start("create", c, Each("create", <<<<"list", "all">>>>))
    BY <1>7 DEF Create, Free
  <2>2. up'
    BY <2>1
  <2>3. Begun("create", c, <<"create", "char">>)
    BY <2>1, <2>2, CreatingBegins
  <2>4. odd' \subseteq Rare \cup {"crash", "torn"} /\ ("torn" \in odd' => "crash" \in odd')
    <3>1. PICK xs : MarkAll(xs)
      BY <1>7 DEF Create
    <3> QED
      BY <1>1, <3>1, Marks
  <2>5. made' \in Age /\ buried' <= made'
    BY <1>1, <2>1, MaxAgeAssumption DEF Age, Nothing, DataOK
  <2> QED
    BY <1>1, <2>1, <2>2, <2>3, <2>4, <2>5 DEF TypeOK, DataOK, Settled, disk, Begun
<1>8. ASSUME NEW c \in Conn, Select(c)
      PROVE  Typed'
  <2>1. /\ up /\ listed /\ UNCHANGED <<disk, memory, ghost>>
        /\ Start("select", c, IF native["char"] = None THEN MigrateSteps(OpenSteps) ELSE OpenSteps)
    BY <1>8 DEF Select, Free
  <2>2. up' /\ listed' = listed
    BY <2>1 DEF memory, disk
  <2>3. Start("select", c, OpenSteps) \/ Start("select", c, MigrateSteps(IF "select" = "select" THEN OpenSteps ELSE IF listed THEN <<>> ELSE <<<<"list", "all">>>>))
    BY <2>1
  <2>4. task' \in Tasks /\ Planned'
    BY <2>2, <2>3, OpeningBegins, MigratingBegins DEF Begun
  <2>5. odd' \subseteq Rare \cup {"crash", "torn"} /\ ("torn" \in odd' => "crash" \in odd')
    BY <1>1, <1>8, Marks DEF Select
  <2> QED
    BY <1>1, <2>1, <2>2, <2>4, <2>5 DEF TypeOK, DataOK, Settled, disk, memory, ghost
<1>9. ASSUME NEW c \in Conn, SelfDelete(c)
      PROVE  Typed'
  <2>1. up /\ UNCHANGED <<disk, memory, ghost, odd>> /\ Start("delete", c, DeleteSteps)
    BY <1>9 DEF SelfDelete, Free
  <2>2. up'
    BY <2>1 DEF memory
  <2>3. Begun("delete", c, <<"stage", "char">>)
    BY <2>1, <2>2, DeletingBegins
  <2> QED
    BY <1>1, <2>1, <2>2, <2>3 DEF TypeOK, DataOK, Settled, disk, memory, ghost, Begun
<1> QED
  BY <1>2, <1>3, <1>4, <1>5, <1>6, <1>7, <1>8, <1>9

LEMMA OtherTyped ==
    ASSUME Typed, Play \/ Crash \/ Boot \/ UNCHANGED vars \/ \E c \in Conn : LeaveMenu(c) \/ Enter(c)
    PROVE  Typed'
<1> USE DEF Typed
<1>1. /\ DataOK /\ odd \subseteq Rare \cup {"crash", "torn"} /\ ("torn" \in odd => "crash" \in odd)
      /\ buried <= made /\ made \in Age /\ buried \in Age /\ body.char \in Age /\ body.obj \in Age /\ task \in Tasks
  BY TypedApart DEF Settled, DataOK
<1>2. CASE Play
  <2>1. /\ up /\ Idle /\ made < MaxAge /\ made' = made + 1 /\ body' = [char |-> made + 1, obj |-> made + 1]
        /\ UNCHANGED <<disk, entry, menu, held, player, up, task, saved, buried, odd>>
    BY <1>2 DEF Play, Free
  <2>2. made + 1 \in Age /\ buried' <= made'
    BY <1>1, <2>1, MaxAgeAssumption DEF Age, Nothing
  <2>3. task' \in Tasks /\ Planned'
    BY <2>1, Waits
  <2> QED
    BY <1>1, <2>1, <2>2, <2>3 DEF TypeOK, DataOK, Settled, disk
<1>3. CASE Crash
  <2>1. /\ up' = FALSE /\ odd' = odd \cup CutShort /\ entry' = "none" /\ menu' = [c \in Conn |-> None] /\ held' = None /\ player' = None
        /\ body' = NoBody /\ task' = NoTask /\ UNCHANGED <<disk, ghost>>
    BY <1>3 DEF Crash
  <2>2. odd' \subseteq Rare \cup {"crash", "torn"} /\ ("torn" \in odd' => "crash" \in odd')
    BY <1>1, <2>1 DEF CutShort
  <2>3. task' \in Tasks /\ Planned' /\ ~ task'.refused
    BY <2>1, Ends
  <2>4. body' \in [char : Age, obj : Age]
    BY <2>1, Ages DEF NoBody
  <2> QED
    BY <1>1, <2>1, <2>2, <2>3, <2>4 DEF TypeOK, DataOK, Settled, disk, ghost
<1>4. CASE Boot
  <2>1. /\ ~ up /\ up' = TRUE /\ UNCHANGED <<disk, menu, held, player, body, task, ghost, odd>>
        /\ entry' = IF Indexed = {} THEN "none" ELSE CHOOSE e \in Indexed : TRUE
    BY <1>4 DEF Boot
  <2>2. Idle
    BY <2>1 DEF Planned
  <2>3. task' \in Tasks /\ Planned'
    BY <2>1, <2>2, Waits
  <2>4. entry' \in {"none", "blank", "legacy", "native"}
    <3>1. Indexed \subseteq {"legacy", "native"}
      BY DEF Indexed
    <3>2. Indexed # {} => (CHOOSE e \in Indexed : TRUE) \in Indexed
      OBVIOUS
    <3> QED
      BY <2>1, <3>1, <3>2
  <2> QED
    BY <1>1, <2>1, <2>3, <2>4 DEF TypeOK, DataOK, Settled, disk, ghost
<1>5. CASE UNCHANGED vars
  <2>1. UNCHANGED <<disk, memory, task, ghost, odd>>
    BY <1>5 DEF vars
  <2>2. UNCHANGED <<listed, native, legacy, pending, runtime, entry, menu, held, player, body, up, task, made, saved, buried, odd>>
    BY <2>1 DEF disk, memory, ghost
  <2>3. TypeOK'
    BY <2>2 DEF TypeOK
  <2>4. Settled'
    BY <2>2 DEF Settled
  <2>5. Planned'
    BY <2>2 DEF Planned, Idle, Deleting, Migrating, Undoing, Listing, Opening, Creating, Saving, Amid, ToSnapshot, Afterwards
  <2> QED
    BY <2>3, <2>4, <2>5
<1>6. ASSUME NEW c \in Conn, LeaveMenu(c)
      PROVE  Typed'
  <2>1. up /\ Idle /\ menu' = [menu EXCEPT ![c] = None] /\ held' = None /\ UNCHANGED <<disk, entry, player, body, up, task, ghost, odd>>
    BY <1>6 DEF LeaveMenu, Free
  <2>2. task' \in Tasks /\ Planned'
    BY <2>1, Waits
  <2> QED
    BY <1>1, <2>1, <2>2 DEF TypeOK, DataOK, Settled, disk, ghost
<1>7. ASSUME NEW c \in Conn, Enter(c)
      PROVE  Typed'
  <2>1. /\ up /\ Idle /\ menu[c] # None /\ player' = c /\ menu' = [menu EXCEPT ![c] = None] /\ UNCHANGED <<disk, entry, up, ghost, odd>>
    BY <1>7 DEF Enter, Free
  <2>2. up' /\ player' # None
    BY <2>1, NoneAssumption
  <2>3. CASE /\ player = None /\ body' = [char |-> menu[c], obj |-> Belongings]
             /\ held' = IF runtime = None /\ legacy["obj"] = None THEN None ELSE held
             /\ Start("save", None, <<<<"save", "char">>>>)
    <3>1. <<>> \in ToLeave
      BY DEF ToLeave
    <3>2. Begun("save", None, Now')
      BY <2>2, <2>3, <3>1, SavingBegins
    <3>3. legacy["obj"] \in Age \cup {None}
      BY <1>1, Files DEF DataOK, Part
    <3>4. Belongings \in Age
      BY <1>1, <3>3, Ages DEF Belongings, DataOK
    <3>5. menu[c] \in Age
      BY <1>1, <2>1 DEF DataOK
    <3>6. held' \in Age \cup {None}
      BY <1>1, <2>3 DEF DataOK
    <3> QED
      BY <1>1, <2>1, <2>2, <2>3, <3>2, <3>4, <3>5, <3>6 DEF TypeOK, DataOK, Settled, disk, ghost, Begun
  <2>4. CASE held' = None /\ UNCHANGED <<body, task>>
    <3>1. task' \in Tasks /\ Planned'
      BY <2>1, <2>4, Waits
    <3> QED
      BY <1>1, <2>1, <2>4, <3>1 DEF TypeOK, DataOK, Settled, disk, ghost
  <2> QED
    BY <1>7, <2>3, <2>4 DEF Enter
<1> QED
  BY <1>2, <1>3, <1>4, <1>5, <1>6, <1>7

LEMMA TypedInit == Init => Typed
<1> SUFFICES ASSUME Init PROVE Typed
  OBVIOUS
<1>1. NoFile \in File /\ [p \in Part |-> 1] \in File /\ [p \in Part |-> Nothing] \in [Part -> Age] /\ [p \in Part |-> 1] \in [Part -> Age]
  BY Ages DEF NoFile, File
<1>2. NoTask \in Tasks /\ NoTask.steps = <<>> /\ ~ NoTask.refused
  BY DEF NoTask, Tasks, Kinds
<1>3. TypeOK
  BY <1>1, <1>2, Ages DEF Init, TypeOK, NoBody
<1>4. Planned
  BY <1>2 DEF Init, Planned, Idle
<1>5. Settled
  BY Ages DEF Init, Settled, Nothing
<1> QED
  BY <1>3, <1>4, <1>5 DEF Typed

LEMMA TypedStep ==
    ASSUME Typed, [Next]_vars
    PROVE  Typed'
BY DeletionTyped, MigrationTyped, OpeningTyped, SavingTyped, BeginTyped, OtherTyped DEF Next, TaskStep

\* Whatever connections, crashes and failures do, every variable stays in its type
\* and every procedure in the plan it began.
THEOREM TypedAlways == Spec => []Typed
<1>1. Typed /\ [Next]_vars => Typed'
  BY TypedStep
<1> QED
  BY <1>1, TypedInit, PTL DEF Spec

-----------------------------------------------------------------------------
\* The ordered layer: while nothing is astray, every file is where the step
\* that comes next expects it.
Sure == Without(Ownerless \cup {"undo", "orphan"})

LEMMA OddGrows ==
    ASSUME Next
    PROVE  odd \subseteq odd'
<1>1. /\ \A xs : MarkAll(xs) => odd \subseteq odd'
      /\ \A x : Mark(x) => odd \subseteq odd'
      /\ \A c, x : MarkIf(c, x) => odd \subseteq odd'
  BY DEF MarkAll, Mark, MarkIf
<1>2. ASSUME TaskStep PROVE odd \subseteq odd'
  BY <1>1, <1>2 DEF TaskStep, Stage, PutBack, Unlist, Drop, Hydrate, Retire, RetireSnapshot, Unretire, Clean, CreateFile, List, RollBack,
     Open, Clear, Login, SaveChar, SaveRuntime, SaveMirror, Left
<1>3. ASSUME NEW c \in Conn, Create(c) \/ Select(c) \/ LeaveMenu(c) \/ Enter(c) \/ SelfDelete(c) PROVE odd \subseteq odd'
  BY <1>1, <1>3 DEF Create, Select, LeaveMenu, Enter, SelfDelete
<1>4. ASSUME AddChar \/ Link \/ Play \/ Save \/ Quit \/ Rent \/ Erase \/ EraseLegacy \/ Crash \/ Boot PROVE odd \subseteq odd'
  BY <1>1, <1>4 DEF AddChar, Link, Play, Save, Quit, Rent, Erase, EraseLegacy, Crash, Boot
<1> QED
  BY <1>2, <1>3, <1>4 DEF Next

LEMMA Befores == Before("char") = {} /\ Before("obj") = {"char"} /\ Before("exp") = {"char", "obj"} /\ Part = {"char", "obj", "exp"}
BY DEF Before, Part

LEMMA Put ==
    ASSUME NEW f \in File, NEW p \in Part, NEW x
    PROVE  [f EXCEPT ![p] = x][p] = x /\ \A q \in Part : q # p => [f EXCEPT ![p] = x][q] = f[q]
BY DEF File

LEMMA StageOrdered ==
    ASSUME Typed, InOrder, Stage
    PROVE  InOrder'
<1>1. Doing("stage") /\ UNCHANGED <<memory, ghost, odd>> /\ up /\ up'
  BY DEF Stage, Doing, memory
<1>2. TypeOK /\ Planned /\ Accounts /\ DeletingSound
  BY DEF Typed, InOrder
<1>3. /\ Now[1] = "stage" /\ Subject = Now[2] /\ Now[2] \in Part
      /\ Advance \/ AdvanceMoving(Subject) => SameProcedure /\ Onward("stage", <<"unlist", "all">>)
      /\ Advance => task'.moved = task.moved
      /\ AdvanceMoving(Subject) => task'.moved = task.moved \cup {Now[2]}
      /\ Unstage => Refused /\ Now' = <<"restore", "exp">>
  BY <1>1, <1>2, StageFlow
<1>4. Now'[1] \in {"stage", "unlist", "restore"} /\ task'.from = task.from
  BY <1>3 DEF Stage, Onward, SameProcedure, Refused
<1>5. UNCHANGED <<listed, legacy, runtime, entry, menu, player, body, buried>>
  BY <1>1 DEF Stage, memory, ghost, disk
<1>6. /\ native \in File /\ pending \in File /\ task.moved \subseteq Part
      /\ listed /\ legacy["char"] = None
      /\ task.from.legacy = legacy /\ task.from.runtime = runtime
      /\ task.from \in Contents /\ task.from.native["char"] # None /\ task.from.native["char"] > buried
      /\ \A p \in Part : task.from.native[p] = IF p \in task.moved THEN pending[p] ELSE native[p]
      /\ \A p \in task.moved : native[p] = None
      /\ task.moved \subseteq Before(Now[2]) /\ \A p \in Before(Now[2]) : native[p] = None
  BY <1>2, <1>3 DEF DeletingSound, AtAny, At, Aside, TypeOK, Tasks
<1>7. native'["char"] \in {None, native["char"]}
  <2>1. UNCHANGED native \/ native' = [native EXCEPT ![Now[2]] = None]
    BY <1>3 DEF Stage, disk
  <2> QED
    BY <1>3, <1>6, <2>1, Put, Befores
<1>8. DeletingSound'
  <2>1. CASE native[Now[2]] = None /\ Advance /\ UNCHANGED <<native, pending>>
    <3>1. Onward("stage", <<"unlist", "all">>) /\ task'.moved = task.moved
      BY <1>3, <2>1
    <3>2. CASE Now[2] = "char"
      <4>1. Now' = <<"stage", "obj">>
        BY <3>1, <3>2 DEF Onward
      <4> QED
        BY <1>4, <1>5, <1>6, <2>1, <3>1, <3>2, <4>1, Befores DEF DeletingSound, AtAny, At, Aside
    <3>3. CASE Now[2] = "obj"
      <4>1. Now' = <<"stage", "exp">>
        BY <3>1, <3>3 DEF Onward
      <4> QED
        BY <1>4, <1>5, <1>6, <2>1, <3>1, <3>3, <4>1, Befores DEF DeletingSound, AtAny, At, Aside
    <3>4. CASE Now[2] = "exp"
      <4>1. Now' = <<"unlist", "all">>
        BY <3>1, <3>4 DEF Onward
      <4>2. native = NoFile
        BY <1>6, <2>1, <3>4, Befores DEF File, NoFile
      <4> QED
        BY <1>4, <1>5, <1>6, <2>1, <3>1, <3>4, <4>1, <4>2, Befores DEF DeletingSound, AtAny, At, Aside
    <3> QED
      BY <1>3, <3>2, <3>3, <3>4, Befores
  <2>2. CASE native' = [native EXCEPT ![Now[2]] = None] /\ pending' = [pending EXCEPT ![Now[2]] = native[Now[2]]] /\ AdvanceMoving(Subject)
    <3>1. Onward("stage", <<"unlist", "all">>) /\ task'.moved = task.moved \cup {Now[2]}
      BY <1>3, <2>2
    <3>2. native'[Now[2]] = None /\ pending'[Now[2]] = native[Now[2]] /\ \A q \in Part : q # Now[2] => native'[q] = native[q] /\ pending'[q] = pending[q]
      <4>1. native \in File /\ pending \in File /\ Now[2] \in Part
        BY <1>3, <1>6
      <4> QED
        BY <2>2, <4>1, Put
    <3>3. /\ \A p \in Part : task.from.native[p] = IF p \in task'.moved THEN pending'[p] ELSE native'[p]
          /\ \A p \in task'.moved : native'[p] = None
      <4>1. Now[2] \notin task.moved
        BY <1>3, <1>6, Befores
      <4> QED
        BY <1>3, <1>6, <3>1, <3>2, <4>1
    <3>4. CASE Now[2] = "char"
      <4>1. Now' = <<"stage", "obj">>
        BY <3>1, <3>4 DEF Onward
      <4> QED
        BY <1>4, <1>5, <1>6, <3>1, <3>2, <3>3, <3>4, <4>1, Befores DEF DeletingSound, AtAny, At, Aside
    <3>5. CASE Now[2] = "obj"
      <4>1. Now' = <<"stage", "exp">>
        BY <3>1, <3>5 DEF Onward
      <4> QED
        BY <1>4, <1>5, <1>6, <3>1, <3>2, <3>3, <3>5, <4>1, Befores DEF DeletingSound, AtAny, At, Aside
    <3>6. CASE Now[2] = "exp"
      <4>1. Now' = <<"unlist", "all">>
        BY <3>1, <3>6 DEF Onward
      <4>2. native' \in File
        BY <1>3, <1>6, <2>2, Files DEF File
      <4>3. native'["char"] = None /\ native'["obj"] = None /\ native'["exp"] = None
        BY <1>6, <3>2, <3>6, Befores
      <4>4. native' = NoFile
        BY <4>2, <4>3, Befores DEF File, NoFile
      <4> QED
        BY <1>4, <1>5, <1>6, <3>1, <3>3, <3>6, <4>1, <4>4, Befores DEF DeletingSound, AtAny, At, Aside
    <3> QED
      BY <1>3, <3>4, <3>5, <3>6, Befores
  <2>3. CASE Unstage /\ UNCHANGED native /\ (UNCHANGED pending \/ (native[Now[2]] # None /\ pending' = [pending EXCEPT ![Now[2]] = None]))
    <3>1. Now' = <<"restore", "exp">> /\ task'.moved = task.moved
      BY <1>3, <2>3 DEF Refused
    <3>2. \A q \in task.moved : pending'[q] = pending[q]
      BY <1>3, <1>6, <2>3, Put
    <3> QED
      BY <1>4, <1>5, <1>6, <2>3, <3>1, <3>2, Befores DEF DeletingSound, AtAny, At, Aside
  <2> QED
    BY <1>3, <2>1, <2>2, <2>3 DEF Stage, disk
<1>9. Accounts'
  BY <1>2, <1>4, <1>5, <1>6, <1>7 DEF Accounts, AtAny, Unused
<1> QED
  BY <1>4, <1>8, <1>9 DEF InOrder, MigratingSound, Migrates, CleaningSound, CreatingSound, Creates, OpeningSound, RefusedSound, AtAny, At

\* Two copies of the files are the same if their parts are.
LEMMA SameFile ==
    ASSUME NEW f \in File, NEW g \in File, \A p \in Part : f[p] = g[p]
    PROVE  f = g
BY DEF File

LEMMA FoundIs ==
    ASSUME NEW from \in Contents, from.legacy = legacy', from.runtime = runtime',
           from.native = IF listed' /\ native'["char"] # None THEN native' ELSE NoFile
    PROVE  Found' = from
BY DEF Found, Contents

LEMMA PutBackOrdered ==
    ASSUME Typed, InOrder, PutBack, Sure'
    PROVE  InOrder'
<1>1. Doing("restore") /\ Advance /\ UNCHANGED <<listed, legacy, runtime, memory, ghost>> /\ up /\ up'
  BY DEF PutBack, Doing, memory
<1>2. TypeOK /\ Planned /\ Accounts /\ DeletingSound
  BY DEF Typed, InOrder
<1>3. /\ Now[1] = "restore" /\ Subject = Now[2] /\ Now[2] \in Part /\ task.kind \in {"delete", "erase"}
      /\ task'.refused /\ task'.moved = task.moved /\ task'.from = task.from
      /\ Now' = IF Now[2] = "exp" THEN <<"restore", "obj">> ELSE IF Now[2] = "obj" THEN <<"restore", "char">> ELSE <<"idle", "all">>
  BY <1>1, <1>2, RestoreFlow DEF Refused, SameProcedure
<1>4. UNCHANGED <<listed, legacy, runtime, entry, menu, player, body, buried>>
  BY <1>1 DEF memory, ghost
<1>5. /\ native \in File /\ pending \in File /\ task.moved \subseteq Part
      /\ listed /\ legacy["char"] = None
      /\ task.from.legacy = legacy /\ task.from.runtime = runtime
      /\ task.from \in Contents /\ task.from.native["char"] # None /\ task.from.native["char"] > buried
      /\ \A p \in Part : task.from.native[p] = IF p \in Aside THEN pending[p] ELSE native[p]
      /\ \A p \in Aside : native[p] = None
      /\ Aside = task.moved \cap (Before(Now[2]) \cup {Now[2]})
  BY <1>2, <1>3 DEF DeletingSound, AtAny, At, Aside, TypeOK, Tasks
<1>6. \/ Now[2] \in task.moved /\ native' = [native EXCEPT ![Now[2]] = pending[Now[2]]] /\ pending' = [pending EXCEPT ![Now[2]] = None]
      \/ Now[2] \notin task.moved /\ UNCHANGED <<native, pending>>
  BY <1>3 DEF PutBack, Mark, MarkAll, Sure, Without
<1>7. /\ \A p \in Part : task.from.native[p] = IF p \in Aside \ {Now[2]} THEN pending'[p] ELSE native'[p]
      /\ \A p \in Aside \ {Now[2]} : native'[p] = None
      /\ native' \in File
  <2>1. CASE Now[2] \in task.moved /\ native' = [native EXCEPT ![Now[2]] = pending[Now[2]]] /\ pending' = [pending EXCEPT ![Now[2]] = None]
    <3>1. native'[Now[2]] = pending[Now[2]] /\ \A q \in Part : q # Now[2] => native'[q] = native[q] /\ pending'[q] = pending[q]
      BY <1>3, <1>5, <2>1, Put
    <3>2. Now[2] \in Aside
      BY <1>3, <1>5, <2>1
    <3>3. native' \in File
      BY <1>3, <1>5, <2>1, Files
    <3> QED
      BY <1>3, <1>5, <3>1, <3>2, <3>3
  <2>2. CASE Now[2] \notin task.moved /\ UNCHANGED <<native, pending>>
    BY <1>5, <2>2
  <2> QED
    BY <1>6, <2>1, <2>2
<1>8. Now[2] # "char" => Now'[1] = "restore" /\ Aside' = Aside \ {Now[2]}
  BY <1>3, <1>5, Befores DEF Aside, At
<1>9. Now[2] = "char" => Now' = <<"idle", "all">> /\ native' = task.from.native
  <2>1. task.from.native \in File
    BY <1>5 DEF Contents
  <2>2. SUFFICES ASSUME Now[2] = "char" PROVE native' = task.from.native
    BY <1>3
  <2>3. Aside \ {Now[2]} = {}
    BY <1>5, <2>2, Befores
  <2> QED
    BY <1>7, <2>1, <2>3, SameFile
<1>10. DeletingSound'
  <2>1. CASE Now[2] # "char"
    BY <1>3, <1>4, <1>5, <1>7, <1>8, <2>1 DEF DeletingSound, AtAny, At
  <2>2. CASE Now[2] = "char"
    BY <1>9, <2>2 DEF DeletingSound, AtAny
  <2> QED
    BY <2>1, <2>2
<1>11. RefusedSound'
  <2>1. CASE Now[2] # "char"
    BY <1>8, <2>1 DEF RefusedSound, At
  <2>2. CASE Now[2] = "char"
    BY <1>3, <1>4, <1>5, <1>9, <2>2, FoundIs DEF RefusedSound
  <2> QED
    BY <2>1, <2>2
<1>12. Accounts'
  <2>1. Now'[1] \notin {"stage", "unlist", "restore"} => native'["char"] # None
    BY <1>5, <1>8, <1>9
  <2>2. native'["char"] \in {None, task.from.native["char"]}
    BY <1>7, Befores
  <2> QED
    BY <1>2, <1>3, <1>4, <1>5, <2>1, <2>2 DEF Accounts, AtAny, Unused
<1> QED
  BY <1>3, <1>10, <1>11, <1>12 DEF InOrder, MigratingSound, Migrates, CleaningSound, CreatingSound, Creates, OpeningSound, AtAny, At

LEMMA UnlistOrdered ==
    ASSUME Typed, InOrder, Unlist, Sure'
    PROVE  InOrder'
<1>1. Doing("unlist") /\ UNCHANGED <<native, legacy, pending, runtime, player, body, up>> /\ up /\ up'
  BY DEF Unlist, Doing, memory, disk, Forget
<1>2. TypeOK /\ Planned /\ Accounts /\ DeletingSound
  BY DEF Typed, InOrder
<1>3. /\ Now[1] = "unlist"
      /\ Advance => Now' = <<"drop", "char">>
      /\ Unstage => Refused /\ Now' = <<"restore", "exp">>
  BY <1>1, <1>2, UnlistFlow
<1>4. /\ listed /\ legacy["char"] = None /\ task.moved \subseteq Part
      /\ task.from.legacy = legacy /\ task.from.runtime = runtime
      /\ task.from \in Contents /\ task.from.native["char"] # None /\ task.from.native["char"] > buried
      /\ \A p \in Part : task.from.native[p] = IF p \in task.moved THEN pending[p] ELSE native[p]
      /\ \A p \in task.moved : native[p] = None
  BY <1>2, <1>3 DEF DeletingSound, AtAny, At, Aside, TypeOK, Tasks
<1>5. CASE listed' = FALSE /\ Forget /\ MarkIf(Outlives, "outlived") /\ Advance
  <2>1. ~ Outlives
    BY <1>5 DEF MarkIf, Mark, MarkAll, Sure, Without, Ownerless
  <2>2. Unused' /\ entry' \in {"none", "blank"} /\ ~ listed'
    BY <1>1, <1>5, <2>1 DEF Unused, Forget, Outlives
  <2>3. Now' = <<"drop", "char">>
    BY <1>3, <1>5
  <2>4. Accounts'
    BY <1>1, <1>4, <2>2 DEF Accounts, Unused
  <2> QED
    BY <2>3, <2>4 DEF InOrder, DeletingSound, MigratingSound, Migrates, CleaningSound, CreatingSound, Creates, OpeningSound, RefusedSound, AtAny, At
<1>6. CASE Unstage /\ UNCHANGED <<disk, memory, ghost, odd>>
  <2>1. /\ Now' = <<"restore", "exp">> /\ task'.moved = task.moved /\ task'.from = task.from
        /\ UNCHANGED <<listed, native, legacy, pending, runtime, entry, menu, player, body, buried>>
    BY <1>3, <1>6 DEF Refused, SameProcedure, disk, memory, ghost
  <2>2. Aside' = task.moved
    BY <1>4, <2>1, Befores DEF Aside, At
  <2>3. DeletingSound'
    BY <1>4, <2>1, <2>2 DEF DeletingSound, AtAny, At
  <2>4. Accounts'
    BY <1>2, <1>3, <1>4, <2>1 DEF Accounts, AtAny, Unused
  <2> QED
    BY <2>1, <2>3, <2>4 DEF InOrder, MigratingSound, Migrates, CleaningSound, CreatingSound, Creates, OpeningSound, RefusedSound, AtAny, At
<1> QED
  BY <1>5, <1>6 DEF Unlist

LEMMA DropOrdered ==
    ASSUME Typed, InOrder, Drop
    PROVE  InOrder'
<1>1. Doing("drop") /\ Advance /\ UNCHANGED <<listed, native, legacy, runtime, memory, ghost, odd>> /\ up /\ up'
  BY DEF Drop, Doing, memory
<1>2. TypeOK /\ Planned /\ Accounts
  BY DEF Typed, InOrder
<1>3. Now[1] = "drop" /\ Now'[1] \in {"drop", "idle"} /\ ~ task'.refused
  BY <1>1, <1>2, DropFlow DEF Onward
<1>4. Accounts'
  BY <1>1, <1>2, <1>3 DEF Accounts, AtAny, Unused, memory, ghost
<1> QED
  BY <1>3, <1>4 DEF InOrder, DeletingSound, MigratingSound, Migrates, CleaningSound, CreatingSound, Creates, OpeningSound, RefusedSound, AtAny, At

LEMMA HydrateOrdered ==
    ASSUME Typed, InOrder, Hydrate
    PROVE  InOrder'
<1>1. Doing("hydrate") /\ UNCHANGED <<listed, legacy, pending, runtime, memory, ghost, odd>> /\ up /\ up'
  BY DEF Hydrate, Doing, memory
<1>2. TypeOK /\ Planned /\ Accounts /\ MigratingSound
  BY DEF Typed, InOrder
<1>3. /\ Now[1] = "hydrate" /\ Subject = Now[2] /\ Now[2] \in Part /\ task.kind \in {"link", "select"}
      /\ Advance => SameProcedure /\ ~ task'.refused /\ task'.moved = task.moved /\ Onward("hydrate", <<"retire", "char">>)
      /\ FailWith(<<>>) => Refused /\ Now' = <<"idle", "all">>
      /\ CleanUp => Refused /\ Now' = <<"unretire", "char">>
  BY <1>1, <1>2, HydrateFlow
<1>4. UNCHANGED <<listed, legacy, runtime, entry, menu, player, body, buried>> /\ Unused' = Unused
  BY <1>1 DEF memory, ghost, Unused
<1>5. /\ native \in File /\ legacy \in File /\ Unused /\ entry = "legacy" /\ (task.kind = "select" => listed)
      /\ task.from.native = NoFile /\ task.from.runtime = runtime
      /\ task.from \in Contents /\ task.from.legacy["char"] # None /\ task.from.legacy["char"] > buried
      /\ legacy = task.from.legacy /\ task.moved = {}
      /\ \A p \in Before(Now[2]) : native[p] = Hydrated(legacy[p])
      /\ listed /\ Now[2] = "char" => native["char"] = None
  BY <1>2, <1>3 DEF MigratingSound, Migrates, AtAny, At, TypeOK
<1>6. SameProcedure /\ task'.moved = {}
  BY <1>3, <1>5 DEF Hydrate, Refused
<1>7. CASE native' = [native EXCEPT ![Now[2]] = Hydrated(legacy[Now[2]])] /\ Advance
  <2>1. native'[Now[2]] = Hydrated(legacy[Now[2]]) /\ \A q \in Part : q # Now[2] => native'[q] = native[q]
    BY SMTT(20), <1>3, <1>5, <1>7, Put
  <2>2. native'["char"] = legacy["char"]
    BY <1>3, <1>5, <2>1, Befores DEF Hydrated
  <2>3. Accounts'
    BY <1>2, <1>3, <1>4, <1>5, <1>7, <2>2 DEF Accounts, AtAny, Unused, Onward
  <2>4. Onward("hydrate", <<"retire", "char">>) /\ ~ task'.refused
    BY <1>3, <1>7
  <2>5. CASE Now[2] = "char"
    <3>1. Now' = <<"hydrate", "obj">>
      BY <2>4, <2>5 DEF Onward
    <3>2. MigratingSound'
      BY <1>4, <1>5, <1>6, <2>1, <2>5, <3>1, Befores DEF MigratingSound, Migrates, AtAny, At, SameProcedure
    <3> QED
      BY <2>3, <2>4, <3>1, <3>2 DEF InOrder, DeletingSound, CleaningSound, CreatingSound, Creates, OpeningSound, RefusedSound, AtAny, At
  <2>6. CASE Now[2] = "obj"
    <3>1. Now' = <<"hydrate", "exp">>
      BY <2>4, <2>6 DEF Onward
    <3>2. MigratingSound'
      BY <1>4, <1>5, <1>6, <2>1, <2>6, <3>1, Befores DEF MigratingSound, Migrates, AtAny, At, SameProcedure
    <3> QED
      BY <2>3, <2>4, <3>1, <3>2 DEF InOrder, DeletingSound, CleaningSound, CreatingSound, Creates, OpeningSound, RefusedSound, AtAny, At
  <2>7. CASE Now[2] = "exp"
    <3>1. Now' = <<"retire", "char">>
      BY <2>4, <2>7 DEF Onward
    <3>2. \A p \in Part : native'[p] = Hydrated(legacy[p])
      BY <1>5, <2>1, <2>7, Befores
    <3>3. Retired' = {}
      BY <3>1, Befores DEF Retired, At
    <3>4. MigratingSound'
      BY <1>4, <1>5, <1>6, <3>1, <3>2, <3>3 DEF MigratingSound, Migrates, AtAny, At, SameProcedure
    <3> QED
      BY <2>3, <2>4, <3>1, <3>4 DEF InOrder, DeletingSound, CleaningSound, CreatingSound, Creates, OpeningSound, RefusedSound, AtAny, At
  <2> QED
    BY <1>3, <2>5, <2>6, <2>7, Befores
<1>8. CASE Now[2] = "char" /\ FailWith(<<>>) /\ UNCHANGED native
  <2>1. Now' = <<"idle", "all">>
    BY <1>3, <1>8
  <2>2. RefusedSound'
    BY <1>4, <1>5, <1>6, <1>8, FoundIs DEF RefusedSound, SameProcedure
  <2>3. Accounts'
    BY <1>2, <1>4, <1>5, <1>8 DEF Accounts, AtAny, Unused
  <2> QED
    BY <2>1, <2>2, <2>3 DEF InOrder, DeletingSound, MigratingSound, Migrates, CleaningSound, CreatingSound, Creates, OpeningSound, AtAny, At
<1>9. CASE Now[2] # "char" /\ CleanUp /\ UNCHANGED native
  <2>1. Now' = <<"unretire", "char">>
    BY <1>3, <1>9
  <2>2. MigratingSound'
    BY <1>4, <1>5, <1>6, <1>9, <2>1 DEF MigratingSound, Migrates, AtAny, At, SameProcedure
  <2>0. Now[1] = "hydrate" /\ UNCHANGED native
    BY <1>3, <1>9
  <2>3. Accounts'
    BY <1>2, <1>4, <1>5, <2>0, <2>1 DEF Accounts, AtAny, Unused
  <2> QED
    BY <2>1, <2>2, <2>3 DEF InOrder, DeletingSound, CleaningSound, CreatingSound, Creates, OpeningSound, RefusedSound, AtAny, At
<1> QED
  BY <1>3, <1>7, <1>8, <1>9 DEF Hydrate, Hydrated

\* Where a migration stands that has begun to remove the legacy files.
HalfMigrated ==
    /\ native \in File /\ legacy \in File /\ Unused /\ entry = "legacy" /\ (task.kind = "select" => listed)
    /\ task.from.native = NoFile /\ task.from.runtime = runtime
    /\ task.from \in Contents /\ task.from.legacy["char"] # None /\ task.from.legacy["char"] > buried
    /\ \A p \in Part : /\ native[p] = Hydrated(task.from.legacy[p])
                       /\ legacy[p] = IF p \in Retired THEN None ELSE task.from.legacy[p]
                       /\ p \in task.moved <=> p \in Retired /\ task.from.legacy[p] # None

LEMMA Halfway ==
    ASSUME Typed, InOrder, AtAny({"retire", "snapshot"}) \/ (At("list") /\ task.kind = "link")
    PROVE  HalfMigrated /\ native["char"] # None /\ native["char"] > buried
<1>1. TypeOK /\ MigratingSound
  BY DEF Typed, InOrder
<1>2. HalfMigrated
  BY <1>1 DEF MigratingSound, Migrates, AtAny, At, TypeOK, HalfMigrated
<1>3. "char" \in Part
  BY Befores
<1> QED
  BY <1>2, <1>3 DEF HalfMigrated, Hydrated

LEMMA RetireOrdered ==
    ASSUME Typed, InOrder, Retire
    PROVE  InOrder'
<1>1. Doing("retire") /\ UNCHANGED <<listed, native, pending, runtime, memory, ghost, odd>> /\ up /\ up'
  BY DEF Retire, Doing, memory
<1>2. TypeOK /\ Planned /\ Accounts /\ MigratingSound
  BY DEF Typed, InOrder
<1>3. /\ Now[1] = "retire" /\ Subject = Now[2] /\ Now[2] \in Part
      /\ Advance \/ AdvanceMoving(Subject) => SameProcedure /\ ~ task'.refused /\ Onward("retire", <<"snapshot", "all">>)
      /\ Advance => task'.moved = task.moved
      /\ AdvanceMoving(Subject) => task'.moved = task.moved \cup {Now[2]}
      /\ CleanUp => Refused /\ Now' = <<"unretire", "char">>
  BY <1>1, <1>2, RetireFlow
<1>4. UNCHANGED <<listed, native, runtime, entry, menu, player, body, buried>> /\ Unused' = Unused
  BY <1>1 DEF memory, ghost, Unused
<1>5. HalfMigrated /\ native["char"] # None /\ native["char"] > buried /\ Retired = Before(Now[2])
  BY <1>3, Halfway DEF AtAny, At, Retired
<1>6. task'.from = task.from /\ task'.kind = task.kind
  BY <1>3 DEF Retire, Refused, SameProcedure
<1>7. CASE legacy' = [legacy EXCEPT ![Now[2]] = None] /\ (IF legacy[Now[2]] # None THEN AdvanceMoving(Subject) ELSE Advance)
  <2>1. legacy'[Now[2]] = None /\ \A q \in Part : q # Now[2] => legacy'[q] = legacy[q]
    BY <1>3, <1>5, <1>7, Put DEF HalfMigrated
  <2>2. Onward("retire", <<"snapshot", "all">>) /\ ~ task'.refused
    BY <1>3, <1>7
  <2>3. Retired' = Before(Now[2]) \cup {Now[2]} /\ Now'[1] \in {"retire", "snapshot"}
    BY <1>3, <2>2, Befores DEF Onward, Retired, At
  <2>4. legacy'["char"] = None
    BY <1>3, <1>5, <2>1, Befores DEF HalfMigrated
  <2>5. task'.moved = IF legacy[Now[2]] # None THEN task.moved \cup {Now[2]} ELSE task.moved
    BY <1>3, <1>7
  <2>6. Now[2] \notin Before(Now[2])
    BY <1>3, Befores
  <2>7. ASSUME NEW p \in Part
        PROVE  /\ native[p] = Hydrated(task.from.legacy[p])
               /\ legacy'[p] = IF p \in Retired' THEN None ELSE task.from.legacy[p]
               /\ p \in task'.moved <=> p \in Retired' /\ task.from.legacy[p] # None
    BY <1>5, <2>1, <2>3, <2>5, <2>6, <2>7 DEF HalfMigrated
  <2>8. MigratingSound'
    BY <1>4, <1>5, <1>6, <2>3, <2>7 DEF HalfMigrated, MigratingSound, Migrates, AtAny, At
  <2>9. Accounts'
    BY <1>2, <1>4, <1>5, <2>4 DEF Accounts, AtAny, Unused, HalfMigrated
  <2> QED
    BY <2>2, <2>3, <2>8, <2>9 DEF InOrder, DeletingSound, CleaningSound, CreatingSound, Creates, OpeningSound, RefusedSound, AtAny, At
<1>8. CASE CleanUp /\ UNCHANGED legacy
  <2>1. Now' = <<"unretire", "char">> /\ task'.moved = task.moved
    BY <1>3, <1>8 DEF Refused
  <2>2. \A p \in Part : task.from.legacy[p] = IF p \in task.moved THEN native[p] ELSE legacy[p]
    BY <1>5 DEF HalfMigrated, Hydrated
  <2>3. MigratingSound'
    BY <1>4, <1>5, <1>6, <1>8, <2>1, <2>2, Befores DEF HalfMigrated, MigratingSound, Migrates, AtAny, At
  <2>0. Now[1] = "retire" /\ UNCHANGED legacy
    BY <1>3, <1>8
  <2>4. Accounts'
    BY <1>2, <1>4, <1>5, <2>0, <2>1 DEF Accounts, AtAny, Unused, HalfMigrated
  <2> QED
    BY <2>1, <2>3, <2>4 DEF InOrder, DeletingSound, CleaningSound, CreatingSound, Creates, OpeningSound, RefusedSound, AtAny, At
<1> QED
  BY <1>3, <1>7, <1>8 DEF Retire

LEMMA RetireSnapshotOrdered ==
    ASSUME Typed, InOrder, RetireSnapshot
    PROVE  InOrder'
<1>1. Doing("snapshot") /\ UNCHANGED <<disk, memory, ghost>> /\ up /\ up'
  BY DEF RetireSnapshot, Doing, memory
<1>2. TypeOK /\ Planned /\ Accounts
  BY DEF Typed, InOrder
<1>3. UNCHANGED <<listed, native, legacy, runtime, entry, menu, player, body, buried>> /\ Unused' = Unused
  BY <1>1 DEF disk, memory, ghost, Unused
<1>4. /\ Now[1] = "snapshot" /\ task.kind \in {"link", "select"}
      /\ Advance => /\ ~ task'.refused
                    /\ Now' = IF task.kind = "select" THEN <<"open", "all">> ELSE IF listed THEN <<"idle", "all">> ELSE <<"list", "all">>
                    /\ Now'[1] # "idle" => SameProcedure /\ task'.moved = task.moved
      /\ FailWith(Each("clean", <<>>)) => Refused /\ Now' = <<"clean", "char">>
  BY <1>1, <1>2, <1>3, SnapshotFlow
<1>5. HalfMigrated /\ native["char"] # None /\ native["char"] > buried /\ Retired = Part
  BY <1>4, Halfway DEF AtAny, At, Retired
<1>6. legacy["char"] = None /\ legacy' = legacy /\ native' = native
  BY <1>3, <1>5, Befores DEF HalfMigrated
<1>7. CASE Advance
  <2>1. Accounts'
    BY <1>2, <1>3, <1>5, <1>6 DEF Accounts, AtAny, Unused, HalfMigrated
  <2>2. CASE task.kind = "select"
    <3>1. Now' = <<"open", "all">> /\ listed
      BY <1>4, <1>5, <1>7, <2>2 DEF HalfMigrated
    <3>2. OpeningSound'
      BY <1>3, <1>5, <1>6, <3>1 DEF OpeningSound, AtAny, At
    <3> QED
      BY <2>1, <3>1, <3>2 DEF InOrder, DeletingSound, MigratingSound, Migrates, CleaningSound, CreatingSound, Creates, RefusedSound, AtAny, At
  <2>3. CASE task.kind = "link" /\ listed
    <3>1. Now' = <<"idle", "all">> /\ ~ task'.refused
      BY <1>4, <1>7, <2>3
    <3> QED
      BY <2>1, <3>1 DEF InOrder, DeletingSound, MigratingSound, Migrates, CleaningSound, CreatingSound, Creates, OpeningSound, RefusedSound, AtAny, At
  <2>4. CASE task.kind = "link" /\ ~ listed
    <3>1. Now' = <<"list", "all">> /\ task'.kind = "link" /\ task'.from = task.from /\ task'.moved = task.moved
      BY <1>4, <1>7, <2>4 DEF SameProcedure
    <3>2. Retired' = Part
      BY <3>1 DEF Retired, At
    <3>3. MigratingSound'
      BY <1>3, <1>5, <3>1, <3>2 DEF MigratingSound, Migrates, AtAny, At, HalfMigrated
    <3> QED
      BY <2>1, <3>1, <3>3 DEF InOrder, DeletingSound, CleaningSound, CreatingSound, Creates, OpeningSound, RefusedSound, AtAny, At
  <2> QED
    BY <1>4, <2>2, <2>3, <2>4
<1>8. CASE FailWith(Each("clean", <<>>)) /\ Mark("snapshot")
  <2>1. Now' = <<"clean", "char">> /\ task'.kind # "create" /\ "snapshot" \in odd'
    BY <1>4, <1>8 DEF Refused, SameProcedure, Mark, MarkAll
  <2>2. CleaningSound'
    BY <1>3, <1>5, <2>1 DEF CleaningSound, At, HalfMigrated
  <2>3. Accounts'
    BY <1>2, <1>3, <1>5, <1>6 DEF Accounts, AtAny, Unused, HalfMigrated
  <2> QED
    BY <2>1, <2>2, <2>3 DEF InOrder, DeletingSound, MigratingSound, Migrates, CreatingSound, Creates, OpeningSound, RefusedSound, AtAny, At
<1> QED
  BY <1>7, <1>8 DEF RetireSnapshot

LEMMA UnretireOrdered ==
    ASSUME Typed, InOrder, Unretire, Sure'
    PROVE  InOrder'
<1>1. Doing("unretire") /\ Advance /\ UNCHANGED <<listed, native, pending, runtime, memory, ghost>> /\ up /\ up'
  BY DEF Unretire, Doing, memory
<1>2. TypeOK /\ Planned /\ Accounts /\ MigratingSound
  BY DEF Typed, InOrder
<1>3. /\ Now[1] = "unretire" /\ Subject = Now[2] /\ Now[2] \in Part /\ task.kind \in {"link", "select"}
      /\ task'.refused /\ task'.moved = task.moved /\ task'.from = task.from /\ task'.kind = task.kind
      /\ Onward("unretire", <<"clean", "char">>)
  BY <1>1, <1>2, UnretireFlow DEF Refused, SameProcedure
<1>4. UNCHANGED <<listed, native, runtime, entry, menu, player, body, buried>> /\ Unused' = Unused
  BY <1>1 DEF memory, ghost, Unused
<1>5. /\ legacy \in File /\ Unused /\ entry = "legacy" /\ (task.kind = "select" => listed)
      /\ task.from.native = NoFile /\ task.from.runtime = runtime
      /\ task.from \in Contents /\ task.from.legacy["char"] # None /\ task.from.legacy["char"] > buried
      /\ \A p \in Part : task.from.legacy[p] = IF p \in task.moved \ Before(Now[2]) THEN native[p] ELSE legacy[p]
  BY <1>2, <1>3 DEF MigratingSound, Migrates, AtAny, At, TypeOK
<1>6. \/ Now[2] \in task.moved /\ legacy' = [legacy EXCEPT ![Now[2]] = native[Now[2]]]
      \/ Now[2] \notin task.moved /\ UNCHANGED legacy
  BY <1>3 DEF Unretire, Mark, MarkAll, Sure, Without
<1>7. legacy' \in File
  BY SMTT(20), <1>1, <1>2, <1>3, <1>5, <1>6, Files DEF TypeOK
<1>8. Now[2] \notin Before(Now[2])
  BY <1>3, Befores
<1>9. \A p \in Part : task.from.legacy[p] = IF p \in task.moved \ (Before(Now[2]) \cup {Now[2]}) THEN native[p] ELSE legacy'[p]
  <2>1. CASE Now[2] \in task.moved /\ legacy' = [legacy EXCEPT ![Now[2]] = native[Now[2]]]
    <3>1. legacy'[Now[2]] = native[Now[2]] /\ \A q \in Part : q # Now[2] => legacy'[q] = legacy[q]
      BY <1>3, <1>5, <2>1, Put
    <3> QED
      BY <1>3, <1>5, <1>8, <2>1, <3>1
  <2>2. CASE Now[2] \notin task.moved /\ UNCHANGED legacy
    BY <1>5, <2>2
  <2> QED
    BY <1>6, <2>1, <2>2
<1>10. legacy'["char"] \in {legacy["char"], task.from.legacy["char"]}
  <2>1. Now[2] # "char" => legacy'["char"] = legacy["char"]
    BY <1>3, <1>5, <1>6, Put, Befores
  <2> QED
    BY <1>3, <1>5, <1>9, <2>1, Befores
<1>11. CASE Now[2] # "exp"
  <2>1. Now'[1] = "unretire" /\ Before(Now'[2]) = Before(Now[2]) \cup {Now[2]}
    BY <1>3, <1>11, Befores DEF Onward
  <2>2. MigratingSound'
    BY <1>3, <1>4, <1>5, <1>9, <2>1 DEF MigratingSound, Migrates, AtAny, At
  <2>3. Accounts'
    BY <1>2, <1>4, <1>5, <1>10, <2>1 DEF Accounts, AtAny, Unused
  <2> QED
    BY <2>1, <2>2, <2>3 DEF InOrder, DeletingSound, CleaningSound, CreatingSound, Creates, OpeningSound, RefusedSound, AtAny, At
<1>12. CASE Now[2] = "exp"
  <2>1. Now' = <<"clean", "char">>
    BY <1>3, <1>12 DEF Onward
  <2>2. legacy' = task.from.legacy
    <3>1. \A p \in Part : legacy'[p] = task.from.legacy[p]
      BY <1>9, <1>12, Befores
    <3>2. task.from.legacy \in File
      BY <1>5 DEF Contents
    <3> QED
      BY <1>7, <3>1, <3>2, SameFile
  <2>3. CleaningSound'
    BY <1>3, <1>4, <1>5, <2>1, <2>2 DEF CleaningSound, At
  <2>4. Accounts'
    BY <1>2, <1>4, <1>5, <1>10, <2>1 DEF Accounts, AtAny, Unused
  <2> QED
    BY <2>1, <2>3, <2>4 DEF InOrder, DeletingSound, MigratingSound, Migrates, CreatingSound, Creates, OpeningSound, RefusedSound, AtAny, At
<1> QED
  BY <1>11, <1>12

LEMMA CleanOrdered ==
    ASSUME Typed, InOrder, Clean, Sure'
    PROVE  InOrder'
<1>1. Doing("clean") /\ Advance /\ UNCHANGED <<listed, legacy, pending, runtime, memory, ghost>> /\ up /\ up'
  BY DEF Clean, Doing, memory
<1>2. TypeOK /\ Planned /\ Accounts /\ CleaningSound
  BY DEF Typed, InOrder
<1>3. /\ Now[1] = "clean" /\ Subject = Now[2] /\ Now[2] \in Part
      /\ task'.refused /\ task'.from = task.from /\ task'.kind = task.kind
      /\ Onward("clean", <<"idle", "all">>)
  BY <1>1, <1>2, CleanFlow DEF Refused, SameProcedure
<1>4. UNCHANGED <<listed, legacy, runtime, entry, menu, player, body, buried>> /\ Unused' = Unused
  BY <1>1 DEF memory, ghost, Unused
<1>5. /\ native \in File /\ Unused /\ task.kind # "create" /\ (Now[2] # "char" => native["char"] = None)
      /\ "snapshot" \notin odd => /\ task.from \in Contents /\ task.from.legacy = legacy /\ task.from.native = NoFile
                                  /\ task.from.runtime = runtime /\ legacy["char"] # None
  BY <1>2, <1>3 DEF CleaningSound, At, TypeOK
<1>6. native' = [native EXCEPT ![Now[2]] = None] /\ odd' = odd
  BY <1>3 DEF Clean, Mark, MarkAll, Sure, Without
<1>7. native'["char"] = None
  BY <1>3, <1>5, <1>6, Put, Befores
<1>8. Accounts'
  <2>1. Now[1] = "clean" /\ Accounts /\ Unused
    BY <1>2, <1>3, <1>5
  <2> QED
    BY <1>1, <1>4, <1>7, <2>1 DEF Accounts, AtAny, Unused
<1>9. CASE Now[2] # "exp"
  <2>1. Now'[1] = "clean"
    BY <1>3, <1>9, Befores DEF Onward
  <2>2. CleaningSound'
    BY <1>3, <1>4, <1>5, <1>6, <1>7, <2>1 DEF CleaningSound, At
  <2> QED
    BY <1>8, <2>1, <2>2 DEF InOrder, DeletingSound, MigratingSound, Migrates, CreatingSound, Creates, OpeningSound, RefusedSound, AtAny, At
<1>10. CASE Now[2] = "exp"
  <2>1. Now' = <<"idle", "all">>
    BY <1>3, <1>10 DEF Onward
  <2>2. RefusedSound'
    BY <1>3, <1>4, <1>5, <1>6, <1>7, FoundIs DEF RefusedSound, Without
  <2> QED
    BY <1>8, <2>1, <2>2 DEF InOrder, DeletingSound, MigratingSound, Migrates, CleaningSound, CreatingSound, Creates, OpeningSound, AtAny, At
<1> QED
  BY <1>9, <1>10

\* Where no procedure is that has files half moved, only the accounts are to be looked at.
LEMMA Quiet ==
    ASSUME Accounts', Now'[1] \in {"idle", "drop", "save", "quit", "leave"}, ~ task'.refused
    PROVE  InOrder'
BY DEF InOrder, DeletingSound, MigratingSound, Migrates, CleaningSound, CreatingSound, Creates, OpeningSound, RefusedSound, AtAny, At

LEMMA CreateFileOrdered ==
    ASSUME Typed, InOrder, CreateFile, Sure'
    PROVE  InOrder'
<1>1. Doing("create") /\ UNCHANGED <<listed, legacy, pending, runtime, ghost>> /\ up
  BY DEF CreateFile, Doing
<1>2. TypeOK /\ Planned /\ Accounts /\ CreatingSound
  BY DEF Typed, InOrder
<1>3. /\ native' = [native EXCEPT ![Subject] = IF Subject = "obj" THEN Nothing ELSE made]
      /\ Advance /\ UNCHANGED <<memory, odd>>
  BY DEF CreateFile, RollBack, Mark, MarkAll, Sure, Without, Ownerless
<1>4. up' /\ UNCHANGED <<listed, legacy, runtime, entry, menu, player, body, buried, made>> /\ Unused' = Unused
  BY <1>1, <1>3 DEF memory, ghost, Unused
<1>5. /\ Now[1] = "create" /\ Subject = Now[2] /\ Now[2] \in Part /\ task.kind = "create"
      /\ SameProcedure /\ ~ task'.refused /\ Onward("create", <<"list", "all">>)
  BY <1>1, <1>2, <1>3, <1>4, CreateFlow
<1>6. /\ native \in File /\ Unused /\ ~ listed /\ legacy["char"] = None /\ made > buried /\ entry = "native"
      /\ \A p \in Before(Now[2]) : native[p] = IF p = "obj" THEN Nothing ELSE made
  BY <1>2, <1>5 DEF CreatingSound, Creates, At, TypeOK
<1>7. native'[Now[2]] = (IF Now[2] = "obj" THEN Nothing ELSE made) /\ \A q \in Part : q # Now[2] => native'[q] = native[q]
  <2>1. native' = [native EXCEPT ![Now[2]] = IF Now[2] = "obj" THEN Nothing ELSE made]
    BY <1>3, <1>5
  <2>2. DEFINE x == IF Now[2] = "obj" THEN Nothing ELSE made
  <2>3. native' = [native EXCEPT ![Now[2]] = x]
    BY <2>1
  <2> HIDE DEF x
  <2>4. native'[Now[2]] = x /\ \A q \in Part : q # Now[2] => native'[q] = native[q]
    BY <1>5, <1>6, <2>3, Put
  <2> QED
    BY <2>4 DEF x
<1>8. /\ Now[2] = "char" => Now' = <<"create", "obj">>
      /\ Now[2] = "obj" => Now' = <<"create", "exp">>
      /\ Now[2] = "exp" => Now' = <<"list", "all">>
  BY <1>5 DEF Onward
<1>9. CreatingSound'
  BY <1>4, <1>5, <1>6, <1>7, <1>8, Befores DEF CreatingSound, Creates, At
<1>10. Now'[1] \in {"create", "list"} /\ task'.kind = "create"
  BY <1>5, <1>8, Befores DEF SameProcedure
<1>11. Accounts'
  BY <1>2, <1>4, <1>6, <1>10 DEF Accounts, AtAny, Unused
<1> QED
  BY <1>9, <1>10, <1>11 DEF InOrder, DeletingSound, MigratingSound, Migrates, CleaningSound, OpeningSound, RefusedSound, AtAny, At

LEMMA ListOrdered ==
    ASSUME Typed, InOrder, List, Sure'
    PROVE  InOrder'
<1>1. Doing("list") /\ UNCHANGED <<native, legacy, pending, runtime, entry, player, body, up, buried>> /\ up /\ up'
  BY DEF List, Doing, memory, ghost, RollBack, Mark, MarkAll, Sure, Without, Ownerless
<1>2. TypeOK /\ Planned /\ Accounts /\ CreatingSound
  BY DEF Typed, InOrder
<1>3. /\ Now = <<"list", "all">> /\ ~ task.refused
      /\ (task.kind = "link" /\ ~ listed) \/ (task.kind = "create" /\ task.conn \in Conn)
      /\ Advance => task' = NoTask /\ Now' = <<"idle", "all">>
      /\ FailWith(<<>>) => Refused /\ Now' = <<"idle", "all">>
  BY <1>1, <1>2, ListFlow
<1>4. CASE task.kind = "create"
  <2>1. listed' = TRUE /\ menu' = [menu EXCEPT ![task.conn] = made] /\ Advance
    BY <1>4 DEF List, RollBack, Mark, MarkAll, Sure, Without, Ownerless
  <2>2. Now' = <<"idle", "all">> /\ ~ task'.refused
    BY <1>3, <2>1, Ends
  <2>3. Unused /\ legacy["char"] = None /\ made > buried /\ entry = "native" /\ native["char"] = made /\ made # None
    BY <1>2, <1>3, <1>4, Ages DEF CreatingSound, Creates, At, TypeOK
  <2>4. \A c \in Conn : menu'[c] # None => menu'[c] = made
    BY <1>2, <2>1, <2>3 DEF Unused, TypeOK
  <2>5. Accounts'
    BY <1>1, <2>1, <2>3, <2>4 DEF Accounts, Unused
  <2> QED
    BY <2>2, <2>5, Quiet
<1>5. CASE task.kind = "link"
  <2>1. HalfMigrated /\ native["char"] # None /\ native["char"] > buried
    BY <1>3, <1>5, Halfway DEF At
  <2>2. legacy["char"] = None /\ Unused /\ entry = "legacy"
    BY <1>3, <2>1, Befores DEF HalfMigrated, Retired, At
  <2>3. UNCHANGED menu /\ Unused'
    BY <1>1, <1>5, <2>2 DEF List, memory, Unused
  <2>4. Accounts'
    BY <1>1, <2>1, <2>2, <2>3 DEF Accounts, Unused
  <2>5. CASE Advance
    BY <1>3, <2>4, <2>5, Ends, Quiet
  <2>6. CASE FailWith(<<>>) /\ Mark("unlisted")
    <3>1. Now' = <<"idle", "all">> /\ "unlisted" \in odd'
      BY <1>3, <2>6 DEF Mark, MarkAll
    <3> QED
      BY <2>4, <3>1 DEF InOrder, DeletingSound, MigratingSound, Migrates, CleaningSound, CreatingSound, Creates, OpeningSound, RefusedSound, AtAny, At, Without
  <2> QED
    BY <1>5, <2>5, <2>6 DEF List
<1> QED
  BY <1>3, <1>4, <1>5

LEMMA OpenOrdered ==
    ASSUME Typed, InOrder, Open
    PROVE  InOrder'
<1>1. Doing("open") /\ Advance /\ entry' = "native" /\ UNCHANGED <<listed, native, legacy, runtime, menu, player, body, up, buried>> /\ up /\ up'
  BY DEF Open, Doing, disk, ghost
<1>2. TypeOK /\ Planned /\ Accounts /\ OpeningSound
  BY DEF Typed, InOrder
<1>3. Now[1] = "open" /\ ~ task'.refused /\ Now' = <<"clear", "obj">>
  BY <1>1, <1>2, OpenFlow
<1>4. listed /\ native["char"] # None /\ legacy["char"] = None
  BY <1>2, <1>3 DEF OpeningSound, AtAny
<1>5. Accounts'
  BY <1>1, <1>2, <1>3, <1>4 DEF Accounts, AtAny, Unused
<1>6. OpeningSound'
  BY <1>1, <1>3, <1>4 DEF OpeningSound, AtAny, At
<1> QED
  BY <1>3, <1>5, <1>6 DEF InOrder, DeletingSound, MigratingSound, Migrates, CleaningSound, CreatingSound, Creates, RefusedSound, AtAny, At

LEMMA ClearOrdered ==
    ASSUME Typed, InOrder, Clear
    PROVE  InOrder'
<1>1. Doing("clear") /\ UNCHANGED <<listed, native, runtime, entry, menu, player, body, up, buried>> /\ up /\ up'
  BY DEF Clear, Doing, ghost
<1>2. TypeOK /\ Planned /\ Accounts /\ OpeningSound
  BY DEF Typed, InOrder
<1>3. /\ Now[1] = "clear" /\ Subject = Now[2] /\ Now[2] \in {"obj", "exp"} /\ task.kind = "select"
      /\ Advance => ~ task'.refused /\ Now' = IF Now[2] = "obj" THEN <<"clear", "exp">> ELSE <<"login", "all">>
      /\ FailWith(<<>>) => Refused /\ Now' = <<"idle", "all">>
  BY <1>1, <1>2, ClearFlow
<1>4. legacy \in File /\ listed /\ native["char"] # None /\ legacy["char"] = None /\ entry = "native" /\ (Now[2] = "exp" => legacy["obj"] = None)
  BY <1>2, <1>3 DEF OpeningSound, AtAny, At, TypeOK
<1>5. CASE legacy' = [legacy EXCEPT ![Now[2]] = None] /\ Advance
  <2>1. legacy'["char"] = None /\ legacy'["obj"] = None
    BY <1>3, <1>4, <1>5, Put, Befores
  <2>2. Accounts'
    BY <1>1, <1>2, <1>3, <1>4, <2>1 DEF Accounts, AtAny, Unused
  <2>3. Now'[1] \in {"clear", "login"} /\ ~ task'.refused
    BY <1>3, <1>5
  <2>4. OpeningSound'
    BY <1>1, <1>4, <2>1, <2>3 DEF OpeningSound, AtAny, At
  <2> QED
    BY <2>2, <2>3, <2>4 DEF InOrder, DeletingSound, MigratingSound, Migrates, CleaningSound, CreatingSound, Creates, RefusedSound, AtAny, At
<1>6. CASE FailWith(<<>>) /\ UNCHANGED legacy
  <2>1. Now' = <<"idle", "all">> /\ task'.kind = "select"
    BY <1>3, <1>6 DEF Refused, SameProcedure
  <2>2. Accounts'
    BY <1>1, <1>2, <1>3, <1>4, <1>6 DEF Accounts, AtAny, Unused
  <2> QED
    BY <2>1, <2>2 DEF InOrder, DeletingSound, MigratingSound, Migrates, CleaningSound, CreatingSound, Creates, OpeningSound, RefusedSound, AtAny, At
<1> QED
  BY <1>3, <1>5, <1>6 DEF Clear

LEMMA LoginOrdered ==
    ASSUME Typed, InOrder, Login
    PROVE  InOrder'
<1>1. Doing("login") /\ Advance /\ UNCHANGED <<listed, native, legacy, runtime, entry, body, up, buried>> /\ up /\ up'
  BY DEF Login, Doing, disk, ghost
<1>2. TypeOK /\ Planned /\ Accounts /\ OpeningSound
  BY DEF Typed, InOrder
<1>3. Now[1] = "login" /\ task.conn \in Conn /\ task' = NoTask /\ Now' = <<"idle", "all">> /\ ~ task'.refused
  BY <1>1, <1>2, LoginFlow, Ends
<1>4. listed /\ native["char"] # None /\ legacy["char"] = None /\ entry = "native" /\ native["char"] > buried
  BY <1>2, <1>3 DEF OpeningSound, AtAny, Accounts
<1>5. (player' # None => body.char > buried) /\ \A c \in Conn : menu'[c] # None => menu'[c] > buried
  <2>1. CASE SameOne /\ UNCHANGED menu
    BY <1>2, <2>1 DEF SameOne, Accounts
  <2>2. CASE UNCHANGED player /\ menu' = [menu EXCEPT ![task.conn] = native["char"]]
    BY <1>2, <1>3, <1>4, <2>2 DEF Accounts, TypeOK
  <2> QED
    BY <2>1, <2>2 DEF Login
<1>6. Accounts'
  BY <1>1, <1>4, <1>5 DEF Accounts
<1> QED
  BY <1>3, <1>6, Quiet

LEMMA FreeNow ==
    ASSUME Free
    PROVE  up /\ Idle /\ Now = <<"idle", "all">> /\ ~ Astray
BY DEF Free, Now

\* Somebody has the character, so it is listed and opened.
LEMMA InUse ==
    ASSUME InOrder, ~ Unused
    PROVE  /\ listed /\ entry = "native" /\ legacy["char"] = None
           /\ ~ AtAny({"stage", "unlist", "restore"}) => native["char"] # None /\ native["char"] > buried
BY DEF InOrder, Accounts

LEMMA SaveCharOrdered ==
    ASSUME Typed, InOrder, SaveChar
    PROVE  InOrder'
<1>1. Doing("save") /\ Subject = "char" /\ Advance /\ UNCHANGED <<listed, runtime, menu, player, body, up, buried>> /\ up /\ up'
  BY DEF SaveChar, Doing
<1>2. TypeOK /\ Planned /\ Accounts
  BY DEF Typed, InOrder
<1>3. Now = <<"save", "char">> /\ player # None /\ Now'[1] \in {"idle", "quit", "leave", "save"} /\ ~ task'.refused
  BY <1>1, <1>2, SaveCharFlow DEF ToRest
<1>4. listed /\ entry = "native" /\ legacy["char"] = None /\ native["char"] # None
  BY <1>3, InUse DEF Unused, AtAny
<1>5. UNCHANGED <<entry, legacy>> /\ (UNCHANGED native \/ native' = [native EXCEPT !["char"] = body.char])
  BY <1>4 DEF SaveChar
<1>6. body.char > buried /\ body.char # None /\ native["char"] > buried
  BY <1>2, <1>3, <1>4, Ages DEF Accounts, TypeOK
<1>7. native'["char"] \in {native["char"], body.char}
  BY <1>2, <1>5, Put, Befores DEF TypeOK
<1>8. Accounts'
  BY <1>1, <1>2, <1>3, <1>4, <1>5, <1>6, <1>7 DEF Accounts, AtAny, Unused
<1> QED
  BY <1>3, <1>8, Quiet

LEMMA SaveObjectsOrdered ==
    ASSUME Typed, InOrder, SaveRuntime \/ SaveMirror
    PROVE  InOrder'
<1>1. Doing("save") /\ UNCHANGED <<listed, legacy, entry, menu, player, body, up, buried>> /\ up /\ up'
  BY DEF SaveRuntime, SaveMirror, Doing, memory, ghost
<1>2. TypeOK /\ Planned /\ Accounts
  BY DEF Typed, InOrder
<1>3. Now[1] = "save" /\ player # None /\ Now'[1] \in {"idle", "quit", "leave", "save"} /\ ~ task'.refused
  <2>1. CASE SaveRuntime
    <3>1. Subject = "runtime" /\ (Advance \/ Skips)
      BY <2>1 DEF SaveRuntime, Skips
    <3> QED
      BY <1>1, <1>2, <3>1, SaveRuntimeFlow DEF ToRest
  <2>2. CASE SaveMirror
    <3>1. Subject = "mirror" /\ Advance
      BY <2>2 DEF SaveMirror
    <3> QED
      BY <1>1, <1>2, <3>1, SaveMirrorFlow DEF ToRest
  <2> QED
    BY <2>1, <2>2
<1>4. native'["char"] = native["char"]
  <2>1. UNCHANGED native \/ native' = [native EXCEPT !["obj"] = body.obj]
    BY DEF SaveRuntime, SaveMirror
  <2> QED
    BY <1>2, <2>1, Put, Befores DEF TypeOK
<1>5. Accounts'
  BY <1>1, <1>2, <1>3, <1>4 DEF Accounts, AtAny, Unused
<1> QED
  BY <1>3, <1>5, Quiet

LEMMA LeftOrdered ==
    ASSUME Typed, InOrder, Left
    PROVE  InOrder'
<1>1. Advance /\ UNCHANGED <<listed, native, legacy, runtime, entry, up, buried>> /\ up /\ up' /\ player' = None
  BY DEF Left, Doing, disk, ghost
<1>2. TypeOK /\ Planned /\ Accounts
  BY DEF Typed, InOrder
<1>3. Now[1] \in {"quit", "leave"} /\ player # None /\ task' = NoTask
  BY <1>1, <1>2, LeftFlow DEF Left
<1>4. Now' = <<"idle", "all">> /\ ~ task'.refused
  BY <1>3, Ends
<1>5. listed /\ entry = "native" /\ legacy["char"] = None /\ native["char"] # None /\ native["char"] > buried
  BY <1>3, InUse DEF Unused, AtAny
<1>6. \A c \in Conn : menu'[c] # None => menu'[c] > buried
  <2>1. UNCHANGED menu \/ menu' = [menu EXCEPT ![player] = body.char]
    BY DEF Left
  <2> QED
    BY <1>2, <1>3, <2>1 DEF Accounts, TypeOK
<1>7. Accounts'
  BY <1>1, <1>5, <1>6 DEF Accounts
<1> QED
  BY <1>4, <1>7, Quiet

\* What starts no procedure: the result of the last one stands.
LEMMA StillRefused ==
    ASSUME Typed, InOrder, task' = task, Idle, up, UNCHANGED <<listed, native, legacy, runtime>>, odd \subseteq odd', Accounts'
    PROVE  InOrder'
<1>1. Now = <<"idle", "all">> /\ Now' = <<"idle", "all">>
  BY Waits DEF Typed
<1>2. RefusedSound
  BY DEF InOrder
<1>3. Found' = Found
  BY DEF Found, NoFile
<1>4. RefusedSound'
  BY <1>1, <1>2, <1>3 DEF RefusedSound, At, Without
<1> QED
  BY <1>1, <1>4 DEF InOrder, DeletingSound, MigratingSound, Migrates, CleaningSound, CreatingSound, Creates, OpeningSound, AtAny, At

LEMMA PlayOrdered ==
    ASSUME Typed, InOrder, Play
    PROVE  InOrder'
<1>1. /\ Free /\ player # None /\ body' = [char |-> made + 1, obj |-> made + 1] /\ task' = task
      /\ UNCHANGED <<listed, native, legacy, runtime, entry, menu, player, up, buried, odd>>
  BY DEF Play, disk
<1>2. TypeOK /\ Planned /\ Accounts /\ buried <= made
  BY DEF Typed, InOrder, Settled
<1>3. body'.char > buried
  BY <1>1, <1>2, Ages DEF TypeOK
<1>4. up /\ Idle /\ Now = <<"idle", "all">> /\ Now' = Now
  BY <1>1, <1>2, FreeNow, Waits
<1>5. Accounts'
  BY <1>1, <1>2, <1>3, <1>4 DEF Accounts, AtAny, Unused
<1> QED
  BY <1>1, <1>4, <1>5, StillRefused

LEMMA LeaveMenuOrdered ==
    ASSUME Typed, InOrder, NEW c \in Conn, LeaveMenu(c)
    PROVE  InOrder'
<1>1. /\ Free /\ menu[c] # None /\ task' = task /\ menu' = [menu EXCEPT ![c] = None]
      /\ UNCHANGED <<listed, native, legacy, runtime, entry, player, body, up, buried, odd>>
  BY DEF LeaveMenu, disk, ghost
<1>2. TypeOK /\ Planned /\ Accounts
  BY DEF Typed, InOrder
<1>3. up /\ Idle /\ Now = <<"idle", "all">> /\ Now' = Now
  BY <1>1, <1>2, FreeNow, Waits
<1>4. listed /\ entry = "native" /\ legacy["char"] = None /\ native["char"] # None /\ native["char"] > buried
  BY <1>1, <1>3, InUse DEF Unused, AtAny
<1>5. \A e \in Conn : menu'[e] # None => menu'[e] > buried
  BY <1>1, <1>2 DEF Accounts, TypeOK
<1>6. Accounts'
  BY <1>1, <1>2, <1>4, <1>5 DEF Accounts
<1> QED
  BY <1>1, <1>3, <1>6, StillRefused

\* The procedures that begin.
LEMMA EnterBegins ==
    ASSUME Typed, NEW c \in Conn, Enter(c)
    PROVE  /\ Now = <<"idle", "all">> /\ up /\ up' /\ Idle
           /\ \/ /\ player = None /\ body' = [char |-> menu[c], obj |-> Belongings]
                 /\ held' = IF runtime = None /\ legacy["obj"] = None THEN None ELSE held
                 /\ Now' = <<"save", "char">> /\ ~ task'.refused /\ task'.kind = "save" /\ Tail(task'.steps) # <<<<"quit", "all">>>>
              \/ SameOne /\ menu[c] > buried /\ held' = None /\ UNCHANGED <<body, task>> /\ Now' = Now
<1>1. TypeOK /\ Free /\ up' = up /\ player' = c /\ c # None
  BY NoneAssumption DEF Typed, Enter
<1>2. up /\ Idle /\ Now = <<"idle", "all">>
  BY <1>1, FreeNow
<1>3. CASE player = None /\ Start("save", None, <<<<"save", "char">>>>)
  <2>1. <<>> \in ToLeave
    BY DEF ToLeave
  <2>2. Begun("save", None, Now') /\ Now' \in {<<"save", "char">>, <<"save", "runtime">>} /\ Tail(task'.steps) # <<<<"quit", "all">>>>
    BY <1>1, <1>2, <1>3, <2>1, SavingBegins
  <2>3. Now' = <<"save", "char">>
    BY <1>3 DEF Start, Task, Now, Idle
  <2> QED
    BY <1>1, <1>2, <1>3, <2>2, <2>3 DEF Begun, Enter, SameOne
<1> QED
  BY <1>1, <1>2, <1>3, Waits DEF Enter

LEMMA EnterOrdered ==
    ASSUME Typed, InOrder, NEW c \in Conn, Enter(c)
    PROVE  InOrder'
<1>1. /\ menu[c] # None /\ player' = c /\ menu' = [menu EXCEPT ![c] = None]
      /\ UNCHANGED <<listed, native, legacy, runtime, entry, up, buried, odd>>
  BY DEF Enter, disk, ghost
<1>2. TypeOK /\ Planned /\ Accounts
  BY DEF Typed, InOrder
<1>3. Now = <<"idle", "all">> /\ up /\ up' /\ Idle
  BY EnterBegins
<1>4. listed /\ entry = "native" /\ legacy["char"] = None /\ native["char"] # None /\ native["char"] > buried
  BY <1>1, <1>3, InUse DEF Unused, AtAny
<1>5. \A e \in Conn : menu'[e] # None => menu'[e] > buried
  BY <1>1, <1>2 DEF Accounts, TypeOK
<1>6. menu[c] > buried
  BY <1>1, <1>2 DEF Accounts
<1>7. body'.char > buried
  <2>1. CASE body' = [char |-> menu[c], obj |-> Belongings]
    BY <1>6, <2>1
  <2>2. CASE SameOne /\ UNCHANGED body
    BY <2>2 DEF SameOne
  <2> QED
    BY <2>1, <2>2, EnterBegins
<1>8. Accounts'
  BY <1>1, <1>4, <1>5, <1>7 DEF Accounts
<1>9. CASE Now' = <<"save", "char">> /\ ~ task'.refused
  BY <1>8, <1>9, Quiet
<1>10. CASE task' = task
  BY <1>1, <1>3, <1>8, <1>10, StillRefused
<1> QED
  BY <1>9, <1>10, EnterBegins

LEMMA SaveBegins ==
    ASSUME Typed, Save \/ Quit \/ Rent
    PROVE  /\ Now = <<"idle", "all">> /\ up /\ up' /\ player # None /\ UNCHANGED <<disk, entry, menu, held, player, up, ghost, odd>>
           /\ body' = body \/ body' = [body EXCEPT !.obj = Nothing]
           /\ ~ task'.refused /\ task'.kind = "save" /\ Now' \in {<<"save", "char">>, <<"save", "runtime">>} /\ Tail(task'.steps) # <<<<"quit", "all">>>>
<1>1. /\ Now = <<"idle", "all">> /\ up /\ up' /\ player # None /\ player' # None /\ UNCHANGED <<disk, entry, menu, held, player, up, ghost, odd>>
      /\ body' = body \/ body' = [body EXCEPT !.obj = Nothing]
  BY FreeNow DEF Save, Quit, Rent, memory
<1>2. PICK steps \in {CharFirst(<<>>), CharFirst(<<<<"quit", "all">>>>), ObjectsFirst(<<<<"quit", "all">>>>), ObjectsFirst(<<<<"leave", "all">>>>)} :
          Start("save", None, steps)
  BY DEF Save, Quit, Rent
<1>3. <<>> \in ToLeave /\ <<<<"quit", "all">>>> \in ToLeave /\ <<<<"leave", "all">>>> \in ToLeave
  BY DEF ToLeave
<1>4. PICK rest \in ToLeave : steps \in {CharFirst(rest), ObjectsFirst(rest)}
  BY <1>2, <1>3
<1>5. Begun("save", None, Now') /\ Now' \in {<<"save", "char">>, <<"save", "runtime">>} /\ Tail(task'.steps) # <<<<"quit", "all">>>>
  BY <1>1, <1>2, <1>4, SavingBegins DEF Typed
<1> QED
  BY <1>1, <1>5 DEF Begun

LEMMA SaveOrdered ==
    ASSUME Typed, InOrder, Save \/ Quit \/ Rent
    PROVE  InOrder'
<1>1. /\ Now = <<"idle", "all">> /\ up /\ up' /\ player # None /\ UNCHANGED <<disk, entry, menu, held, player, up, ghost, odd>>
      /\ body' = body \/ body' = [body EXCEPT !.obj = Nothing]
      /\ ~ task'.refused /\ Now'[1] = "save"
  BY SaveBegins
<1>2. TypeOK /\ Accounts
  BY DEF Typed, InOrder
<1>3. body'.char = body.char
  BY <1>1, <1>2 DEF TypeOK
<1>4. Accounts'
  BY <1>1, <1>2, <1>3 DEF Accounts, AtAny, Unused, disk, ghost
<1> QED
  BY <1>1, <1>4, Quiet

LEMMA LinkBegins ==
    ASSUME Typed, Link
    PROVE  /\ Now = <<"idle", "all">> /\ up /\ up' /\ UNCHANGED <<disk, memory, ghost, odd>>
           /\ legacy["char"] # None /\ Begun("link", None, <<"hydrate", "char">>)
<1>1. /\ Now = <<"idle", "all">> /\ up /\ UNCHANGED <<disk, memory, ghost, odd>> /\ legacy["char"] # None
      /\ Start("link", None, MigrateSteps(IF "link" = "select" THEN OpenSteps ELSE IF listed THEN <<>> ELSE <<<<"list", "all">>>>))
  BY FreeNow DEF Link
<1>2. up' /\ listed' = listed
  BY <1>1 DEF disk, memory
<1> QED
  BY <1>1, <1>2, MigratingBegins DEF Typed

LEMMA SelectBegins ==
    ASSUME Typed, NEW c \in Conn, Select(c)
    PROVE  /\ Now = <<"idle", "all">> /\ up /\ up' /\ UNCHANGED <<disk, memory, ghost>>
           /\ listed /\ menu[c] = None /\ player # c
           /\ \/ native["char"] = None /\ legacy["char"] # None /\ Begun("select", c, <<"hydrate", "char">>)
              \/ native["char"] # None /\ Begun("select", c, <<"open", "all">>)
<1>1. /\ Now = <<"idle", "all">> /\ up /\ UNCHANGED <<disk, memory, ghost>> /\ listed /\ menu[c] = None /\ player # c
      /\ \/ native["char"] # None /\ Start("select", c, OpenSteps)
         \/ /\ native["char"] = None /\ legacy["char"] # None
            /\ Start("select", c, MigrateSteps(IF "select" = "select" THEN OpenSteps ELSE IF listed THEN <<>> ELSE <<<<"list", "all">>>>))
  BY FreeNow DEF Select
<1>2. up' /\ listed' = listed
  BY <1>1 DEF disk, memory
<1> QED
  BY <1>1, <1>2, MigratingBegins, OpeningBegins DEF Typed

\* A migration that begins, with a legacy character and no native one.
LEMMA MigrationOrdered ==
    ASSUME Typed, InOrder, Now = <<"idle", "all">>, up, up', UNCHANGED <<disk, memory, ghost>>, legacy["char"] # None,
           NEW kind \in {"link", "select"}, NEW c \in Conn \cup {None}, Begun(kind, c, <<"hydrate", "char">>), kind = "select" => listed
    PROVE  InOrder'
<1>1. TypeOK /\ Accounts
  BY DEF Typed, InOrder
<1>2. UNCHANGED <<listed, native, legacy, runtime, entry, menu, player, body, buried>> /\ Unused' = Unused
  BY DEF disk, memory, ghost, Unused
<1>3. Unused /\ entry = "legacy" /\ legacy["char"] > buried /\ ~ (listed /\ native["char"] # None)
  BY <1>1 DEF Accounts, AtAny
<1>4. /\ task'.from = Found /\ Found.legacy = legacy /\ Found.native = NoFile /\ Found.runtime = runtime
      /\ Now' = <<"hydrate", "char">> /\ task'.kind = kind /\ task'.moved = {}
  BY <1>3 DEF Begun, Found
<1>5. Found \in Contents
  BY <1>1, Files DEF TypeOK, Found, Contents, NoFile, File
<1>6. MigratingSound'
  BY <1>2, <1>3, <1>4, <1>5, Befores DEF MigratingSound, Migrates, AtAny, At
<1>7. Accounts'
  BY <1>1, <1>2, <1>3, <1>4 DEF Accounts, AtAny, Unused
<1> QED
  BY <1>4, <1>6, <1>7 DEF InOrder, DeletingSound, CleaningSound, CreatingSound, Creates, OpeningSound, RefusedSound, AtAny, At

LEMMA LinkOrdered ==
    ASSUME Typed, InOrder, Link
    PROVE  InOrder'
BY LinkBegins, MigrationOrdered

LEMMA SelectOrdered ==
    ASSUME Typed, InOrder, NEW c \in Conn, Select(c)
    PROVE  InOrder'
<1>1. CASE Begun("select", c, <<"hydrate", "char">>) /\ legacy["char"] # None
  BY <1>1, SelectBegins, MigrationOrdered
<1>2. CASE Begun("select", c, <<"open", "all">>) /\ native["char"] # None
  <2>1. /\ Now = <<"idle", "all">> /\ up /\ up' /\ listed /\ ~ task'.refused /\ Now' = <<"open", "all">>
        /\ UNCHANGED <<listed, native, legacy, runtime, entry, menu, player, body, buried>>
    BY <1>2, SelectBegins DEF Begun, disk, memory, ghost
  <2>2. Accounts
    BY DEF InOrder
  <2>3. legacy["char"] = None
    BY <1>2, <2>1, <2>2 DEF Accounts, AtAny
  <2>4. OpeningSound'
    BY <1>2, <2>1, <2>3 DEF OpeningSound, AtAny, At
  <2>5. Accounts'
    BY <2>1, <2>2, <2>3 DEF Accounts, AtAny, Unused
  <2> QED
    BY <2>1, <2>4, <2>5 DEF InOrder, DeletingSound, MigratingSound, Migrates, CleaningSound, CreatingSound, Creates, RefusedSound, AtAny, At
<1> QED
  BY <1>1, <1>2, SelectBegins

LEMMA CreateBegins ==
    ASSUME Typed, NEW c \in Conn, Create(c)
    PROVE  /\ Now = <<"idle", "all">> /\ up /\ up' /\ UNCHANGED <<disk, menu, held, player, body, up, saved, buried>>
           /\ entry' = "native" /\ made' = made + 1 /\ ~ listed /\ (entry = "legacy" => legacy["char"] = None)
           /\ Begun("create", c, <<"create", "char">>)
           /\ (runtime = None /\ legacy["obj"] = None) \/ "namesake" \in odd'
           /\ native["char"] = None \/ "orphan" \in odd'
<1>1. /\ Now = <<"idle", "all">> /\ up /\ UNCHANGED <<disk, menu, held, player, body, up, saved, buried>>
      /\ entry' = "native" /\ made' = made + 1 /\ ~ listed /\ (entry = "legacy" => legacy["char"] = None)
      /\ Start("create", c, Each("create", <<<<"list", "all">>>>))
  BY FreeNow DEF Create
<1>2. up'
  BY <1>1
<1>3. /\ (runtime = None /\ legacy["obj"] = None) \/ "namesake" \in odd'
      /\ native["char"] = None \/ "orphan" \in odd'
  BY DEF Create, MarkAll
<1> QED
  BY <1>1, <1>2, <1>3, CreatingBegins DEF Typed

LEMMA CreateOrdered ==
    ASSUME Typed, InOrder, NEW c \in Conn, Create(c), Sure'
    PROVE  InOrder'
<1>1. /\ Now = <<"idle", "all">> /\ up /\ up' /\ UNCHANGED <<listed, native, legacy, runtime, menu, player, body, buried>>
      /\ entry' = "native" /\ made' = made + 1 /\ ~ listed /\ (entry = "legacy" => legacy["char"] = None)
      /\ Now' = <<"create", "char">> /\ ~ task'.refused
      /\ native["char"] = None
  BY CreateBegins DEF Begun, disk, Sure, Without
<1>2. TypeOK /\ Accounts /\ buried <= made /\ made \in Nat /\ buried \in Nat
  BY Ages DEF Typed, InOrder, Settled, TypeOK
<1>3. Unused /\ legacy["char"] = None
  BY <1>1, <1>2 DEF Accounts
<1>4. Accounts'
  BY <1>1, <1>2, <1>3 DEF Accounts, AtAny, Unused
<1>5. made' > buried' /\ Unused'
  BY <1>1, <1>2, <1>3 DEF Unused
<1>6. CreatingSound'
  BY <1>1, <1>3, <1>5, Befores DEF CreatingSound, Creates, At
<1> QED
  BY <1>1, <1>4, <1>6 DEF InOrder, DeletingSound, MigratingSound, Migrates, CleaningSound, OpeningSound, RefusedSound, AtAny, At

LEMMA AddCharOrdered ==
    ASSUME Typed, InOrder, AddChar, Sure'
    PROVE  InOrder'
<1>1. /\ Now = <<"idle", "all">> /\ up /\ ~ listed /\ listed' = TRUE /\ task' = NoTask
      /\ UNCHANGED <<native, legacy, runtime, entry, menu, player, body, up, buried>>
  BY FreeNow DEF AddChar, memory, ghost
<1>2. native["char"] = None
  BY DEF AddChar, MarkIf, Mark, MarkAll, Sure, Without
<1>3. Accounts /\ Now' = <<"idle", "all">> /\ ~ task'.refused
  BY <1>1, Ends DEF InOrder
<1>4. Accounts'
  BY <1>1, <1>2, <1>3 DEF Accounts, AtAny, Unused
<1> QED
  BY <1>3, <1>4, Quiet

\* A deletion that begins, of a character in the account's files.
LEMMA DeletionOrdered ==
    ASSUME Typed, InOrder, Now = <<"idle", "all">>, up, up', UNCHANGED <<disk, entry, menu, ghost>>,
           player' # None => player # None /\ body' = body,
           listed, legacy["char"] = None, entry = "native", native["char"] # None,
           NEW kind \in {"delete", "erase"}, NEW c \in Conn \cup {None}, Begun(kind, c, <<"stage", "char">>)
    PROVE  InOrder'
<1>1. TypeOK /\ Accounts
  BY DEF Typed, InOrder
<1>2. UNCHANGED <<listed, native, legacy, pending, runtime, entry, menu, buried>>
  BY DEF disk, ghost
<1>3. /\ task'.from = Found /\ Found.legacy = legacy /\ Found.native = native /\ Found.runtime = runtime
      /\ Now' = <<"stage", "char">> /\ task'.moved = {}
  BY DEF Begun, Found
<1>4. Found \in Contents
  BY <1>1, Files DEF TypeOK, Found, Contents, NoFile, File
<1>5. Aside' = {} /\ native["char"] > buried
  BY <1>1, <1>3 DEF Aside, At, Accounts
<1>6. DeletingSound'
  BY <1>2, <1>3, <1>4, <1>5, Befores DEF DeletingSound, AtAny, At
<1>7. Accounts'
  BY <1>1, <1>2, <1>3 DEF Accounts, AtAny, Unused
<1> QED
  BY <1>3, <1>6, <1>7 DEF InOrder, MigratingSound, Migrates, CleaningSound, CreatingSound, Creates, OpeningSound, RefusedSound, AtAny, At

LEMMA SelfDeleteBegins ==
    ASSUME Typed, NEW c \in Conn, SelfDelete(c)
    PROVE  /\ Now = <<"idle", "all">> /\ up /\ up' /\ UNCHANGED <<disk, memory, ghost, odd>>
           /\ listed /\ menu[c] # None /\ Begun("delete", c, <<"stage", "char">>)
<1>1. /\ Now = <<"idle", "all">> /\ up /\ UNCHANGED <<disk, memory, ghost, odd>> /\ listed /\ menu[c] # None
      /\ Start("delete", c, DeleteSteps)
  BY FreeNow DEF SelfDelete
<1>2. up'
  BY <1>1 DEF memory
<1> QED
  BY <1>1, <1>2, DeletingBegins DEF Typed

LEMMA SelfDeleteOrdered ==
    ASSUME Typed, InOrder, NEW c \in Conn, SelfDelete(c)
    PROVE  InOrder'
<1>1. /\ Now = <<"idle", "all">> /\ up /\ up' /\ UNCHANGED <<disk, memory, ghost, odd>>
      /\ listed /\ menu[c] # None /\ Begun("delete", c, <<"stage", "char">>)
  BY SelfDeleteBegins
<1>2. listed /\ entry = "native" /\ legacy["char"] = None /\ native["char"] # None
  BY <1>1, InUse DEF Unused, AtAny
<1>3. UNCHANGED <<entry, menu, player, body>>
  BY <1>1 DEF memory
<1> QED
  BY <1>1, <1>2, <1>3, DeletionOrdered

LEMMA EraseBegins ==
    ASSUME Typed, Erase
    PROVE  /\ Now = <<"idle", "all">> /\ up /\ up' /\ UNCHANGED <<disk, entry, menu, up, ghost>> /\ listed /\ TakeOut
           /\ \/ entry = "native" /\ native["char"] # None
              \/ entry = "legacy" /\ legacy["char"] # None
           /\ legacy["char"] = None \/ "unmigrated" \in odd'
           /\ Begun("erase", None, <<"stage", "char">>)
<1>1. /\ Now = <<"idle", "all">> /\ up /\ UNCHANGED <<disk, entry, menu, up, ghost>> /\ listed /\ TakeOut
      /\ \/ entry = "native" /\ native["char"] # None
         \/ entry = "legacy" /\ legacy["char"] # None
      /\ Start("erase", None, DeleteSteps)
  BY FreeNow DEF Erase
<1>2. up'
  BY <1>1
<1>3. legacy["char"] = None \/ "unmigrated" \in odd'
  BY DEF Erase, MarkIf, Mark, MarkAll
<1> QED
  BY <1>1, <1>2, <1>3, DeletingBegins DEF Typed

LEMMA EraseOrdered ==
    ASSUME Typed, InOrder, Erase, Sure'
    PROVE  InOrder'
<1>1. /\ Now = <<"idle", "all">> /\ up /\ up' /\ UNCHANGED <<disk, entry, menu, up, ghost>> /\ listed /\ TakeOut
      /\ entry = "native" /\ native["char"] # None /\ legacy["char"] = None /\ Begun("erase", None, <<"stage", "char">>)
  BY EraseBegins DEF Sure, Without, Ownerless
<1>2. player' = None
  BY <1>1 DEF TakeOut
<1> QED
  BY <1>1, <1>2, DeletionOrdered

LEMMA EraseLegacyOrdered ==
    ASSUME Typed, InOrder, EraseLegacy, Sure'
    PROVE  InOrder'
<1>1. /\ Now = <<"idle", "all">> /\ up /\ ~ listed /\ entry' = "none" /\ task' = NoTask
      /\ player' = None /\ UNCHANGED <<listed, native, menu, up>>
  BY FreeNow DEF EraseLegacy, TakeOut
<1>2. Accounts /\ Now' = <<"idle", "all">> /\ ~ task'.refused
  BY <1>1, Ends DEF InOrder
<1>3. legacy'["char"] = None
  <2>1. legacy' = NoFile \/ legacy' = [NoFile EXCEPT !["char"] = None]
    BY DEF EraseLegacy, MarkIf, Mark, MarkAll, Sure, Without, Ownerless
  <2> QED
    BY <2>1, Befores DEF NoFile
<1>4. Unused'
  BY <1>1, <1>2 DEF Accounts, Unused
<1>5. Accounts'
  BY <1>1, <1>3, <1>4 DEF Accounts, Unused
<1> QED
  BY <1>2, <1>5, Quiet

LEMMA CrashOrdered ==
    ASSUME Typed, InOrder, Crash
    PROVE  InOrder'
<1>1. /\ ~ up' /\ entry' = "none" /\ menu' = [c \in Conn |-> None] /\ player' = None /\ task' = NoTask
      /\ UNCHANGED <<listed, native, legacy, buried>>
  BY DEF Crash, disk, ghost
<1>2. Accounts /\ Now' = <<"idle", "all">> /\ ~ task'.refused
  BY <1>1, Ends DEF InOrder
<1>3. Unused'
  BY <1>1 DEF Unused
<1>4. Accounts'
  BY <1>1, <1>2, <1>3 DEF Accounts, Unused
<1> QED
  BY <1>2, <1>4, Quiet

LEMMA BootOrdered ==
    ASSUME Typed, InOrder, Boot
    PROVE  InOrder'
<1>1. /\ ~ up /\ up' /\ Startable /\ task' = task /\ entry' = IF Indexed = {} THEN "none" ELSE CHOOSE e \in Indexed : TRUE
      /\ UNCHANGED <<listed, native, legacy, menu, player, body, buried>>
  BY DEF Boot, disk, ghost
<1>2. Accounts /\ Unused /\ ~ task.refused /\ Idle
  BY <1>1 DEF InOrder, Typed, Settled, Unused, Planned
<1>3. Now' = <<"idle", "all">> /\ ~ task'.refused
  BY <1>1, <1>2, Waits DEF Typed
<1>4. /\ ~ (listed /\ native["char"] # None /\ legacy["char"] # None)
      /\ legacy["char"] # None => Indexed = {"legacy"}
      /\ "native" \in Indexed => listed
      /\ Indexed \subseteq {"legacy", "native"}
  BY <1>1 DEF Startable, Indexed
<1>5. (legacy["char"] # None => entry' = "legacy") /\ (entry' = "native" => listed)
  <2>1. Indexed # {} => entry' \in Indexed
    BY <1>1
  <2>2. Indexed = {} => entry' = "none"
    BY <1>1
  <2> QED
    BY <1>4, <2>1, <2>2
<1>6. Accounts'
  BY <1>1, <1>2, <1>4, <1>5 DEF Accounts, Unused
<1> QED
  BY <1>3, <1>6, Quiet

LEMMA OrderedInit == Init => Ordered
<1> SUFFICES ASSUME Init PROVE InOrder
  BY DEF Ordered
<1>1. Now = <<"idle", "all">> /\ ~ task.refused
  BY DEF Init, NoTask, Now, Idle
<1>2. Accounts
  BY Ages, Befores DEF Init, Accounts, Unused, NoFile, Nothing
<1> QED
  BY <1>1, <1>2 DEF InOrder, DeletingSound, MigratingSound, Migrates, CleaningSound, CreatingSound, Creates, OpeningSound, RefusedSound, AtAny, At

LEMMA OrderedStutter ==
    ASSUME Ordered, UNCHANGED vars
    PROVE  Ordered'
<1>1. UNCHANGED <<listed, native, legacy, pending, runtime, entry, menu, held, player, body, up, task, made, saved, buried, odd>>
  BY DEF vars, disk, memory, ghost
<1> QED
  BY <1>1 DEF Ordered, Without, InOrder, Accounts, DeletingSound, MigratingSound, Migrates, CleaningSound, CreatingSound, Creates, OpeningSound, RefusedSound,
     AtAny, At, Now, Idle, Unused, Aside, Retired, Found

LEMMA OrderedStep ==
    ASSUME Typed, Ordered, [Next]_vars
    PROVE  Ordered'
<1>1. SUFFICES ASSUME Next, Sure' PROVE InOrder'
  BY OrderedStutter DEF Ordered, Sure
<1>2. InOrder
  BY <1>1, OddGrows DEF Ordered, Sure, Without
<1>3. CASE TaskStep
  BY <1>1, <1>2, <1>3, StageOrdered, PutBackOrdered, UnlistOrdered, DropOrdered, HydrateOrdered, RetireOrdered, RetireSnapshotOrdered,
     UnretireOrdered, CleanOrdered, CreateFileOrdered, ListOrdered, OpenOrdered, ClearOrdered, LoginOrdered, SaveCharOrdered,
     SaveObjectsOrdered, LeftOrdered DEF TaskStep
<1>4. CASE AddChar \/ Link \/ Play \/ Save \/ Quit \/ Rent \/ Erase \/ EraseLegacy \/ Crash \/ Boot
  BY <1>1, <1>2, <1>4, AddCharOrdered, LinkOrdered, PlayOrdered, SaveOrdered, EraseOrdered, EraseLegacyOrdered, CrashOrdered, BootOrdered
<1>5. ASSUME NEW c \in Conn, Create(c) \/ Select(c) \/ LeaveMenu(c) \/ Enter(c) \/ SelfDelete(c)
      PROVE  InOrder'
  BY <1>1, <1>2, <1>5, CreateOrdered, SelectOrdered, LeaveMenuOrdered, EnterOrdered, SelfDeleteOrdered
<1> QED
  BY <1>1, <1>3, <1>4, <1>5 DEF Next

\* While nothing is astray, the files are always where the step that comes next
\* expects them, for any number of connections, contents and rare events.
THEOREM OrderedAlways == Spec => [](Typed /\ Ordered)
<1>1. Init => Typed /\ Ordered
  BY TypedInit, OrderedInit
<1>2. Typed /\ Ordered /\ [Next]_vars => (Typed /\ Ordered)'
  BY TypedStep, OrderedStep
<1> QED
  BY <1>1, <1>2, PTL DEF Spec

LEMMA SureAndFree ==
    ASSUME Ordered, Free, Without(Ownerless)
    PROVE  InOrder /\ up /\ At("idle")
BY FreeNow DEF Ordered, Without, Astray, At

\* Between procedures a server that is up would start again: build_player_index
\* never meets the name in both places, whatever failed before.
THEOREM StartsAgainTheorem == Spec => []StartsAgain
<1>1. Ordered => StartsAgain
  <2> SUFFICES ASSUME Ordered, Without(Ownerless), Free PROVE Startable
    BY DEF StartsAgain
  <2>1. Accounts /\ up /\ At("idle")
    BY SureAndFree DEF InOrder
  <2> QED
    BY <2>1 DEF Accounts, AtAny, At, Startable, Indexed
<1> QED
  BY <1>1, OrderedAlways, PTL

\* The index never leads to the files of a deleted character.
THEOREM StaysDeletedTheorem == Spec => []StaysDeleted
<1>1. Ordered => StaysDeleted
  <2> SUFFICES ASSUME Ordered, Without(Ownerless), Free
               PROVE  /\ entry = "legacy" /\ legacy["char"] # None => legacy["char"] > buried
                      /\ entry = "native" /\ native["char"] # None => native["char"] > buried
    BY DEF StaysDeleted
  <2>1. Accounts /\ up /\ At("idle")
    BY SureAndFree DEF InOrder
  <2> QED
    BY <2>1 DEF Accounts, AtAny, At
<1> QED
  BY <1>1, OrderedAlways, PTL

\* A deletion, migration or creation that reports failure leaves everything to
\* be found as it was before it began.
THEOREM RefusedChangesNothingTheorem == Spec => []RefusedChangesNothing
<1>1. Ordered => RefusedChangesNothing
  <2> SUFFICES ASSUME Ordered, Without(Ownerless \cup {"unlisted", "snapshot"}), Free, task.refused, task.kind # "select"
               PROVE  Found = task.from
    BY DEF RefusedChangesNothing
  <2>1. Without(Ownerless) /\ Without({"unlisted", "snapshot"})
    BY DEF Without
  <2>2. RefusedSound /\ up /\ At("idle")
    BY <2>1, SureAndFree DEF InOrder
  <2> QED
    BY <2>1, <2>2 DEF RefusedSound
<1> QED
  BY <1>1, OrderedAlways, PTL

-----------------------------------------------------------------------------
\* The next layer: what was last saved is where it can be found again.
Certain == Without(Ownerless \cup {"undo", "orphan", "torn"})

\* A file has what was last saved, or the game's own file has the objects.
LEMMA NewestOf ==
    ASSUME NEW f, Newest(f), NEW p \in Part, saved[p] # Nothing
    PROVE  saved[p] = f[p] \/ (p = "obj" /\ saved[p] = runtime)
BY DEF Newest

\* While the files of the character are moved by a deletion.
LEMMA StoredDeleting ==
    ASSUME InOrder', Now'[1] \in {"stage", "unlist", "restore"}, Newest(task.from.native)'
    PROVE  Stored'
<1>1. DeletingSound'
  BY DEF InOrder
<1>2. /\ listed' /\ legacy'["char"] = None /\ task'.from.runtime = runtime'
      /\ \A p \in Part : task'.from.native[p] \in {pending'[p], native'[p]}
  BY <1>1 DEF DeletingSound, AtAny
<1>3. ASSUME NEW p \in Part, saved'[p] # Nothing
      PROVE  saved'[p] \in {native'[p], legacy'[p], pending'[p]} \cup (IF p = "obj" THEN {runtime'} ELSE {})
  BY <1>2, <1>3 DEF Newest
<1>4. NothingLost'
  BY <1>3 DEF NothingLost
<1> QED
  BY <1>2, <1>4 DEF Stored, AtAny, At, Migrates, Creates

\* While a migration has not cleaned up or opened what it wrote.
LEMMA StoredMigrating ==
    ASSUME TypeOK', InOrder', Migrates', saved' = task'.from.legacy,
           legacy'["char"] # None => At("unretire")' \/ saved' = legacy'
    PROVE  Stored'
<1>1. MigratingSound' /\ "char" \in Part /\ saved' \in [Part -> Age]
  BY Befores DEF InOrder, TypeOK
<1>2. ~ AtAny({"stage", "unlist", "restore", "clean", "drop", "save"})' /\ ~ Creates'
  BY DEF Migrates, Creates, AtAny, At
<1>3. At("hydrate")' => legacy'["char"] # None
  BY <1>1 DEF MigratingSound
<1>4. native'["char"] # None \/ legacy'["char"] # None
  <2>1. task'.from.legacy["char"] # None
    BY <1>1 DEF MigratingSound
  <2>2. CASE At("hydrate")'
    BY <1>3, <2>2
  <2>3. CASE At("unretire")'
    BY <1>1, <2>1, <2>3 DEF MigratingSound
  <2>4. CASE AtAny({"retire", "snapshot", "list"})'
    BY <1>1, <2>1, <2>4 DEF MigratingSound, Hydrated
  <2> QED
    BY <2>2, <2>3, <2>4 DEF Migrates, AtAny, At
<1>5. AtAny({"retire", "snapshot", "list"})' => Newest(native)'
  <2> SUFFICES ASSUME AtAny({"retire", "snapshot", "list"})' PROVE Newest(native)'
    OBVIOUS
  <2>1. \A p \in Part : native'[p] = Hydrated(task'.from.legacy[p])
    BY <1>1 DEF MigratingSound
  <2>2. \A p \in Part : task'.from.legacy[p] \in Age
    BY <1>1
  <2>3. \A p \in Part : saved'[p] = native'[p]
    BY <2>1, <2>2, Ages DEF Hydrated
  <2> QED
    BY <2>3 DEF Newest
<1>6. Migrates' => At("hydrate")' \/ At("unretire")' \/ AtAny({"retire", "snapshot", "list"})'
  BY DEF Migrates, AtAny, At
<1> QED
  BY <1>2, <1>3, <1>4, <1>5, <1>6 DEF Stored, AtAny, At

\* Where the newest is in the account's files.
LEMMA StoredNative ==
    ASSUME native'["char"] # None, legacy'["char"] = None, listed' \/ "snapshot" \notin odd' => Newest(native)',
           Now'[1] \in {"idle", "open", "clear", "login", "save", "quit", "leave"},
           Now'[1] = "save" /\ Now'[2] = "mirror" => saved'["obj"] = runtime'
    PROVE  Stored'
BY DEF Stored, AtAny, At, Migrates, Creates

\* Where nothing is saved.
LEMMA StoredGone ==
    ASSUME \A p \in Part : saved'[p] = Nothing, legacy'["char"] = None, Now'[1] \in {"idle", "drop", "create"}
    PROVE  Stored'
<1>1. NothingLost'
  BY DEF NothingLost
<1>2. \A f : Newest(f)'
  BY DEF Newest
<1> QED
  BY <1>1, <1>2 DEF Stored, AtAny, At, Migrates, Creates

\* What the last step of an undone deletion leaves.
LEMMA RestoredAll ==
    ASSUME Typed, InOrder, PutBack, Sure', Now[2] = "char"
    PROVE  native' = task.from.native /\ task.from.native["char"] # None /\ legacy'["char"] = None /\ listed'
<1>1. Doing("restore") /\ Advance /\ UNCHANGED <<listed, legacy>> /\ up /\ up'
  BY DEF PutBack, Doing, memory
<1>2. TypeOK /\ Planned /\ DeletingSound
  BY DEF Typed, InOrder
<1>3. Now[1] = "restore" /\ Subject = Now[2] /\ Now[2] \in Part
  BY <1>1, <1>2, RestoreFlow
<1>4. /\ native \in File /\ pending \in File /\ listed /\ legacy["char"] = None
      /\ task.from \in Contents /\ task.from.native["char"] # None
      /\ \A p \in Part : task.from.native[p] = IF p \in Aside THEN pending[p] ELSE native[p]
      /\ Aside = task.moved \cap {"char"}
  BY <1>2, <1>3, Befores DEF DeletingSound, AtAny, At, Aside, TypeOK
<1>5. \/ "char" \in task.moved /\ native' = [native EXCEPT !["char"] = pending["char"]]
      \/ "char" \notin task.moved /\ UNCHANGED native
  BY <1>3 DEF PutBack, Mark, MarkAll, Sure, Without
<1>6. native' \in File /\ native'["char"] = task.from.native["char"] /\ native'["obj"] = task.from.native["obj"] /\ native'["exp"] = task.from.native["exp"]
  <2>1. CASE "char" \in task.moved /\ native' = [native EXCEPT !["char"] = pending["char"]]
    <3>1. "char" \in Part /\ "obj" \in Part /\ "exp" \in Part /\ Aside = {"char"}
      BY <1>4, <2>1, Befores
    <3>2. native'["char"] = pending["char"] /\ native'["obj"] = native["obj"] /\ native'["exp"] = native["exp"]
      BY <1>4, <2>1, <3>1, Put
    <3>3. native' \in File
      <4>1. pending["char"] \in Age \cup {None}
        BY <1>4, <3>1, Files
      <4> QED
        BY <1>4, <2>1, <3>1, <4>1, Files
    <3> QED
      BY <1>4, <3>1, <3>2, <3>3
  <2>2. CASE "char" \notin task.moved /\ UNCHANGED native
    BY <1>4, <2>2, Befores
  <2> QED
    BY <1>5, <2>1, <2>2
<1>7. task.from.native \in File
  BY <1>4 DEF Contents
<1>8. native' = task.from.native
  BY <1>6, <1>7, SameFile, Befores
<1> QED
  BY <1>1, <1>4, <1>8

\* A step that changes neither the files nor what was saved, outside the
\* procedures that move files.
LEMMA StoredSame ==
    ASSUME Stored, UNCHANGED <<listed, native, legacy, pending, runtime, saved>>, odd \subseteq odd',
           Now[1] \in {"idle", "open", "clear", "login", "save", "quit", "leave"},
           Now'[1] \in {"idle", "open", "clear", "login", "save", "quit", "leave"},
           Now'[1] = "save" => Now'[2] # "mirror"
    PROVE  Stored'
<1>1. NothingLost => NothingLost'
  BY DEF NothingLost, Without
<1>2. Newest(native)' = Newest(native)
  BY DEF Newest
<1>3. "snapshot" \notin odd' => "snapshot" \notin odd
  OBVIOUS
<1>4. legacy["char"] # None => saved = legacy
  BY DEF Stored, At
<1>5. (listed \/ "snapshot" \notin odd) /\ legacy["char"] = None /\ native["char"] # None => Newest(native)
  BY DEF Stored, AtAny
<1>6. "snapshot" \notin odd =>
            /\ ~ listed /\ legacy["char"] = None /\ native["char"] = None => \A p \in Part : saved[p] = Nothing
            /\ listed /\ legacy["char"] = None /\ native["char"] = None => NothingLost
  BY DEF Stored
<1>7. ~ Creates' /\ ~ Migrates' /\ ~ At("clean")' /\ ~ AtAny({"stage", "unlist", "restore"})' /\ ~ At("drop")' /\ ~ (At("save")' /\ Now'[2] = "mirror")
  BY DEF Creates, Migrates, AtAny, At
<1> QED
  BY <1>1, <1>2, <1>3, <1>4, <1>5, <1>6, <1>7 DEF Stored

LEMMA DeletionStored ==
    ASSUME Typed, InOrder, Stored, InOrder', Certain', Stage \/ PutBack \/ Unlist \/ Drop
    PROVE  Stored'
<1>1. TypeOK /\ Planned
  BY DEF Typed
<1>2. CASE Stage
  <2>1. Doing("stage") /\ up /\ up' /\ saved' = saved /\ runtime' = runtime
    BY <1>2 DEF Stage, Doing, memory, ghost, disk
  <2>2. Now[1] = "stage" /\ task'.from = task.from /\ Now'[1] \in {"stage", "unlist", "restore"}
    BY <1>1, <1>2, <2>1, StageFlow DEF Stage, Onward, SameProcedure, Refused
  <2>3. Newest(task.from.native)
    BY <2>2 DEF Stored, AtAny
  <2>4. Newest(task.from.native)'
    BY <2>1, <2>2, <2>3 DEF Newest
  <2> QED
    BY <2>2, <2>4, StoredDeleting
<1>3. CASE PutBack
  <2>1. Doing("restore") /\ Advance /\ up /\ up' /\ saved' = saved /\ runtime' = runtime
    BY <1>3 DEF PutBack, Doing, memory, ghost
  <2>2. Now[1] = "restore" /\ task'.from = task.from /\ Now'[1] \in {"idle", "restore"} /\ Now[2] \in Part /\ (Now'[1] = "idle" => Now[2] = "char")
    BY <1>1, <2>1, RestoreFlow, Befores DEF SameProcedure, Refused
  <2>3. Newest(task.from.native)
    BY <2>2 DEF Stored, AtAny
  <2>4. Newest(task.from.native)'
    BY <2>1, <2>2, <2>3 DEF Newest
  <2>5. CASE Now'[1] = "restore"
    BY <2>4, <2>5, StoredDeleting
  <2>6. CASE Now'[1] = "idle"
    <3>1. Sure'
      BY DEF Sure, Certain, Without
    <3>2. native' = task.from.native /\ task.from.native["char"] # None /\ legacy'["char"] = None
      BY <1>3, <2>2, <2>6, <3>1, RestoredAll
    <3>3. Newest(native)'
      BY <2>2, <2>4, <3>2 DEF Newest
    <3> QED
      BY <2>6, <3>2, <3>3, StoredNative
  <2> QED
    BY <2>2, <2>5, <2>6
<1>4. CASE Unlist
  <2>1. Doing("unlist") /\ up /\ up' /\ runtime' = runtime /\ legacy' = legacy
    BY <1>4 DEF Unlist, Doing, memory, disk, Forget
  <2>2. Now[1] = "unlist" /\ (Advance => Now' = <<"drop", "char">>) /\ (Unstage => Refused /\ Now' = <<"restore", "exp">>)
    BY <1>1, <2>1, UnlistFlow
  <2>3. legacy["char"] = None /\ Newest(task.from.native)
    BY <2>2 DEF InOrder, DeletingSound, Stored, AtAny
  <2>4. CASE Forget /\ Advance
    <3>1. \A p \in Part : saved'[p] = Nothing
      BY <2>4 DEF Forget
    <3> QED
      BY <2>1, <2>2, <2>3, <2>4, <3>1, StoredGone
  <2>5. CASE Unstage /\ UNCHANGED ghost
    <3>1. Now' = <<"restore", "exp">> /\ task'.from = task.from /\ saved' = saved
      BY <2>2, <2>5 DEF Refused, SameProcedure, ghost
    <3>2. Newest(task.from.native)'
      BY <2>1, <2>3, <3>1 DEF Newest
    <3> QED
      BY <3>1, <3>2, StoredDeleting
  <2> QED
    BY <1>4, <2>4, <2>5 DEF Unlist
<1>5. CASE Drop
  <2>1. Doing("drop") /\ Advance /\ up /\ up' /\ saved' = saved /\ UNCHANGED <<listed, native, legacy, runtime, odd>>
    BY <1>5 DEF Drop, Doing, memory, ghost
  <2>2. Now[1] = "drop" /\ Now'[1] \in {"drop", "idle"}
    BY <1>1, <2>1, DropFlow DEF Onward
  <2>3. (\A p \in Part : saved'[p] = Nothing) /\ (legacy'["char"] # None => saved' = legacy')
    BY <2>1, <2>2 DEF Stored, At
  <2>4. NothingLost'
    BY <2>3 DEF NothingLost
  <2>5. Newest(native)'
    BY <2>3 DEF Newest
  <2> QED
    BY <2>2, <2>3, <2>4, <2>5 DEF Stored, AtAny, At, Migrates, Creates
<1> QED
  BY <1>2, <1>3, <1>4, <1>5

\* What the last step that undoes a migration leaves.
LEMMA UnretiredAll ==
    ASSUME Typed, InOrder, Unretire, Sure', Now[2] = "exp"
    PROVE  legacy' = task.from.legacy
<1>1. Doing("unretire") /\ Advance /\ UNCHANGED listed /\ up /\ up'
  BY DEF Unretire, Doing, memory
<1>2. TypeOK /\ Planned /\ MigratingSound
  BY DEF Typed, InOrder
<1>3. Now[1] = "unretire" /\ Subject = "exp"
  BY <1>1, <1>2, UnretireFlow
<1>4. /\ legacy \in File /\ native \in File /\ task.from \in Contents
      /\ \A p \in Part : task.from.legacy[p] = IF p \in task.moved \ {"char", "obj"} THEN native[p] ELSE legacy[p]
  BY <1>2, <1>3, Befores DEF MigratingSound, Migrates, AtAny, At, TypeOK
<1>5. \/ "exp" \in task.moved /\ legacy' = [legacy EXCEPT !["exp"] = native["exp"]]
      \/ "exp" \notin task.moved /\ UNCHANGED legacy
  BY <1>3 DEF Unretire, Mark, MarkAll, Sure, Without
<1>6. "char" \in Part /\ "obj" \in Part /\ "exp" \in Part
  BY Befores
<1>7. legacy' \in File
  <2>1. native["exp"] \in Age \cup {None}
    BY <1>4, <1>6, Files
  <2> QED
    BY <1>4, <1>5, <1>6, <2>1, Files
<1>8. legacy'["char"] = task.from.legacy["char"] /\ legacy'["obj"] = task.from.legacy["obj"] /\ legacy'["exp"] = task.from.legacy["exp"]
  <2>1. CASE "exp" \in task.moved /\ legacy' = [legacy EXCEPT !["exp"] = native["exp"]]
    <3>1. legacy'["exp"] = native["exp"] /\ legacy'["char"] = legacy["char"] /\ legacy'["obj"] = legacy["obj"]
      BY <1>4, <1>6, <2>1, Put
    <3> QED
      BY <1>4, <1>6, <2>1, <3>1
  <2>2. CASE "exp" \notin task.moved /\ UNCHANGED legacy
    BY <1>4, <1>6, <2>2
  <2> QED
    BY <1>5, <2>1, <2>2
<1>9. task.from.legacy \in File
  BY <1>4 DEF Contents
<1> QED
  BY <1>7, <1>8, <1>9, SameFile, Befores

\* What a migration wrote is the newest, once it is all written.
LEMMA HydratedNewest ==
    ASSUME Typed, InOrder, Stored, AtAny({"retire", "snapshot"}) \/ (At("list") /\ task.kind = "link")
    PROVE  Newest(native) /\ native["char"] # None
<1>1. HalfMigrated /\ native["char"] # None /\ TypeOK
  BY Halfway DEF Typed
<1>2. saved = task.from.legacy
  BY DEF Stored, Migrates, AtAny, At
<1>3. \A p \in Part : saved[p] \in Age
  BY <1>1 DEF TypeOK
<1>4. \A p \in Part : saved[p] = native[p]
  BY <1>1, <1>2, <1>3, Ages DEF HalfMigrated, Hydrated
<1> QED
  BY <1>1, <1>4 DEF Newest

LEMMA MigrationStored ==
    ASSUME Typed, InOrder, Stored, Typed', InOrder', Certain', Hydrate \/ Retire \/ RetireSnapshot \/ Unretire \/ Clean
    PROVE  Stored'
<1>1. TypeOK /\ Planned /\ TypeOK' /\ Sure'
  BY DEF Typed, Sure, Certain, Without
<1>2. CASE Hydrate
  <2>1. Doing("hydrate") /\ up /\ up' /\ UNCHANGED <<saved, legacy, listed>>
    BY <1>2 DEF Hydrate, Doing, memory, ghost
  <2>2. /\ Now[1] = "hydrate" /\ Now[2] \in Part
        /\ Advance => SameProcedure /\ Onward("hydrate", <<"retire", "char">>)
        /\ FailWith(<<>>) => Refused /\ Now' = <<"idle", "all">>
        /\ CleanUp => Refused /\ Now' = <<"unretire", "char">>
    BY <1>1, <2>1, HydrateFlow
  <2>3. task'.from = task.from /\ Now'[1] \in {"hydrate", "retire", "unretire", "idle"}
    BY <1>2, <2>2 DEF Hydrate, Refused, SameProcedure, Onward
  <2>4. saved = task.from.legacy /\ saved = legacy /\ legacy["char"] # None
    BY <2>2 DEF InOrder, MigratingSound, Stored, Migrates, AtAny, At
  <2>5. CASE Now'[1] # "idle"
    <3>1. Migrates'
      BY <2>3, <2>5 DEF Migrates, AtAny
    <3> QED
      BY <1>1, <2>1, <2>3, <2>4, <3>1, StoredMigrating
  <2>6. CASE Now'[1] = "idle"
    BY <2>1, <2>4, <2>6 DEF Stored, AtAny, At, Migrates, Creates
  <2> QED
    BY <2>5, <2>6
<1>3. CASE Retire
  <2>1. Doing("retire") /\ up /\ up' /\ UNCHANGED <<saved, listed>>
    BY <1>3 DEF Retire, Doing, memory, ghost
  <2>2. /\ Now[1] = "retire" /\ Subject = Now[2] /\ Now[2] \in Part
        /\ Advance \/ AdvanceMoving(Subject) => SameProcedure /\ Onward("retire", <<"snapshot", "all">>)
        /\ CleanUp => Refused /\ Now' = <<"unretire", "char">>
    BY <1>1, <2>1, RetireFlow
  <2>3. task'.from = task.from /\ Now'[1] \in {"retire", "snapshot", "unretire"}
    BY <1>3, <2>2 DEF Retire, Refused, SameProcedure, Onward
  <2>4. saved' = task'.from.legacy /\ Migrates'
    BY <2>1, <2>2, <2>3 DEF Stored, Migrates, AtAny
  <2>5. legacy'["char"] = None \/ At("unretire")'
    <3>1. CASE CleanUp
      BY <2>2, <3>1 DEF At
    <3>2. CASE legacy' = [legacy EXCEPT ![Now[2]] = None]
      <4>1. legacy \in File /\ (Now[2] # "char" => legacy["char"] = None)
        BY <2>2, Halfway, Befores DEF HalfMigrated, Retired, AtAny, At
      <4> QED
        BY <2>2, <3>2, <4>1, Put, Befores
    <3> QED
      BY <1>3, <2>2, <3>1, <3>2 DEF Retire
  <2> QED
    BY <1>1, <2>4, <2>5, StoredMigrating
<1>4. CASE RetireSnapshot
  <2>1. Doing("snapshot") /\ up /\ up' /\ UNCHANGED <<saved, listed, native, legacy, runtime>>
    BY <1>4 DEF RetireSnapshot, Doing, memory, ghost, disk
  <2>2. /\ Now[1] = "snapshot" /\ task.kind \in {"link", "select"}
        /\ Advance => /\ Now' = IF task.kind = "select" THEN <<"open", "all">> ELSE IF listed THEN <<"idle", "all">> ELSE <<"list", "all">>
                      /\ Now'[1] # "idle" => SameProcedure /\ task'.moved = task.moved
        /\ FailWith(Each("clean", <<>>)) => Refused /\ Now' = <<"clean", "char">>
    BY <1>1, <2>1, SnapshotFlow
  <2>3. Newest(native) /\ native["char"] # None /\ legacy["char"] = None
    BY <2>2, HydratedNewest, Halfway, Befores DEF AtAny, At, HalfMigrated, Retired
  <2>4. Newest(native)'
    BY <2>1, <2>3 DEF Newest
  <2>5. CASE FailWith(Each("clean", <<>>)) /\ Mark("snapshot")
    <3>1. Now' = <<"clean", "char">> /\ "snapshot" \in odd'
      BY <2>2, <2>5 DEF Mark, MarkAll
    <3> QED
      BY <2>1, <2>3, <3>1 DEF Stored, AtAny, At, Migrates, Creates
  <2>6. CASE Advance /\ Now'[1] \in {"open", "idle"}
    BY <2>1, <2>3, <2>4, <2>6, StoredNative
  <2>7. CASE Advance /\ Now' = <<"list", "all">>
    <3>1. SameProcedure /\ task.kind = "link"
      BY <2>2, <2>7
    <3>2. Migrates' /\ saved' = task'.from.legacy
      BY <2>1, <2>2, <2>7, <3>1 DEF Stored, Migrates, AtAny, At, SameProcedure
    <3> QED
      BY <1>1, <2>1, <2>3, <3>2, StoredMigrating
  <2> QED
    BY <1>4, <2>2, <2>5, <2>6, <2>7 DEF RetireSnapshot
<1>5. CASE Unretire
  <2>1. Doing("unretire") /\ Advance /\ up /\ up' /\ UNCHANGED <<saved, listed>>
    BY <1>5 DEF Unretire, Doing, memory, ghost
  <2>2. Now[1] = "unretire" /\ Now[2] \in Part /\ task'.from = task.from /\ Onward("unretire", <<"clean", "char">>)
    BY <1>1, <2>1, UnretireFlow DEF Refused, SameProcedure
  <2>3. saved' = task'.from.legacy
    BY <2>1, <2>2 DEF Stored, Migrates, AtAny
  <2>4. CASE Now[2] # "exp"
    <3>1. Now'[1] = "unretire"
      BY <2>2, <2>4, Befores DEF Onward
    <3> QED
      BY <1>1, <2>3, <3>1, StoredMigrating DEF Migrates, AtAny, At
  <2>5. CASE Now[2] = "exp"
    <3>1. Now' = <<"clean", "char">>
      BY <2>2, <2>5 DEF Onward
    <3>2. legacy' = task.from.legacy /\ legacy'["char"] # None /\ saved' = legacy'
      BY <1>1, <1>5, <2>2, <2>3, <2>5, UnretiredAll DEF InOrder, MigratingSound, Migrates, AtAny
    <3> QED
      BY <3>1, <3>2 DEF Stored, AtAny, At, Migrates, Creates
  <2> QED
    BY <2>4, <2>5
<1>6. CASE Clean
  <2>1. Doing("clean") /\ Advance /\ up /\ up' /\ UNCHANGED <<saved, legacy, listed>>
    BY <1>6 DEF Clean, Doing, memory, ghost
  <2>2. Now[1] = "clean" /\ Subject = Now[2] /\ Now[2] \in Part /\ Now'[1] \in {"clean", "idle"}
    BY <1>1, <2>1, CleanFlow DEF Onward
  <2>3. native' = [native EXCEPT ![Now[2]] = None] /\ odd' = odd
    BY <1>1, <1>6, <2>2 DEF Clean, Mark, MarkAll, Sure, Without
  <2>4. native'["char"] = None
    <3>1. native \in File /\ (Now[2] # "char" => native["char"] = None)
      BY <1>1, <2>2 DEF InOrder, CleaningSound, At, TypeOK
    <3> QED
      BY <2>2, <2>3, <3>1, Put, Befores
  <2>5. "snapshot" \notin odd => legacy["char"] # None /\ saved = legacy
    BY <2>2 DEF InOrder, CleaningSound, Stored, At
  <2>6. legacy["char"] # None => saved = legacy
    BY <2>2 DEF Stored, At
  <2> QED
    BY <2>1, <2>2, <2>3, <2>4, <2>5, <2>6 DEF Stored, AtAny, At, Migrates, Creates
<1> QED
  BY <1>2, <1>3, <1>4, <1>5, <1>6

LEMMA SavePlayer ==
    ASSUME TypeOK, Planned, SaveChar \/ SaveRuntime \/ SaveMirror
    PROVE  player # None /\ Now[1] = "save"
<1>1. Doing("save")
  BY DEF SaveChar, SaveRuntime, SaveMirror
<1>2. ~ Idle /\ Now[1] = "save"
  BY <1>1, DoingNow
<1>3. Saving
  BY <1>2, Place
<1> QED
  BY <1>2, <1>3 DEF Saving

\* An account-native file is the newest of a listed character, outside the
\* procedures that move files.
LEMMA NativeNewest ==
    ASSUME Stored, listed \/ "snapshot" \notin odd, legacy["char"] = None, native["char"] # None,
           Now[1] \in {"idle", "open", "clear", "login", "save", "quit", "leave"}
    PROVE  Newest(native)
BY DEF Stored, AtAny

LEMMA OpeningStored ==
    ASSUME Typed, InOrder, Stored, InOrder', Certain', CreateFile \/ List \/ Open \/ Clear \/ Login
    PROVE  Stored'
<1>1. TypeOK /\ Planned
  BY DEF Typed
<1>2. CASE CreateFile
  <2>1. Doing("create") /\ up /\ UNCHANGED <<listed, legacy, saved>>
    BY <1>2 DEF CreateFile, Doing, ghost
  <2>2. Advance /\ UNCHANGED <<memory, odd>>
    BY <1>2 DEF CreateFile, RollBack, Mark, MarkAll, Certain, Without, Ownerless
  <2>3. up'
    BY <2>1, <2>2 DEF memory
  <2>4. Now[1] = "create" /\ Now[2] \in Part /\ task.kind = "create" /\ SameProcedure /\ Onward("create", <<"list", "all">>)
    BY <1>1, <2>1, <2>2, <2>3, CreateFlow
  <2>5. Now'[1] \in {"create", "list"} /\ task'.kind = "create"
    BY <2>4 DEF Onward, SameProcedure
  <2>6. ~ listed /\ legacy["char"] = None
    BY <2>4 DEF InOrder, CreatingSound, Creates, At
  <2>7. "snapshot" \notin odd => \A p \in Part : saved[p] = Nothing
    BY <2>4, <2>6 DEF Stored, Creates, At
  <2>8. "snapshot" \notin odd' => (\A p \in Part : saved'[p] = Nothing) /\ Newest(native)'
    BY <2>1, <2>2, <2>7 DEF Newest
  <2> QED
    BY <2>1, <2>5, <2>6, <2>8 DEF Stored, AtAny, At, Migrates
<1>3. CASE List
  <2>1. Doing("list") /\ UNCHANGED <<native, legacy, runtime>> /\ up /\ up'
    BY <1>3 DEF List, Doing, memory, RollBack, Mark, MarkAll, Certain, Without, Ownerless
  <2>2. /\ Now = <<"list", "all">> /\ (task.kind = "link" \/ task.kind = "create")
        /\ (Advance => Now' = <<"idle", "all">>) /\ (FailWith(<<>>) => Now' = <<"idle", "all">>)
    BY <1>1, <2>1, ListFlow
  <2>3. CASE task.kind = "create"
    <3>1. saved' = [char |-> made, obj |-> Nothing, exp |-> made] /\ Advance
      BY <1>3, <2>3 DEF List, RollBack, Mark, MarkAll, Certain, Without, Ownerless
    <3>2. legacy["char"] = None /\ native["char"] = made /\ native["obj"] = Nothing /\ native["exp"] = made /\ made # None
      BY <1>1, <2>2, <2>3, Ages DEF InOrder, CreatingSound, Creates, At, TypeOK
    <3>3. Newest(native)'
      BY <2>1, <3>1, <3>2, Befores DEF Newest
    <3> QED
      BY <2>1, <2>2, <3>1, <3>2, <3>3, StoredNative
  <2>4. CASE task.kind = "link"
    <3>1. Newest(native) /\ native["char"] # None /\ legacy["char"] = None
      BY <2>2, <2>4, HydratedNewest, Halfway, Befores DEF AtAny, At, HalfMigrated, Retired
    <3>2. saved' = saved /\ Now' = <<"idle", "all">>
      BY <1>3, <2>2, <2>4 DEF List, ghost
    <3>3. Newest(native)'
      BY <2>1, <3>1, <3>2 DEF Newest
    <3> QED
      BY <2>1, <3>1, <3>2, <3>3, StoredNative
  <2> QED
    BY <2>2, <2>3, <2>4
<1>4. CASE Open \/ Clear \/ Login
  <2>1. /\ Doing("open") \/ Doing("clear") \/ Doing("login")
        /\ up /\ up' /\ UNCHANGED <<listed, native, runtime, saved, odd>>
    BY <1>4 DEF Open, Clear, Login, Doing, disk, memory, ghost
  <2>2. Now[1] \in {"open", "clear", "login"} /\ Now'[1] \in {"idle", "open", "clear", "login"}
    <3>1. CASE Open
      BY <1>1, <2>1, <3>1, OpenFlow DEF Open
    <3>2. CASE Clear
      BY <1>1, <2>1, <3>2, ClearFlow DEF Clear
    <3>3. CASE Login
      BY <1>1, <2>1, <3>3, LoginFlow DEF Login
    <3> QED
      BY <1>4, <3>1, <3>2, <3>3
  <2>3. listed /\ native["char"] # None /\ legacy["char"] = None
    BY <2>2 DEF InOrder, OpeningSound, AtAny
  <2>4. legacy'["char"] = None
    <3>1. CASE Clear
      <4>1. Subject \in Part /\ legacy \in File
        BY <1>1, <2>1, <3>1, ClearFlow, Befores DEF TypeOK, Clear
      <4>2. legacy' = legacy \/ legacy' = [legacy EXCEPT ![Subject] = None]
        BY <3>1 DEF Clear
      <4> QED
        BY <2>3, <4>1, <4>2, Put, Befores
    <3>2. CASE Open \/ Login
      BY <2>3, <3>2 DEF Open, Login, disk
    <3> QED
      BY <1>4, <3>1, <3>2
  <2>5. Newest(native)
    BY <2>2, <2>3, NativeNewest
  <2>6. Newest(native)'
    BY <2>1, <2>5 DEF Newest
  <2> QED
    BY <2>1, <2>2, <2>3, <2>4, <2>6, StoredNative
<1> QED
  BY <1>2, <1>3, <1>4

LEMMA SavingStored ==
    ASSUME Typed, InOrder, Stored, SaveChar \/ SaveRuntime \/ SaveMirror \/ Left
    PROVE  Stored'
<1>1. TypeOK /\ Planned /\ "char" \in Part /\ "obj" \in Part
  BY Befores DEF Typed
<1>2. up /\ up' /\ UNCHANGED listed /\ player # None /\ Now[1] \in {"save", "quit", "leave"}
  <2>1. CASE SaveChar \/ SaveRuntime \/ SaveMirror
    <3>1. up /\ up' /\ UNCHANGED <<listed, player>> /\ Doing("save")
      BY <2>1 DEF SaveChar, SaveRuntime, SaveMirror, Doing, memory
    <3> QED
      BY <1>1, <2>1, <3>1, SavePlayer
  <2>2. CASE Left
    <3>1. Advance /\ UNCHANGED <<listed, up>> /\ up /\ up'
      BY <2>2 DEF Left, Doing, disk
    <3> QED
      BY <1>1, <2>2, <3>1, LeftFlow DEF Left
  <2> QED
    BY <2>1, <2>2
<1>3. listed /\ entry = "native" /\ legacy["char"] = None /\ native["char"] # None
  BY <1>2, InUse DEF Unused, AtAny
<1>4. Newest(native)
  BY <1>2, <1>3, NativeNewest
<1>5. /\ native \in File /\ saved \in [Part -> Age] /\ body.char # None /\ runtime \in Age \cup {None}
  BY <1>1, Ages DEF TypeOK
<1>6. CASE SaveChar
  <2>1. Advance /\ Subject = "char" /\ UNCHANGED <<legacy, runtime, player>> /\ Doing("save")
    BY <1>3, <1>6 DEF SaveChar
  <2>2. Now'[1] \in {"idle", "quit", "leave", "save"} /\ (Now'[1] = "save" => Now'[2] # "mirror")
    BY <1>1, <1>2, <2>1, SaveCharFlow DEF ToRest
  <2>3. Newest(native)' /\ native'["char"] # None
    <3>1. CASE native' = [native EXCEPT !["char"] = body.char] /\ saved' = [saved EXCEPT !["char"] = body.char]
      <4>1. native'["char"] = body.char /\ \A q \in Part : q # "char" => native'[q] = native[q]
        BY <1>1, <1>5, <3>1, Put
      <4>2. saved'["char"] = body.char /\ \A q \in Part : q # "char" => saved'[q] = saved[q]
        BY <1>1, <1>5, <3>1
      <4> QED
        BY <1>4, <1>5, <2>1, <4>1, <4>2 DEF Newest
    <3>2. CASE UNCHANGED <<native, saved>>
      BY <1>3, <1>4, <2>1, <3>2 DEF Newest
    <3> QED
      BY <1>3, <1>6, <3>1, <3>2 DEF SaveChar
  <2> QED
    BY <1>2, <1>3, <2>1, <2>2, <2>3, StoredNative
<1>7. CASE SaveRuntime
  <2>1. Subject = "runtime" /\ UNCHANGED <<legacy, native, player>> /\ Doing("save")
    BY <1>7 DEF SaveRuntime, memory
  <2>2. /\ Now'[1] \in {"idle", "quit", "leave", "save"}
        /\ Now'[1] = "save" /\ Now'[2] = "mirror" => saved'["obj"] = runtime'
        /\ \/ runtime' = body.obj /\ saved' = [saved EXCEPT !["obj"] = body.obj]
           \/ UNCHANGED <<runtime, saved>>
    <3>1. CASE runtime' = body.obj /\ saved' = [saved EXCEPT !["obj"] = body.obj] /\ Advance
      BY <1>1, <1>2, <1>5, <2>1, <3>1, SaveRuntimeFlow
    <3>2. CASE UNCHANGED <<runtime, saved>> /\ Skips
      BY <1>1, <1>2, <2>1, <3>2, SaveRuntimeFlow DEF ToRest
    <3> QED
      BY <1>7, <3>1, <3>2 DEF SaveRuntime, Skips
  <2>3. Newest(native)'
    BY <1>4, <1>5, <2>1, <2>2 DEF Newest
  <2> QED
    BY <1>2, <1>3, <2>1, <2>2, <2>3, StoredNative
<1>8. CASE SaveMirror
  <2>1. Subject = "mirror" /\ UNCHANGED <<legacy, runtime, saved, player>> /\ Doing("save") /\ Advance
    BY <1>8 DEF SaveMirror, memory, ghost
  <2>2. Now = <<"save", "mirror">> /\ Now'[1] \in {"idle", "quit", "leave", "save"} /\ (Now'[1] = "save" => Now'[2] # "mirror")
    BY <1>1, <1>2, <2>1, SaveMirrorFlow DEF ToRest
  <2>3. saved["obj"] = runtime
    BY <2>2 DEF Stored, At
  <2>4. native' = native \/ native' = [native EXCEPT !["obj"] = body.obj]
    BY <1>8 DEF SaveMirror
  <2>5. \A q \in Part : q # "obj" => native'[q] = native[q]
    BY <1>1, <1>5, <2>4, Put
  <2>6. Newest(native)'
    BY <1>4, <2>1, <2>3, <2>5 DEF Newest
  <2>7. native'["char"] # None
    BY <1>1, <1>3, <2>5
  <2> QED
    BY <1>2, <1>3, <2>1, <2>2, <2>6, <2>7, StoredNative
<1>9. CASE Left
  <2>1. Advance /\ UNCHANGED <<legacy, native, runtime, saved>>
    BY <1>9 DEF Left, disk, ghost
  <2>2. Now' = <<"idle", "all">>
    BY <1>1, <1>9, <2>1, LeftFlow DEF Left
  <2>3. Newest(native)'
    BY <1>4, <2>1 DEF Newest
  <2> QED
    BY <1>2, <1>3, <2>1, <2>2, <2>3, StoredNative
<1> QED
  BY <1>6, <1>7, <1>8, <1>9

LEMMA WaitingStored ==
    ASSUME Typed, InOrder, Stored, odd \subseteq odd',
           \/ Play \/ Save \/ Quit \/ Rent \/ Boot
           \/ \E c \in Conn : LeaveMenu(c) \/ Enter(c)
    PROVE  Stored'
<1>1. CASE Play \/ Boot \/ \E c \in Conn : LeaveMenu(c)
  <2>1. UNCHANGED <<listed, native, legacy, pending, runtime, saved>> /\ task' = task /\ Idle
    BY <1>1, FreeNow DEF Play, Boot, LeaveMenu, disk, ghost, Typed, Planned
  <2>2. Now = <<"idle", "all">> /\ Now' = Now
    BY <2>1, Waits DEF Typed
  <2> QED
    BY <2>1, <2>2, StoredSame
<1>2. CASE Save \/ Quit \/ Rent
  <2>1. UNCHANGED <<listed, native, legacy, pending, runtime, saved>>
    BY <1>2, SaveBegins DEF disk, ghost
  <2>2. Now = <<"idle", "all">> /\ Now' \in {<<"save", "char">>, <<"save", "runtime">>}
    BY <1>2, SaveBegins
  <2> QED
    BY <2>1, <2>2, StoredSame
<1>3. ASSUME NEW c \in Conn, Enter(c)
      PROVE  Stored'
  <2>1. UNCHANGED <<listed, native, legacy, pending, runtime, saved>>
    BY <1>3 DEF Enter, disk, ghost
  <2>2. Now = <<"idle", "all">> /\ Now' \in {<<"idle", "all">>, <<"save", "char">>}
    BY <1>3, EnterBegins
  <2> QED
    BY <2>1, <2>2, StoredSame
<1> QED
  BY <1>1, <1>2, <1>3

LEMMA BeginningStored ==
    ASSUME Typed, InOrder, Stored, Typed', InOrder', Certain', odd \subseteq odd',
           \/ AddChar \/ Link \/ Erase \/ EraseLegacy
           \/ \E c \in Conn : Create(c) \/ Select(c) \/ SelfDelete(c)
    PROVE  Stored'
<1>1. CASE AddChar
  <2>1. UNCHANGED <<native, legacy, pending, runtime, saved>> /\ Now = <<"idle", "all">> /\ Now' = <<"idle", "all">>
    BY <1>1, FreeNow, Ends DEF AddChar, ghost
  <2>2. native["char"] = None /\ legacy["char"] # None
    BY <1>1 DEF AddChar, MarkIf, Mark, MarkAll, Certain, Without
  <2>3. saved = legacy
    BY <2>1, <2>2 DEF Stored, At
  <2> QED
    BY <2>1, <2>2, <2>3 DEF Stored, AtAny, At, Migrates, Creates
<1>2. ASSUME NEW kind, NEW c, Begun(kind, c, <<"hydrate", "char">>), Now = <<"idle", "all">>, UNCHANGED <<disk, ghost>>, legacy["char"] # None
      PROVE  Stored'
  <2>1. UNCHANGED <<legacy, saved>> /\ task'.from.legacy = legacy /\ Now' = <<"hydrate", "char">>
    BY <1>2 DEF Begun, Found, disk, ghost
  <2>2. saved = legacy
    BY <1>2 DEF Stored, At
  <2> QED
    BY <2>1, <2>2, StoredMigrating DEF Migrates, AtAny, Typed
<1>3. CASE Link
  BY <1>2, <1>3, LinkBegins
<1>4. ASSUME NEW c \in Conn, Select(c)
      PROVE  Stored'
  <2>1. CASE Begun("select", c, <<"hydrate", "char">>) /\ legacy["char"] # None
    BY <1>2, <1>4, <2>1, SelectBegins
  <2>2. CASE Begun("select", c, <<"open", "all">>)
    <3>1. UNCHANGED <<listed, native, legacy, pending, runtime, saved>> /\ Now = <<"idle", "all">> /\ Now' = <<"open", "all">>
      BY <1>4, <2>2, SelectBegins DEF Begun, disk, ghost
    <3> QED
      BY <3>1, StoredSame
  <2> QED
    BY <1>4, <2>1, <2>2, SelectBegins
<1>5. ASSUME NEW kind, NEW c, Begun(kind, c, <<"stage", "char">>), Now = <<"idle", "all">>, UNCHANGED <<disk, ghost>>,
             listed, native["char"] # None, legacy["char"] = None
      PROVE  Stored'
  <2>1. UNCHANGED <<runtime, saved>> /\ task'.from.native = native /\ Now' = <<"stage", "char">>
    BY <1>5 DEF Begun, Found, disk, ghost
  <2>2. Newest(native)
    BY <1>5, NativeNewest
  <2>3. Newest(task.from.native)'
    BY <2>1, <2>2 DEF Newest
  <2> QED
    BY <2>1, <2>3, StoredDeleting
<1>6. ASSUME NEW c \in Conn, SelfDelete(c)
      PROVE  Stored'
  <2>1. ~ Unused /\ Now = <<"idle", "all">> /\ UNCHANGED <<disk, ghost>> /\ Begun("delete", c, <<"stage", "char">>)
    BY <1>6, SelfDeleteBegins DEF Unused
  <2>2. listed /\ native["char"] # None /\ legacy["char"] = None
    BY <2>1, InUse DEF AtAny
  <2> QED
    BY <1>5, <2>1, <2>2
<1>7. CASE Erase
  <2>1. listed /\ native["char"] # None /\ legacy["char"] = None /\ Now = <<"idle", "all">> /\ UNCHANGED <<disk, ghost>>
        /\ Begun("erase", None, <<"stage", "char">>)
    BY <1>7, EraseBegins DEF Certain, Without, Ownerless
  <2> QED
    BY <1>5, <2>1
<1>8. CASE EraseLegacy
  <2>1. (\A p \in Part : saved'[p] = Nothing) /\ Now' = <<"idle", "all">>
    BY <1>8, Ends DEF EraseLegacy
  <2>2. legacy'["char"] = None
    <3>1. legacy' = NoFile \/ legacy' = [NoFile EXCEPT !["char"] = None]
      BY <1>8 DEF EraseLegacy, MarkIf, Mark, MarkAll, Certain, Without, Ownerless
    <3> QED
      BY <3>1, Befores DEF NoFile
  <2> QED
    BY <2>1, <2>2, StoredGone
<1>9. ASSUME NEW c \in Conn, Create(c)
      PROVE  Stored'
  <2>1. /\ Now = <<"idle", "all">> /\ UNCHANGED <<listed, native, legacy, saved>> /\ ~ listed /\ Now' = <<"create", "char">> /\ native["char"] = None
    BY <1>9, CreateBegins DEF Begun, disk, Certain, Without
  <2>2. legacy["char"] = None
    BY <1>9, <2>1, CreateBegins DEF InOrder, Accounts
  <2>3. "snapshot" \notin odd' => \A p \in Part : saved'[p] = Nothing
    BY <2>1, <2>2 DEF Stored
  <2> QED
    BY <2>1, <2>2, <2>3 DEF Stored, AtAny, At, Migrates
<1> QED
  BY <1>1, <1>3, <1>4, <1>6, <1>7, <1>8, <1>9

\* A crash that is not in the middle of undoing something.
LEMMA NothingUndone ==
    ASSUME Typed, InOrder, Crash, Certain'
    PROVE  Now[1] \notin {"restore", "unretire", "clean"}
<1>1. TypeOK /\ Planned /\ odd' = odd \cup CutShort /\ "torn" \notin odd'
  BY DEF Crash, Typed, Certain, Without
<1>2. ASSUME Now[1] \in {"restore", "unretire", "clean"}
      PROVE  ~ Idle /\ task.refused /\ task.kind \notin {"save", "create"}
  <2>1. ~ Idle
    BY <1>2 DEF Now
  <2>2. CASE Now[1] = "restore"
    BY <1>1, <2>1, <2>2, Place, DeletingAt DEF Deleting, At
  <2>3. CASE Now[1] = "unretire"
    BY <1>1, <2>1, <2>3, Place, UndoingAt DEF Undoing, At, AtAny
  <2>4. CASE Now[1] = "clean"
    <3>1. task.kind # "create"
      BY <2>4 DEF InOrder, CleaningSound, At
    <3> QED
      BY <1>1, <2>1, <2>4, <3>1, Place DEF Undoing
  <2> QED
    BY <1>2, <2>1, <2>2, <2>3, <2>4
<1> QED
  BY <1>1, <1>2 DEF CutShort

\* A deletion that has not set the character file aside has not begun.
LEMMA NothingAside ==
    ASSUME InOrder, Now[1] \in {"stage", "unlist"}, native["char"] # None
    PROVE  \A p \in Part : task.from.native[p] = native[p]
<1>1. DeletingSound
  BY DEF InOrder
<1>2. At("stage") => Before(Now[2]) = {} \/ native["char"] = None
  BY <1>1 DEF DeletingSound, AtAny, At, Before
<1>3. At("unlist") => native["char"] = None
  BY <1>1, Befores DEF DeletingSound, AtAny, At, NoFile
<1>4. At("stage") /\ task.moved = {}
  BY <1>1, <1>2, <1>3 DEF DeletingSound, AtAny, At
<1>5. Aside = {}
  BY <1>4 DEF Aside
<1> QED
  BY <1>1, <1>5 DEF DeletingSound, AtAny

\* A crash of what was not yet refused: the files are still where they were.
LEMMA CrashStored ==
    ASSUME Typed, InOrder, Stored, Crash, Certain'
    PROVE  Stored'
<1>1. UNCHANGED <<listed, native, legacy, pending, runtime, saved>> /\ task' = NoTask /\ odd' = odd \cup CutShort
  BY DEF Crash, disk, ghost
<1>2. Now' = <<"idle", "all">> /\ TypeOK /\ Planned /\ odd \subseteq odd' /\ "torn" \notin odd'
  BY <1>1, Ends DEF Typed, Certain, Without
<1>3. Now[1] \notin {"restore", "unretire", "clean"}
  BY NothingUndone
<1>4. legacy["char"] # None => saved = legacy
  BY <1>3 DEF Stored, At
<1>5. (listed \/ "snapshot" \notin odd) /\ legacy["char"] = None /\ native["char"] # None => Newest(native)
  <2>1. CASE Now[1] \notin {"stage", "unlist"}
    BY <1>3, <2>1 DEF Stored, AtAny
  <2>2. CASE Now[1] \in {"stage", "unlist"}
    <3>1. DeletingSound /\ Newest(task.from.native)
      BY <2>2 DEF InOrder, Stored, AtAny
    <3>2. CASE native["char"] # None
      <4>1. \A p \in Part : task.from.native[p] = native[p]
        BY <2>2, <3>2, NothingAside
      <4> QED
        BY <3>1, <4>1 DEF Newest
    <3> QED
      BY <3>2
  <2> QED
    BY <2>1, <2>2
<1>6. Newest(native)' = Newest(native)
  BY <1>1 DEF Newest
<1>7. NothingLost => NothingLost'
  BY <1>1, <1>2 DEF NothingLost, Without
<1>8. "snapshot" \notin odd =>
            /\ ~ listed /\ legacy["char"] = None /\ native["char"] = None => \A p \in Part : saved[p] = Nothing
            /\ listed /\ legacy["char"] = None /\ native["char"] = None => NothingLost
  BY DEF Stored
<1>9. ~ Creates' /\ ~ Migrates' /\ ~ At("clean")' /\ ~ AtAny({"stage", "unlist", "restore"})' /\ ~ At("drop")' /\ ~ At("save")' /\ ("snapshot" \notin odd' => "snapshot" \notin odd)
  BY <1>2 DEF Creates, Migrates, AtAny, At
<1> QED
  BY <1>1, <1>4, <1>5, <1>6, <1>7, <1>8, <1>9 DEF Stored

LEMMA KeptInit == Init => Kept
<1> SUFFICES ASSUME Init PROVE Stored
  BY DEF Kept
<1>1. Now = <<"idle", "all">>
  BY DEF Init, NoTask, Now, Idle
<1>2. CASE legacy = NoFile /\ saved = [p \in Part |-> Nothing]
  <2>1. legacy["char"] = None /\ \A p \in Part : saved[p] = Nothing
    BY <1>2, Befores DEF NoFile
  <2>2. Newest(native) /\ NothingLost
    BY <2>1 DEF Newest, NothingLost
  <2> QED
    BY <1>1, <2>1, <2>2 DEF Stored, AtAny, At, Migrates, Creates
<1>3. CASE legacy = [p \in Part |-> 1] /\ saved = [p \in Part |-> 1]
  <2>1. legacy["char"] # None /\ saved = legacy
    BY <1>3, Ages, Befores
  <2> QED
    BY <1>1, <2>1 DEF Stored, AtAny, At, Migrates, Creates
<1> QED
  BY <1>2, <1>3 DEF Init

LEMMA KeptStutter ==
    ASSUME Kept, UNCHANGED vars
    PROVE  Kept'
<1>1. UNCHANGED <<listed, native, legacy, pending, runtime, entry, menu, held, player, body, up, task, made, saved, buried, odd>>
  BY DEF vars, disk, memory, ghost
<1> QED
  BY <1>1 DEF Kept, Without, Stored, Migrates, Creates, Newest, NothingLost, AtAny, At, Now, Idle

LEMMA KeptStep ==
    ASSUME Typed, Ordered, Kept, Typed', Ordered', [Next]_vars
    PROVE  Kept'
<1>1. SUFFICES ASSUME Next, Certain' PROVE Stored'
  BY KeptStutter DEF Kept, Certain
<1>2. odd \subseteq odd'
  BY <1>1, OddGrows
<1>3. InOrder /\ InOrder' /\ Stored
  BY <1>1, <1>2 DEF Ordered, Kept, Certain, Without
<1>4. CASE TaskStep
  BY <1>1, <1>2, <1>3, <1>4, DeletionStored, MigrationStored, OpeningStored, SavingStored DEF TaskStep
<1>5. CASE AddChar \/ Link \/ Play \/ Save \/ Quit \/ Rent \/ Erase \/ EraseLegacy \/ Crash \/ Boot
  BY <1>1, <1>2, <1>3, <1>5, WaitingStored, BeginningStored, CrashStored
<1>6. ASSUME NEW c \in Conn, Create(c) \/ Select(c) \/ LeaveMenu(c) \/ Enter(c) \/ SelfDelete(c)
      PROVE  Stored'
  BY <1>1, <1>2, <1>3, <1>6, WaitingStored, BeginningStored
<1> QED
  BY <1>1, <1>4, <1>5, <1>6 DEF Next

\* While no undoing is cut short, what was last saved is always where the step
\* that comes next leaves it or takes it from.
THEOREM KeptAlways == Spec => [](Typed /\ Ordered /\ Kept)
<1>1. Init => Typed /\ Ordered /\ Kept
  BY TypedInit, OrderedInit, KeptInit
<1>2. Typed /\ Ordered /\ Kept /\ [Next]_vars => (Typed /\ Ordered /\ Kept)'
  BY TypedStep, OrderedStep, KeptStep
<1> QED
  BY <1>1, <1>2, PTL DEF Spec

\* What was last saved of a character is on the disk, through every failure and
\* crash of every procedure, until its deletion is written.
THEOREM NothingLostTheorem == Spec => []NothingLost
<1>1. Typed /\ Ordered /\ Kept => NothingLost
  <2> SUFFICES ASSUME Typed, Ordered, Kept, Without(Ownerless \cup {"torn", "undo", "orphan", "snapshot"}), NEW p \in Part, saved[p] # Nothing
               PROVE  saved[p] \in {native[p], legacy[p], pending[p]} \cup (IF p = "obj" THEN {runtime} ELSE {})
    BY DEF NothingLost
  <2>1. InOrder /\ Stored /\ "snapshot" \notin odd
    BY DEF Ordered, Kept, Without
  <2>2. CASE legacy["char"] # None /\ ~ At("unretire")
    BY <2>1, <2>2 DEF Stored
  <2>3. CASE At("unretire")
    BY <2>1, <2>3 DEF Stored, InOrder, MigratingSound, Migrates, AtAny, At
  <2>4. CASE legacy["char"] = None /\ native["char"] # None /\ ~ At("unretire")
    <3>1. CASE AtAny({"stage", "unlist", "restore"})
      <4>1. Newest(task.from.native) /\ task.from.native[p] \in {pending[p], native[p]}
        BY <2>1, <3>1 DEF Stored, InOrder, DeletingSound
      <4> QED
        BY <4>1, NewestOf
    <3>2. CASE ~ AtAny({"stage", "unlist", "restore"})
      <4>1. ~ At("clean")
        BY <2>1, <2>4 DEF InOrder, CleaningSound
      <4>2. Newest(native)
        BY <2>1, <2>4, <3>2, <4>1 DEF Stored, AtAny, At
      <4> QED
        BY <4>2, NewestOf
    <3> QED
      BY <3>1, <3>2
  <2>5. CASE legacy["char"] = None /\ native["char"] = None
    BY <2>1, <2>5 DEF Stored, NothingLost
  <2> QED
    BY <2>2, <2>3, <2>4, <2>5
<1> QED
  BY <1>1, KeptAlways, PTL

-----------------------------------------------------------------------------
\* The file a login or a boot would load is there.
Somewhere == (listed /\ native["char"] # None) \/ legacy["char"] # None
Whole == Without(Ownerless \cup {"undo", "orphan", "crash", "unlisted", "snapshot"})

LEMMA FoundAfterTask ==
    ASSUME Typed, InOrder, Stored, Whole', At("idle")', saved'["char"] # Nothing, TaskStep
    PROVE  Somewhere'
<1>1. TypeOK /\ Planned /\ Sure' /\ "char" \in Part /\ "obj" \in Part /\ "exp" \in Part
  BY Befores DEF Typed, Whole, Sure, Without
<1>2. CASE Stage
  <2>1. Doing("stage") /\ up /\ up'
    BY <1>2 DEF Stage, Doing, memory
  <2> QED
    BY <1>1, <1>2, <2>1, StageFlow DEF Stage, Onward, At
<1>3. CASE PutBack
  <2>1. Doing("restore") /\ Advance /\ up /\ up'
    BY <1>3 DEF PutBack, Doing, memory
  <2>2. Now[2] = "char"
    BY <1>1, <2>1, RestoreFlow, Befores DEF At
  <2> QED
    BY <1>1, <1>3, <2>2, RestoredAll DEF Somewhere
<1>4. CASE Unlist
  <2>1. Doing("unlist") /\ up /\ up'
    BY <1>4 DEF Unlist, Doing, memory, Forget
  <2> QED
    BY <1>1, <1>4, <2>1, UnlistFlow DEF Unlist, At
<1>5. CASE Drop
  <2>1. Doing("drop") /\ Advance /\ up /\ up' /\ saved' = saved
    BY <1>5 DEF Drop, Doing, memory, ghost
  <2>2. Now[1] = "drop"
    BY <1>1, <2>1, DropFlow
  <2> QED
    BY <1>1, <2>1, <2>2 DEF Stored, At
<1>6. CASE Hydrate
  <2>1. Doing("hydrate") /\ up /\ up' /\ UNCHANGED <<legacy, listed>>
    BY <1>6 DEF Hydrate, Doing, memory
  <2>2. Now[1] = "hydrate"
    BY <1>1, <2>1, HydrateFlow
  <2> QED
    BY <2>1, <2>2 DEF InOrder, MigratingSound, Migrates, AtAny, At, Somewhere
<1>7. CASE Retire
  <2>1. Doing("retire") /\ up /\ up' /\ UNCHANGED listed
    BY <1>7 DEF Retire, Doing, memory
  <2> QED
    BY <1>1, <1>7, <2>1, RetireFlow DEF Retire, Onward, At
<1>8. CASE RetireSnapshot
  <2>1. Doing("snapshot") /\ up /\ up' /\ UNCHANGED <<listed, native>>
    BY <1>8 DEF RetireSnapshot, Doing, memory, disk
  <2>2. Now[1] = "snapshot" /\ task.kind \in {"link", "select"} /\ listed
    BY <1>1, <1>8, <2>1, SnapshotFlow DEF RetireSnapshot, At
  <2> QED
    BY <2>1, <2>2, Halfway DEF AtAny, At, Somewhere
<1>9. CASE Unretire
  <2>1. Doing("unretire") /\ Advance /\ up /\ up'
    BY <1>9 DEF Unretire, Doing, memory
  <2> QED
    BY <1>1, <2>1, UnretireFlow DEF Onward, At
<1>10. CASE Clean
  <2>1. Doing("clean") /\ Advance /\ up /\ up' /\ UNCHANGED legacy
    BY <1>10 DEF Clean, Doing, memory
  <2>2. Now[1] = "clean"
    BY <1>1, <2>1, CleanFlow
  <2>3. "snapshot" \notin odd
    BY <1>10 DEF Whole, Without, Clean, Mark, MarkAll
  <2> QED
    BY <2>1, <2>2, <2>3 DEF InOrder, CleaningSound, At, Somewhere
<1>11. CASE CreateFile
  <2>1. Doing("create") /\ up /\ Advance /\ up'
    BY <1>11 DEF CreateFile, Doing, memory, RollBack, Mark, MarkAll, Whole, Without, Ownerless
  <2> QED
    BY <1>1, <2>1, CreateFlow DEF Onward, At
<1>12. CASE List
  <2>1. Doing("list") /\ UNCHANGED native /\ up /\ up' /\ listed' = TRUE
    BY <1>12 DEF List, Doing, memory, RollBack, Mark, MarkAll, Whole, Without, Ownerless
  <2>2. Now = <<"list", "all">> /\ (task.kind = "link" \/ task.kind = "create")
    BY <1>1, <2>1, ListFlow
  <2>3. native["char"] # None
    <3>1. CASE task.kind = "create"
      BY <1>1, <2>2, <3>1, Ages DEF InOrder, CreatingSound, Creates, At, TypeOK
    <3>2. CASE task.kind = "link"
      BY <2>2, <3>2, Halfway DEF At
    <3> QED
      BY <2>2, <3>1, <3>2
  <2> QED
    BY <2>1, <2>3 DEF Somewhere
<1>13. CASE Open
  <2>1. Doing("open") /\ Advance /\ up /\ up'
    BY <1>13 DEF Open, Doing
  <2> QED
    BY <1>1, <2>1, OpenFlow DEF At
<1>14. CASE Clear \/ Login
  <2>1. (Doing("clear") \/ Doing("login")) /\ up /\ up' /\ UNCHANGED <<listed, native>>
    BY <1>14 DEF Clear, Login, Doing, disk
  <2>2. Now[1] \in {"clear", "login"}
    BY <2>1, DoingNow
  <2> QED
    BY <2>1, <2>2 DEF InOrder, OpeningSound, AtAny, Somewhere
<1>15. CASE SaveChar \/ SaveRuntime \/ SaveMirror
  <2>1. player # None /\ Now[1] = "save"
    BY <1>1, <1>15, SavePlayer
  <2>2. listed /\ entry = "native" /\ native["char"] # None
    BY <2>1, InUse DEF Unused, AtAny
  <2>3. UNCHANGED listed /\ (native' = native \/ native' = [native EXCEPT !["char"] = body.char] \/ native' = [native EXCEPT !["obj"] = body.obj])
    BY <1>15 DEF SaveChar, SaveRuntime, SaveMirror
  <2>4. native \in File /\ body.char # None
    BY <1>1, Ages DEF TypeOK
  <2>5. native'["char"] # None
    <3>1. CASE native' = [native EXCEPT !["char"] = body.char]
      BY <1>1, <2>4, <3>1, Put
    <3>2. CASE native' = [native EXCEPT !["obj"] = body.obj]
      BY <1>1, <2>2, <2>4, <3>2, Put
    <3> QED
      BY <2>2, <2>3, <3>1, <3>2
  <2> QED
    BY <2>2, <2>3, <2>5 DEF Somewhere
<1>16. CASE Left
  <2>1. Advance /\ UNCHANGED <<listed, native>>
    BY <1>16 DEF Left, disk
  <2>2. Now[1] \in {"quit", "leave"} /\ player # None
    BY <1>1, <1>16, <2>1, LeftFlow DEF Left
  <2> QED
    BY <2>1, <2>2, InUse DEF Unused, AtAny, Somewhere
<1> QED
  BY <1>2, <1>3, <1>4, <1>5, <1>6, <1>7, <1>8, <1>9, <1>10, <1>11, <1>12, <1>13, <1>14, <1>15, <1>16 DEF TaskStep

LEMMA SavingNow ==
    ASSUME Saving, ~ Idle
    PROVE  player # None /\ Now[1] \in {"save", "quit", "leave"}
<1>1. PICK rest \in ToLeave : Remains(rest)
  BY SavingAt
<1>2. Now \in {<<"save", "char">>, <<"save", "runtime">>, <<"save", "mirror">>, <<"quit", "all">>, <<"leave", "all">>}
  BY <1>1 DEF Remains
<1> QED
  BY <1>2 DEF Saving

LEMMA FoundAfterCrash ==
    ASSUME Typed, InOrder, Stored, Whole, Crash, Whole', saved'["char"] # Nothing, At("idle") /\ saved["char"] # Nothing => Somewhere
    PROVE  Somewhere'
<1>1. UNCHANGED <<listed, native, legacy, saved>> /\ odd' = odd \cup CutShort /\ TypeOK /\ Planned /\ "char" \in Part
  BY Befores DEF Crash, disk, ghost, Typed
<1>2. Somewhere' = Somewhere
  BY <1>1 DEF Somewhere
<1>3. CASE Idle
  BY <1>1, <1>2, <1>3 DEF At, Now
<1>4. CASE ~ Idle /\ task.kind = "save"
  <2>1. Saving
    BY <1>1, <1>4 DEF Planned, Deleting, Migrating, Undoing, Listing, Opening, Creating
  <2>2. player # None /\ Now[1] \in {"save", "quit", "leave"}
    BY <1>4, <2>1, SavingNow
  <2> QED
    BY <1>2, <2>2, InUse DEF Unused, AtAny, Somewhere
<1>5. CASE ~ Idle /\ task.kind = "create"
  <2>1. Undoing \/ Creating
    BY <1>1, <1>5 DEF Planned, Deleting, Migrating, Listing, Opening, Saving
  <2>2. ~ Undoing
    BY <1>5, UndoingAt DEF InOrder, CleaningSound, At
  <2>3. Creates
    BY <1>5, <2>1, <2>2, CreatingAt DEF Creates, At
  <2>4. ~ listed /\ legacy["char"] = None
    BY <2>3 DEF InOrder, CreatingSound
  <2>5. "snapshot" \notin odd
    BY DEF Whole, Without
  <2> QED
    BY <1>1, <2>3, <2>4, <2>5 DEF Stored
<1>6. Idle \/ task.kind \in {"save", "create"}
  BY <1>1 DEF CutShort, Whole, Without
<1> QED
  BY <1>3, <1>4, <1>5, <1>6

LEMMA FindableStep ==
    ASSUME Typed, Ordered, Kept, Findable, [Next]_vars
    PROVE  Findable'
<1>1. CASE UNCHANGED vars
  <2>1. UNCHANGED <<listed, native, legacy, pending, runtime, task, saved, odd>>
    BY <1>1 DEF vars, disk, memory, ghost
  <2> QED
    BY <2>1 DEF Findable, Without, At, Now, Idle
<1>2. SUFFICES ASSUME Next, Whole', At("idle")', saved'["char"] # Nothing PROVE Somewhere'
  BY <1>1 DEF Findable, Whole, Somewhere
<1>3. odd \subseteq odd'
  BY <1>2, OddGrows
<1>4. Whole
  BY <1>2, <1>3 DEF Whole, Without
<1>5. "torn" \notin odd
  BY <1>4 DEF Typed, Settled, Whole, Without
<1>6. InOrder /\ Stored
  BY <1>4, <1>5 DEF Ordered, Kept, Whole, Without
<1>7. At("idle") /\ saved["char"] # Nothing => Somewhere
  BY <1>4 DEF Findable, Whole, Somewhere
<1>8. CASE TaskStep
  BY <1>2, <1>6, <1>8, FoundAfterTask
<1>9. CASE Crash
  BY <1>2, <1>4, <1>6, <1>7, <1>9, FoundAfterCrash
<1>10. CASE Play \/ Boot \/ \E c \in Conn : LeaveMenu(c) \/ Enter(c)
  <2>1. UNCHANGED <<listed, native, legacy, saved>> /\ Idle
    BY <1>10, FreeNow DEF Play, Boot, LeaveMenu, Enter, disk, ghost, Typed, Planned
  <2> QED
    BY <1>2, <1>7, <2>1 DEF At, Now, Somewhere
<1>11. CASE AddChar
  <2>1. native["char"] = None
    BY <1>2, <1>11 DEF AddChar, MarkIf, Mark, MarkAll, Whole, Without
  <2> QED
    BY <1>11, <2>1 DEF AddChar, Somewhere
<1>12. CASE EraseLegacy
  BY <1>2, <1>12, Befores DEF EraseLegacy
<1>13. CASE Save \/ Quit \/ Rent \/ Link \/ Erase \/ \E c \in Conn : Create(c) \/ Select(c) \/ SelfDelete(c)
  <2>1. CASE Save \/ Quit \/ Rent
    BY <1>2, <2>1, SaveBegins DEF At
  <2>2. CASE Link
    BY <1>2, <2>2, LinkBegins DEF Begun, At
  <2>3. CASE Erase
    BY <1>2, <2>3, EraseBegins DEF Begun, At
  <2>4. ASSUME NEW c \in Conn, Create(c) \/ Select(c) \/ SelfDelete(c)
        PROVE  ~ At("idle")'
    BY <2>4, CreateBegins, SelectBegins, SelfDeleteBegins DEF Begun, At
  <2> QED
    BY <1>2, <1>13, <2>1, <2>2, <2>3, <2>4
<1> QED
  BY <1>2, <1>8, <1>9, <1>10, <1>11, <1>12, <1>13 DEF Next

LEMMA FindableInit == Init => Findable
<1> SUFFICES ASSUME Init, saved["char"] # Nothing PROVE legacy["char"] # None
  BY DEF Findable
<1> QED
  BY Ages, Befores DEF Init

\* Between procedures the character is in a file that is looked for.
THEOREM FindableAlways == Spec => [](Typed /\ Ordered /\ Kept /\ Findable)
<1>1. Init => Typed /\ Ordered /\ Kept /\ Findable
  BY TypedInit, OrderedInit, KeptInit, FindableInit
<1>2. Typed /\ Ordered /\ Kept /\ Findable /\ [Next]_vars => (Typed /\ Ordered /\ Kept /\ Findable)'
  BY TypedStep, OrderedStep, KeptStep, FindableStep
<1> QED
  BY <1>1, <1>2, PTL DEF Spec

\* While the server is up and no procedure was cut short by a crash, the file the
\* next login or boot would load is the one last saved.
THEOREM FindsNewestTheorem == Spec => []FindsNewest
<1>1. Typed /\ Ordered /\ Kept /\ Findable => FindsNewest
  <2> SUFFICES ASSUME Typed, Ordered, Kept, Findable, Without(Ownerless \cup {"crash", "unlisted", "snapshot"}), Free, saved["char"] # Nothing
               PROVE  saved["char"] = IF listed /\ native["char"] # None THEN native["char"] ELSE legacy["char"]
    BY DEF FindsNewest
  <2>1. Whole /\ up /\ Now = <<"idle", "all">>
    BY FreeNow DEF Astray, Whole, Without
  <2>2. "torn" \notin odd
    BY <2>1 DEF Typed, Settled, Whole, Without
  <2>3. InOrder /\ Stored /\ "char" \in Part
    BY <2>1, <2>2, Befores DEF Ordered, Kept, Whole, Without
  <2>4. (listed /\ native["char"] # None) \/ legacy["char"] # None
    BY <2>1 DEF Findable, Whole, At
  <2>5. CASE listed /\ native["char"] # None
    <3>1. legacy["char"] = None
      BY <2>1, <2>3, <2>5 DEF InOrder, Accounts, AtAny
    <3>2. Newest(native)
      BY <2>1, <2>3, <2>5, <3>1, NativeNewest
    <3> QED
      BY <2>3, <2>5, <3>2 DEF Newest
  <2>6. CASE ~ (listed /\ native["char"] # None)
    BY <2>1, <2>3, <2>4, <2>6 DEF Stored, At
  <2> QED
    BY <2>5, <2>6
<1> QED
  BY <1>1, FindableAlways, PTL

-----------------------------------------------------------------------------
\* No character in a file, a menu or the game is newer than what was made last.
LEMMA DatedInit == Init => Dated
<1> SUFFICES ASSUME Init PROVE Dated
  OBVIOUS
<1> QED
  BY Ages, Befores, NoneAssumption DEF Init, Dated, NoFile, NoBody, Nothing

LEMMA DatedStep ==
    ASSUME Typed, Dated, Typed', [Next]_vars
    PROVE  Dated'
<1>1. /\ TypeOK /\ made \in Nat /\ made' \in Nat /\ native \in File /\ legacy \in File /\ pending \in File
      /\ menu \in [Conn -> Age \cup {None}] /\ saved \in [Part -> Age] /\ body \in [char : Age, obj : Age]
      /\ "char" \in Part /\ "obj" \in Part /\ "exp" \in Part /\ None \notin Nat /\ Nothing = 0 /\ Age \subseteq Nat
  BY Ages, Befores DEF Typed, TypeOK, Nothing
<1>2. /\ native["char"] # None => native["char"] <= made
      /\ legacy["char"] # None => legacy["char"] <= made
      /\ pending["char"] # None => pending["char"] <= made
      /\ \A c \in Conn : menu[c] # None => menu[c] <= made
      /\ body.char <= made /\ saved["char"] <= made
  BY DEF Dated
<1>3. SUFFICES /\ native'["char"] # None => native'["char"] <= made'
               /\ legacy'["char"] # None => legacy'["char"] <= made'
               /\ pending'["char"] # None => pending'["char"] <= made'
               /\ \A c \in Conn : menu'[c] # None => menu'[c] <= made'
               /\ body'.char <= made' /\ saved'["char"] <= made'
  BY DEF Dated
<1>4. CASE UNCHANGED vars
  BY <1>2, <1>4 DEF vars, disk, memory, ghost
<1>5. ASSUME Stage \/ PutBack \/ Drop
      PROVE  /\ native'["char"] \in {None, native["char"], pending["char"]} /\ pending'["char"] \in {None, native["char"], pending["char"]}
             /\ UNCHANGED <<legacy, memory, ghost>>
  <2>1. PICK p : p = Subject
    OBVIOUS
  <2>2. /\ UNCHANGED <<legacy, memory, ghost>>
        /\ native' \in {native, [native EXCEPT ![p] = None], [native EXCEPT ![p] = pending[p]]}
        /\ pending' \in {pending, [pending EXCEPT ![p] = None], [pending EXCEPT ![p] = native[p]]}
    BY <1>5, <2>1 DEF Stage, PutBack, Drop, disk
  <2>3. DOMAIN native = Part /\ DOMAIN pending = Part
    BY <1>1 DEF File
  <2>4. CASE p = "char"
    BY <1>1, <2>2, <2>3, <2>4
  <2>5. CASE p # "char"
    BY <1>1, <2>2, <2>3, <2>5
  <2> QED
    BY <2>2, <2>4, <2>5
<1>6. CASE Stage \/ PutBack \/ Drop
  BY <1>2, <1>5, <1>6 DEF memory, ghost
<1>7. CASE Unlist
  <2>1. /\ UNCHANGED <<native, legacy, pending, body, made>>
        /\ \/ UNCHANGED <<menu, saved>>
           \/ menu' = [c \in Conn |-> IF c = task.conn THEN None ELSE menu[c]] /\ saved' = [p \in Part |-> Nothing]
    BY <1>7 DEF Unlist, Forget, disk, memory, ghost
  <2> QED
    BY <1>1, <1>2, <2>1
<1>8. ASSUME Hydrate \/ Retire \/ RetireSnapshot \/ Unretire \/ Clean
      PROVE  /\ native'["char"] \in {None, native["char"], legacy["char"], Nothing} /\ legacy'["char"] \in {None, native["char"], legacy["char"]}
             /\ UNCHANGED <<pending, memory, ghost>>
  <2>1. PICK p : p = Subject
    OBVIOUS
  <2>2. /\ UNCHANGED <<pending, memory, ghost>>
        /\ native' \in {native, [native EXCEPT ![p] = None], [native EXCEPT ![p] = IF legacy[p] = None THEN Nothing ELSE legacy[p]]}
        /\ legacy' \in {legacy, [legacy EXCEPT ![p] = None], [legacy EXCEPT ![p] = native[p]]}
    BY <1>8, <2>1 DEF Hydrate, Retire, RetireSnapshot, Unretire, Clean, disk
  <2>3. DOMAIN native = Part /\ DOMAIN legacy = Part
    BY <1>1 DEF File
  <2>4. CASE p = "char"
    BY <1>1, <2>2, <2>3, <2>4
  <2>5. CASE p # "char"
    BY <1>1, <2>2, <2>3, <2>5
  <2> QED
    BY <2>2, <2>4, <2>5
<1>9. CASE Hydrate \/ Retire \/ RetireSnapshot \/ Unretire \/ Clean
  BY <1>1, <1>2, <1>8, <1>9 DEF memory, ghost
<1>10. CASE CreateFile \/ List
  <2>1. UNCHANGED <<legacy, pending, body, made>>
    BY <1>10 DEF CreateFile, List, RollBack, disk, memory, ghost
  <2>2. native'["char"] \in {native["char"], Nothing, made}
    <3>1. native' = native \/ native' = [native EXCEPT ![Subject] = IF Subject = "obj" THEN Nothing ELSE made]
      BY <1>10 DEF CreateFile, List, disk
    <3> QED
      BY <1>1, <3>1 DEF File
  <2>3. menu' = menu \/ menu' = [menu EXCEPT ![task.conn] = made]
    BY <1>10 DEF CreateFile, List, RollBack, memory
  <2>4. saved' = saved \/ saved' = [char |-> made, obj |-> Nothing, exp |-> made]
    BY <1>10 DEF CreateFile, List, RollBack, ghost
  <2> QED
    BY <1>1, <1>2, <2>1, <2>2, <2>3, <2>4
<1>11. CASE Open \/ Clear \/ Login
  <2>1. UNCHANGED <<native, pending, body, ghost>>
    BY <1>11 DEF Open, Clear, Login, disk
  <2>2. legacy'["char"] \in {None, legacy["char"]}
    <3>1. legacy' = legacy \/ legacy' = [legacy EXCEPT ![Subject] = None]
      BY <1>11 DEF Open, Clear, Login, disk
    <3> QED
      BY <1>1, <3>1 DEF File
  <2>3. menu' = menu \/ menu' = [menu EXCEPT ![task.conn] = native["char"]]
    BY <1>11 DEF Open, Clear, Login
  <2> QED
    BY <1>1, <1>2, <2>1, <2>2, <2>3 DEF ghost
<1>12. CASE SaveChar
  <2>1. UNCHANGED <<pending, body, menu, made>>
    BY <1>12 DEF SaveChar
  <2>2. /\ native' = native \/ native' = [native EXCEPT !["char"] = body.char]
        /\ legacy' = legacy \/ legacy' = [legacy EXCEPT !["char"] = body.char]
        /\ saved' = saved \/ saved' = [saved EXCEPT !["char"] = body.char]
    BY <1>12 DEF SaveChar
  <2>3. native'["char"] \in {native["char"], body.char} /\ legacy'["char"] \in {legacy["char"], body.char} /\ saved'["char"] \in {saved["char"], body.char}
    BY <1>1, <2>2 DEF File
  <2> QED
    BY <1>1, <1>2, <2>1, <2>3
<1>13. CASE SaveRuntime \/ SaveMirror
  <2>1. UNCHANGED <<legacy, pending, memory, made>>
    BY <1>13 DEF SaveRuntime, SaveMirror, memory, ghost
  <2>2. /\ native' = native \/ native' = [native EXCEPT !["obj"] = body.obj]
        /\ saved' = saved \/ saved' = [saved EXCEPT !["obj"] = body.obj]
    BY <1>13 DEF SaveRuntime, SaveMirror, ghost
  <2>3. native'["char"] = native["char"] /\ saved'["char"] = saved["char"]
    BY <1>1, <2>2 DEF File
  <2> QED
    BY <1>1, <1>2, <2>1, <2>3 DEF memory
<1>14. CASE Left
  <2>1. UNCHANGED <<disk, ghost>> /\ body' = NoBody /\ (menu' = menu \/ menu' = [menu EXCEPT ![player] = body.char])
    BY <1>14 DEF Left
  <2> QED
    BY <1>1, <1>2, <2>1 DEF disk, ghost, NoBody
<1>15. CASE AddChar \/ Link \/ Save \/ Quit \/ Rent \/ Erase \/ EraseLegacy \/ Boot
  <2>1. UNCHANGED <<native, pending, menu, made>>
    BY <1>15 DEF AddChar, Link, Save, Quit, Rent, Erase, EraseLegacy, Boot, disk, memory, ghost
  <2>2. body' = body \/ body' = NoBody \/ body' = [body EXCEPT !.obj = Nothing]
    BY <1>15 DEF AddChar, Link, Save, Quit, Rent, Erase, EraseLegacy, Boot, memory, TakeOut
  <2>3. (legacy' = legacy \/ legacy' = NoFile \/ legacy' = [NoFile EXCEPT !["char"] = legacy["char"]]) /\ (saved' = saved \/ saved' = [p \in Part |-> Nothing])
    BY <1>15 DEF AddChar, Link, Save, Quit, Rent, Erase, EraseLegacy, Boot, disk, ghost
  <2>4. legacy'["char"] \in {None, legacy["char"]}
    BY <1>1, <2>3 DEF NoFile
  <2>5. body'.char \in {body.char, Nothing} /\ saved'["char"] \in {saved["char"], Nothing}
    BY <1>1, <2>2, <2>3 DEF NoBody
  <2> QED
    BY <1>1, <1>2, <2>1, <2>4, <2>5
<1>16. CASE Play
  <2>1. UNCHANGED <<native, legacy, pending, menu, saved>> /\ made' = made + 1 /\ body'.char = made + 1
    BY <1>16 DEF Play, disk
  <2>2. /\ native["char"] # None => native["char"] \in Nat
        /\ legacy["char"] # None => legacy["char"] \in Nat
        /\ pending["char"] # None => pending["char"] \in Nat
        /\ \A e \in Conn : menu[e] # None => menu[e] \in Nat
        /\ saved["char"] \in Nat
    BY <1>1 DEF File
  <2>3. \A x \in Nat : x <= made => x <= made'
    BY <1>1, <2>1
  <2> QED
    BY <1>1, <1>2, <2>1, <2>2, <2>3
<1>17. CASE Crash
  <2>1. UNCHANGED <<disk, ghost>> /\ body' = NoBody /\ menu' = [c \in Conn |-> None]
    BY <1>17 DEF Crash
  <2> QED
    BY <1>1, <1>2, <2>1 DEF disk, ghost, NoBody
<1>18. ASSUME NEW c \in Conn, Create(c) \/ Select(c) \/ LeaveMenu(c) \/ Enter(c) \/ SelfDelete(c)
       PROVE  /\ UNCHANGED <<native, legacy, pending, saved>> /\ (made' = made \/ made' = made + 1) /\ (menu' = menu \/ menu' = [menu EXCEPT ![c] = None])
              /\ body' = body \/ (menu[c] # None /\ body' = [char |-> menu[c], obj |-> Belongings])
  BY <1>18 DEF Create, Select, LeaveMenu, Enter, SelfDelete, disk, memory, ghost
<1>19. CASE \E c \in Conn : Create(c) \/ Select(c) \/ LeaveMenu(c) \/ Enter(c) \/ SelfDelete(c)
  <2>1. PICK c \in Conn : Create(c) \/ Select(c) \/ LeaveMenu(c) \/ Enter(c) \/ SelfDelete(c)
    BY <1>19
  <2>2. /\ UNCHANGED <<native, legacy, pending, saved>> /\ (made' = made \/ made' = made + 1) /\ (menu' = menu \/ menu' = [menu EXCEPT ![c] = None])
        /\ body' = body \/ (menu[c] # None /\ body' = [char |-> menu[c], obj |-> Belongings])
    BY <1>18, <2>1
  <2>3. made <= made' /\ body'.char <= made
    BY <1>1, <1>2, <2>2
  <2>4. \A e \in Conn : menu'[e] # None => menu'[e] = menu[e]
    BY <1>1, <2>2
  <2>5. \A x \in Nat : x <= made => x <= made'
    BY <1>1, <2>3
  <2>6. /\ native["char"] # None => native["char"] \in Nat
        /\ legacy["char"] # None => legacy["char"] \in Nat
        /\ pending["char"] # None => pending["char"] \in Nat
        /\ \A e \in Conn : menu[e] # None => menu[e] \in Nat
        /\ saved["char"] \in Nat /\ body'.char \in Nat
    BY <1>1, Ages DEF File, Typed, TypeOK
  <2> QED
    BY <1>2, <2>2, <2>3, <2>4, <2>5, <2>6
<1> QED
  BY <1>4, <1>6, <1>7, <1>9, <1>10, <1>11, <1>12, <1>13, <1>14, <1>15, <1>16, <1>17, <1>19 DEF Next, TaskStep

-----------------------------------------------------------------------------
\* The last layer: with what somebody enters the game.
Plain == Without(Ownerless \cup {"undo", "orphan", "torn", "twin", "namesake", "bare"})

\* Who has the character, in a menu or in play: one of them, and as new as saved.
Holding ==
    /\ \A c, e \in Conn : menu[c] # None /\ menu[e] # None => c = e /\ player = None
    /\ \A c \in Conn : menu[c] # None => player = None
    /\ ~ At("idle") /\ task.kind = "select" => \A c \in Conn : menu[c] = None
    /\ \A c \in Conn : menu[c] # None => menu[c] >= saved["char"]
    /\ player # None => body.char >= saved["char"]

\* Which file has the belongings.
OnDisk ==
    /\ listed /\ runtime # None => runtime = saved["obj"]
    /\ legacy["char"] # None \/ Migrates \/ Creates => runtime = None
    /\ listed /\ runtime = None =>
            /\ legacy["char"] = None /\ native["char"] # None /\ ~ AtAny({"stage", "unlist", "restore", "unretire", "clean"}) =>
                    native["obj"] = saved["obj"]
            /\ AtAny({"stage", "unlist", "restore"}) => task.from.native["obj"] = saved["obj"]

\* What is staged for who enters.
InHand ==
    /\ runtime = None =>
            /\ AtAny({"clear", "login"}) => held = saved["obj"]
            /\ (\E c \in Conn : menu[c] # None) => legacy["obj"] = None /\ Hydrated(held) = saved["obj"]
    /\ Unused /\ ~ AtAny({"clear", "login"}) => held = None
    /\ Creates => legacy["obj"] = None

\* What comes before a body is freed.
Going ==
    /\ At("quit") \/ (Now = <<"save", "char">> /\ Tail(task.steps) = <<<<"quit", "all">>>>) => runtime # None
    /\ AtAny({"stage", "unlist"}) /\ task.kind = "erase" => task.conn = None

LEMMA CarriedParts == Carried <=> Holding /\ OnDisk /\ InHand /\ Going
BY DEF Carried, Holding, OnDisk, InHand, Going

\* A step that leaves alone who has the character.
LEMMA SameHolding ==
    ASSUME Holding, UNCHANGED <<menu, player, body, saved>>, Now'[1] # "idle" /\ task'.kind = "select" => Now[1] # "idle" /\ task.kind = "select"
    PROVE  Holding'
BY DEF Holding, At

\* Nobody has it any more.
LEMMA NobodyHolds ==
    ASSUME Unused', held' = None, OnDisk', Creates' => legacy'["obj"] = None,
           Now'[1] \in {"idle", "hydrate", "retire", "snapshot", "unretire", "clean", "list", "create", "drop", "open"}
    PROVE  Carried'
<1>1. Holding'
  BY DEF Holding, Unused
<1>2. InHand'
  BY DEF InHand, Unused, AtAny
<1>3. Going'
  BY DEF Going, At, AtAny
<1> QED
  BY <1>1, <1>2, <1>3 DEF CarriedParts, Carried, Holding, OnDisk, InHand, Going

\* It is in play.
LEMMA SomebodyPlays ==
    ASSUME player' # None, \A c \in Conn : menu'[c] = None, body'.char >= saved'["char"], OnDisk',
           Now'[1] \in {"idle", "save", "quit", "leave"},
           Now'[1] = "quit" \/ (Now' = <<"save", "char">> /\ Tail(task'.steps) = <<<<"quit", "all">>>>) => runtime' # None
    PROVE  Carried'
<1>1. Holding'
  BY DEF Holding
<1>2. InHand'
  BY DEF InHand, Unused, AtAny, Creates, At
<1>3. Going'
  BY DEF Going, At, AtAny
<1> QED
  BY <1>1, <1>2, <1>3 DEF Carried, Holding, OnDisk, InHand, Going

\* Who plays has no rival in a menu.
LEMMA Playing ==
    ASSUME Carried, player # None
    PROVE  (\A c \in Conn : menu[c] = None) /\ body.char >= saved["char"]
BY DEF Carried

LEMMA KindAdvanced ==
    ASSUME TypeOK, Advance
    PROVE  task'.kind \in {"none", task.kind}
<1>1. task' = NoTask \/ task' = [task EXCEPT !.steps = Tail(@)]
  BY DEF Advance
<1> QED
  BY <1>1 DEF NoTask, TypeOK, Tasks

\* A deletion in progress keeps what it found.
LEMMA DeletingCarried ==
    ASSUME Typed, InOrder, InOrder', Carried, AtAny({"stage", "unlist", "restore"}), Now'[1] \in {"stage", "unlist", "restore"},
           SameProcedure, UNCHANGED <<listed, legacy, runtime, memory, saved>>, task.kind \in {"delete", "erase"},
           Now'[1] \in {"stage", "unlist"} => Now[1] \in {"stage", "unlist"}
    PROVE  Carried'
<1>1. UNCHANGED <<menu, held, player, body>> /\ legacy'["char"] = None /\ Holding /\ OnDisk /\ InHand /\ Going
  BY CarriedParts DEF memory, InOrder, DeletingSound, AtAny
<1>2. Holding'
  BY <1>1, SameHolding DEF SameProcedure
<1>3. OnDisk'
  BY <1>1 DEF OnDisk, SameProcedure, AtAny, At, Migrates, Creates
<1>4. InHand'
  BY <1>1 DEF InHand, Unused, AtAny, At, Creates
<1>5. Going'
  BY <1>1 DEF Going, SameProcedure, AtAny, At
<1> QED
  BY <1>2, <1>3, <1>4, <1>5 DEF Carried, Holding, OnDisk, InHand, Going

LEMMA DeletionCarried ==
    ASSUME Typed, InOrder, Stored, InOrder', Carried, Plain', Stage \/ PutBack \/ Unlist \/ Drop
    PROVE  Carried'
<1>1. TypeOK /\ Planned /\ Sure'
  BY DEF Typed, Sure, Plain, Without
<1>2. CASE Stage
  <2>1. Doing("stage") /\ up /\ up' /\ UNCHANGED <<listed, legacy, runtime, memory, saved>>
    BY <1>2 DEF Stage, Doing, memory, ghost, disk
  <2>2. Now[1] = "stage" /\ SameProcedure /\ Now'[1] \in {"stage", "unlist", "restore"} /\ task.kind \in {"delete", "erase"}
    BY <1>1, <1>2, <2>1, StageFlow DEF Stage, Onward, Refused
  <2> QED
    BY <2>1, <2>2, DeletingCarried DEF AtAny
<1>3. CASE PutBack
  <2>1. Doing("restore") /\ Advance /\ up /\ up' /\ UNCHANGED <<listed, legacy, runtime, memory, saved>>
    BY <1>3 DEF PutBack, Doing, memory, ghost
  <2>2. Now[1] = "restore" /\ SameProcedure /\ Now'[1] \in {"idle", "restore"} /\ Now[2] \in Part /\ (Now'[1] = "idle" => Now[2] = "char")
        /\ task.kind \in {"delete", "erase"}
    BY <1>1, <2>1, RestoreFlow, Befores DEF Refused
  <2>3. CASE Now'[1] = "restore"
    BY <2>1, <2>2, <2>3, DeletingCarried DEF AtAny
  <2>4. CASE Now'[1] = "idle"
    <3>1. native' = task.from.native /\ legacy'["char"] = None /\ listed /\ Holding /\ OnDisk /\ InHand /\ UNCHANGED <<menu, held, player, body>>
      BY <1>1, <1>3, <2>1, <2>2, <2>4, RestoredAll, CarriedParts DEF memory
    <3>2. Holding'
      BY <2>1, <2>2, <2>4, <3>1, SameHolding
    <3>3. OnDisk'
      BY <2>1, <2>2, <2>4, <3>1 DEF OnDisk, AtAny, At, Migrates, Creates
    <3>4. InHand'
      BY <2>1, <2>2, <2>4, <3>1 DEF InHand, Unused, AtAny, At, Creates
    <3>5. Going'
      BY <2>4 DEF Going, AtAny, At
    <3> QED
      BY <3>2, <3>3, <3>4, <3>5 DEF Carried, Holding, OnDisk, InHand, Going
  <2> QED
    BY <2>2, <2>3, <2>4
<1>4. CASE Unlist
  <2>1. Doing("unlist") /\ up /\ up' /\ UNCHANGED <<legacy, runtime>>
    BY <1>4 DEF Unlist, Doing, memory, disk, Forget
  <2>2. /\ Now[1] = "unlist" /\ task.kind \in {"delete", "erase"}
        /\ Advance => Now' = <<"drop", "char">>
        /\ Unstage => Refused /\ Now' = <<"restore", "exp">>
    BY <1>1, <2>1, UnlistFlow
  <2>3. CASE listed' = FALSE /\ Forget /\ MarkIf(Outlives, "outlived") /\ Advance
    <3>1. ~ Outlives
      BY <2>3 DEF MarkIf, Mark, MarkAll, Plain, Without, Ownerless
    <3>2. menu \in [Conn -> Age \cup {None}] /\ legacy["char"] = None
      BY <1>1, <2>2 DEF TypeOK, InOrder, DeletingSound, AtAny
    <3>3. player' = None /\ menu' = [c \in Conn |-> IF c = task.conn THEN None ELSE menu[c]]
      BY <2>3, <3>1 DEF Forget, Outlives
    <3>4. Unused'
      BY <3>1, <3>3 DEF Outlives, Unused
    <3>5. held' = None
      <4>1. CASE task.kind = "erase"
        <5>1. task.conn = None
          BY <2>2, <4>1 DEF Carried, AtAny
        <5>2. Unused
          BY <3>1, <5>1, NoneAssumption DEF Outlives, Unused
        <5> QED
          BY <2>2, <2>3, <4>1, <5>2 DEF Carried, AtAny, Forget
      <4>2. CASE task.kind # "erase"
        BY <2>3, <4>2 DEF Forget
      <4> QED
        BY <4>1, <4>2
    <3>6. OnDisk'
      BY <2>1, <2>2, <2>3, <3>2 DEF OnDisk, Migrates, Creates, AtAny, At
    <3> QED
      BY <2>2, <2>3, <3>4, <3>5, <3>6, NobodyHolds DEF Creates, At
  <2>4. CASE Unstage /\ UNCHANGED <<disk, memory, ghost, odd>>
    BY <2>2, <2>4, DeletingCarried DEF AtAny, Refused, disk, ghost
  <2> QED
    BY <1>4, <2>3, <2>4 DEF Unlist
<1>5. CASE Drop
  <2>1. Doing("drop") /\ Advance /\ up /\ up' /\ UNCHANGED <<listed, native, legacy, runtime, menu, held, player, body, saved>>
    BY <1>5 DEF Drop, Doing, memory, ghost
  <2>2. Now[1] = "drop" /\ Now'[1] \in {"drop", "idle"} /\ task'.kind \in {"none", task.kind}
    BY <1>1, <2>1, DropFlow, KindAdvanced DEF Onward
  <2>3. Holding /\ OnDisk /\ InHand
    BY CarriedParts
  <2>4. Holding'
    BY <2>1, <2>2, <2>3, SameHolding
  <2>5. OnDisk'
    BY <2>1, <2>2, <2>3 DEF OnDisk, AtAny, At, Migrates, Creates
  <2>6. InHand'
    BY <2>1, <2>2, <2>3 DEF InHand, Unused, AtAny, At, Creates
  <2>7. Going'
    BY <2>2 DEF Going, AtAny, At
  <2> QED
    BY <2>4, <2>5, <2>6, <2>7 DEF Carried, Holding, OnDisk, InHand, Going
<1> QED
  BY <1>2, <1>3, <1>4, <1>5

\* What a migration has written is what was saved.
LEMMA HalfwayCarried ==
    ASSUME Typed, InOrder, Stored, Carried, AtAny({"retire", "snapshot"}) \/ (At("list") /\ task.kind = "link")
    PROVE  native["obj"] = saved["obj"]
<1>1. HalfMigrated /\ TypeOK /\ saved = task.from.legacy /\ "obj" \in Part
  BY Halfway, Befores DEF Typed, Stored, Migrates, AtAny, At
<1>2. saved["obj"] # None
  BY <1>1, Ages DEF TypeOK
<1> QED
  BY <1>1, <1>2 DEF HalfMigrated, Hydrated

\* While nobody has the character and the game has no file of its own.
LEMMA MigratingCarried ==
    ASSUME Carried, Unused, runtime = None, ~ AtAny({"clear", "login"}), UNCHANGED <<runtime, memory>>,
           listed' /\ legacy'["char"] = None /\ native'["char"] # None /\ ~ AtAny({"stage", "unlist", "restore", "unretire", "clean"})' =>
                native'["obj"] = saved'["obj"],
           Now'[1] \in {"idle", "hydrate", "retire", "snapshot", "unretire", "clean", "open"} \/ (At("list")' /\ ~ Creates')
    PROVE  Carried'
<1>1. held = None
  BY DEF Carried
<1>2. Unused' /\ held' = None /\ runtime' = None
  BY <1>1 DEF Unused, memory
<1>3. ~ Creates' /\ ~ AtAny({"stage", "unlist", "restore"})'
  BY DEF Creates, AtAny, At
<1>4. OnDisk'
  BY <1>2, <1>3 DEF OnDisk
<1> QED
  BY <1>2, <1>3, <1>4, NobodyHolds DEF At

LEMMA MigrationCarried ==
    ASSUME Typed, InOrder, Stored, InOrder', Carried, Plain', Hydrate \/ Retire \/ RetireSnapshot \/ Unretire \/ Clean
    PROVE  Carried'
<1>1. TypeOK /\ Planned /\ "char" \in Part /\ "obj" \in Part
  BY Befores DEF Typed
<1>2. ASSUME Migrates
      PROVE  Unused /\ runtime = None
  BY <1>2 DEF InOrder, MigratingSound, Carried
<1>3. CASE Hydrate
  <2>1. Doing("hydrate") /\ up /\ up' /\ UNCHANGED <<saved, legacy, listed, runtime, memory>>
    BY <1>3 DEF Hydrate, Doing, memory, ghost
  <2>2. /\ Now[1] = "hydrate" /\ Now[2] \in Part
        /\ Advance => SameProcedure /\ Onward("hydrate", <<"retire", "char">>)
        /\ FailWith(<<>>) => Refused /\ Now' = <<"idle", "all">>
        /\ CleanUp => Refused /\ Now' = <<"unretire", "char">>
    BY <1>1, <2>1, HydrateFlow
  <2>3. Now'[1] \in {"hydrate", "retire", "unretire", "idle"}
    BY <1>3, <2>2 DEF Hydrate, Onward
  <2>4. legacy'["char"] # None
    BY <2>1, <2>2 DEF InOrder, MigratingSound, Migrates, AtAny, At
  <2>5. Migrates /\ ~ AtAny({"clear", "login"})
    BY <2>2 DEF Migrates, AtAny
  <2> QED
    BY <1>2, <2>1, <2>3, <2>4, <2>5, MigratingCarried
<1>4. CASE Retire
  <2>1. Doing("retire") /\ up /\ up' /\ UNCHANGED <<saved, native, listed, runtime, memory>>
    BY <1>4 DEF Retire, Doing, memory, ghost
  <2>2. /\ Now[1] = "retire"
        /\ Advance \/ AdvanceMoving(Subject) => SameProcedure /\ Onward("retire", <<"snapshot", "all">>)
        /\ CleanUp => Refused /\ Now' = <<"unretire", "char">>
    BY <1>1, <2>1, RetireFlow
  <2>3. Now'[1] \in {"retire", "snapshot", "unretire"}
    BY <1>4, <2>2 DEF Retire, Onward
  <2>4. Migrates /\ ~ AtAny({"clear", "login"}) /\ native["obj"] = saved["obj"]
    BY <2>2, HalfwayCarried DEF Migrates, AtAny
  <2> QED
    BY <1>2, <2>1, <2>3, <2>4, MigratingCarried
<1>5. CASE RetireSnapshot
  <2>1. Doing("snapshot") /\ up /\ up' /\ UNCHANGED <<saved, native, listed, runtime, memory>>
    BY <1>5 DEF RetireSnapshot, Doing, memory, ghost, disk
  <2>2. /\ Now[1] = "snapshot" /\ task.kind \in {"link", "select"}
        /\ Advance => /\ Now' = IF task.kind = "select" THEN <<"open", "all">> ELSE IF listed THEN <<"idle", "all">> ELSE <<"list", "all">>
                      /\ Now'[1] # "idle" => SameProcedure
        /\ FailWith(Each("clean", <<>>)) => Now' = <<"clean", "char">>
    BY <1>1, <2>1, SnapshotFlow
  <2>3. Now'[1] \in {"idle", "clean", "open"} \/ (At("list")' /\ ~ Creates')
    BY <1>5, <2>2 DEF RetireSnapshot, SameProcedure, At, Creates
  <2>4. Migrates /\ ~ AtAny({"clear", "login"}) /\ native["obj"] = saved["obj"]
    BY <2>2, HalfwayCarried DEF Migrates, AtAny
  <2> QED
    BY <1>2, <2>1, <2>3, <2>4, MigratingCarried
<1>6. CASE Unretire
  <2>1. Doing("unretire") /\ Advance /\ up /\ up' /\ UNCHANGED <<runtime, memory>>
    BY <1>6 DEF Unretire, Doing, memory
  <2>2. Now[1] = "unretire" /\ Now'[1] \in {"unretire", "clean"}
    BY <1>1, <2>1, UnretireFlow DEF Onward
  <2>3. Migrates /\ ~ AtAny({"clear", "login"})
    BY <2>2 DEF Migrates, AtAny
  <2> QED
    BY <1>2, <2>1, <2>2, <2>3, MigratingCarried DEF AtAny
<1>7. CASE Clean
  <2>1. Doing("clean") /\ Advance /\ up /\ up' /\ UNCHANGED <<listed, legacy, runtime, memory, saved>>
    BY <1>7 DEF Clean, Doing, memory, ghost
  <2>2. Now[1] = "clean" /\ Subject = Now[2] /\ Now'[1] \in {"clean", "idle"} /\ (Now'[1] = "idle" => Now[2] = "exp")
    BY <1>1, <2>1, CleanFlow, Befores DEF Onward
  <2>3. Unused /\ (Now[2] # "char" => native["char"] = None)
    BY <2>2 DEF InOrder, CleaningSound, At
  <2>4. native' = native \/ native' = [native EXCEPT ![Now[2]] = None]
    BY <1>7, <2>2 DEF Clean
  <2>5. Now'[1] = "idle" => native'["char"] = None
    BY <1>1, <2>2, <2>3, <2>4, Put, Befores DEF TypeOK
  <2>6. held' = None /\ Unused'
    BY <2>1, <2>2, <2>3 DEF Carried, AtAny, memory, Unused
  <2>7. OnDisk'
    BY <2>1, <2>2, <2>5 DEF Carried, OnDisk, AtAny, At, Migrates, Creates
  <2> QED
    BY <2>2, <2>6, <2>7, NobodyHolds DEF Creates, At
<1> QED
  BY <1>3, <1>4, <1>5, <1>6, <1>7

LEMMA CreationCarried ==
    ASSUME Typed, InOrder, Stored, InOrder', Carried, Plain', CreateFile \/ List
    PROVE  Carried'
<1>1. TypeOK /\ Planned /\ "obj" \in Part /\ "char" \in Part /\ menu \in [Conn -> Age \cup {None}] /\ made \in Nat
  BY Befores, Ages DEF Typed, TypeOK
<1>2. ~ RollBack
  BY DEF RollBack, Mark, MarkAll, Plain, Without, Ownerless
<1>3. CASE CreateFile
  <2>1. Doing("create") /\ Advance /\ up /\ up' /\ UNCHANGED <<listed, legacy, runtime, memory>>
    BY <1>2, <1>3 DEF CreateFile, Doing, memory
  <2>2. Now[1] = "create" /\ SameProcedure /\ task.kind = "create" /\ Now'[1] \in {"create", "list"}
    BY <1>1, <2>1, CreateFlow DEF Onward
  <2>3. Unused /\ ~ listed /\ runtime = None /\ legacy["obj"] = None /\ held = None
    BY <2>2 DEF InOrder, CreatingSound, Creates, Carried, AtAny, At
  <2>4. Unused' /\ held' = None /\ OnDisk'
    BY <2>1, <2>2, <2>3 DEF memory, Unused, OnDisk
  <2> QED
    BY <2>1, <2>2, <2>3, <2>4, NobodyHolds
<1>4. CASE List
  <2>1. Doing("list") /\ up /\ up' /\ UNCHANGED <<native, legacy, runtime, player, body, held>>
    BY <1>2, <1>4 DEF List, Doing, memory
  <2>2. /\ Now = <<"list", "all">> /\ ((task.kind = "link" /\ ~ listed) \/ (task.kind = "create" /\ task.conn \in Conn))
        /\ Advance => Now' = <<"idle", "all">>
        /\ FailWith(<<>>) => Now' = <<"idle", "all">>
    BY <1>1, <2>1, ListFlow
  <2>3. CASE task.kind = "create"
    <3>1. /\ listed' = TRUE /\ menu' = [menu EXCEPT ![task.conn] = made] /\ saved' = [char |-> made, obj |-> Nothing, exp |-> made]
          /\ Advance
      BY <1>2, <1>4, <2>3 DEF List
    <3>2. Unused /\ native["obj"] = Nothing /\ runtime = None /\ legacy["obj"] = None /\ held = None /\ legacy["char"] = None
      BY <2>2, <2>3 DEF InOrder, CreatingSound, Creates, Carried, AtAny, At
    <3>3. /\ menu'[task.conn] = made /\ \A c \in Conn : c # task.conn => menu'[c] = None
          /\ saved'["char"] = made /\ saved'["obj"] = Nothing /\ player' = None /\ Now' = <<"idle", "all">>
      BY <1>1, <2>1, <2>2, <2>3, <3>1, <3>2 DEF Unused
    <3>4. Holding'
      BY <1>1, <3>3 DEF Holding, At
    <3>5. OnDisk'
      BY <2>1, <3>2, <3>3 DEF OnDisk, Migrates, Creates, AtAny, At
    <3>6. InHand'
      <4>1. made # None
        BY <1>1, Ages
      <4>2. ~ Unused'
        BY <2>2, <2>3, <3>3, <4>1 DEF Unused
      <4> QED
        BY <2>1, <3>2, <3>3, <4>2 DEF InHand, Hydrated, Creates, AtAny, At
    <3>7. Going'
      BY <3>3 DEF Going, AtAny, At
    <3> QED
      BY <3>4, <3>5, <3>6, <3>7 DEF Carried, Holding, OnDisk, InHand, Going
  <2>4. CASE task.kind = "link"
    <3>1. UNCHANGED <<memory, saved>> /\ Now' = <<"idle", "all">>
      BY <1>4, <2>2, <2>4 DEF List, ghost
    <3>2. Migrates /\ ~ AtAny({"clear", "login"}) /\ native["obj"] = saved["obj"]
      BY <2>2, <2>4, HalfwayCarried DEF Migrates, AtAny, At
    <3>3. Unused /\ runtime = None
      BY <3>2 DEF InOrder, MigratingSound, Carried
    <3> QED
      BY <2>1, <3>1, <3>2, <3>3, MigratingCarried
  <2> QED
    BY <2>2, <2>3, <2>4
<1> QED
  BY <1>3, <1>4

LEMMA OpeningCarried ==
    ASSUME Typed, InOrder, Stored, InOrder', Carried, Plain', Open \/ Clear \/ Login
    PROVE  Carried'
<1>1. /\ TypeOK /\ Planned /\ "obj" \in Part /\ "char" \in Part /\ menu \in [Conn -> Age \cup {None}] /\ native \in File /\ legacy \in File
      /\ saved \in [Part -> Age]
  BY Befores DEF Typed, TypeOK
<1>2. Holding /\ OnDisk /\ InHand
  BY CarriedParts
<1>3. CASE Open
  <2>1. Doing("open") /\ Advance /\ up /\ up' /\ UNCHANGED <<listed, native, legacy, runtime, menu, player, body, saved>>
    BY <1>3 DEF Open, Doing, disk, ghost
  <2>2. Now[1] = "open" /\ SameProcedure /\ task.kind = "select" /\ Now' = <<"clear", "obj">>
    BY <1>1, <2>1, OpenFlow
  <2>3. listed /\ native["char"] # None /\ legacy["char"] = None
    BY <2>2 DEF InOrder, OpeningSound, AtAny
  <2>4. runtime = None => native["obj"] = saved["obj"]
    BY <1>2, <2>2, <2>3 DEF OnDisk, AtAny, At
  <2>5. runtime = None => held' = saved["obj"]
    BY <1>1, <1>3, <2>4, Ages DEF Open
  <2>6. \A c \in Conn : menu[c] = None
    BY <1>2, <2>2 DEF Holding, At
  <2>7. Holding'
    BY <1>2, <2>1, <2>2, SameHolding
  <2>8. OnDisk'
    BY <1>2, <2>1, <2>2, <2>3 DEF OnDisk, AtAny, At, Migrates, Creates
  <2>9. InHand'
    BY <2>1, <2>2, <2>5, <2>6 DEF InHand, AtAny, At, Creates
  <2>10. Going'
    BY <2>2 DEF Going, AtAny, At
  <2> QED
    BY <2>7, <2>8, <2>9, <2>10 DEF Carried, Holding, OnDisk, InHand, Going
<1>4. CASE Clear
  <2>1. Doing("clear") /\ up /\ up' /\ UNCHANGED <<listed, native, runtime, menu, player, body, saved>>
    BY <1>4 DEF Clear, Doing, disk, ghost
  <2>2. /\ Now[1] = "clear" /\ Subject = Now[2] /\ Now[2] \in {"obj", "exp"} /\ task.kind = "select"
        /\ Advance => SameProcedure /\ Now' \in {<<"clear", "exp">>, <<"login", "all">>}
        /\ FailWith(<<>>) => SameProcedure /\ Now' = <<"idle", "all">>
    BY <1>1, <2>1, ClearFlow DEF Refused
  <2>3. listed /\ native["char"] # None /\ legacy["char"] = None
    BY <2>2 DEF InOrder, OpeningSound, AtAny
  <2>4. \A c \in Conn : menu[c] = None
    BY <1>2, <2>2 DEF Holding, At
  <2>5. SameProcedure /\ Now'[1] \in {"clear", "login", "idle"}
    BY <1>4, <2>2 DEF Clear
  <2>6. Holding'
    BY <1>2, <2>1, <2>2, <2>5, SameHolding DEF SameProcedure
  <2>7. OnDisk'
    <3>1. legacy' = legacy \/ legacy' = [legacy EXCEPT ![Now[2]] = None]
      BY <1>4, <2>2 DEF Clear
    <3>2. legacy'["char"] = None
      BY <1>1, <2>2, <2>3, <3>1 DEF File
    <3> QED
      BY <1>2, <2>1, <2>2, <2>3, <2>5, <3>2 DEF OnDisk, AtAny, At, Migrates, Creates
  <2>8. InHand'
    <3>1. CASE Advance /\ UNCHANGED held
      BY <1>2, <2>1, <2>2, <2>4, <3>1 DEF InHand, AtAny, At, Creates
    <3>2. CASE FailWith(<<>>) /\ held' = None
      BY <2>1, <2>2, <2>4, <3>2 DEF InHand, AtAny, At, Creates
    <3> QED
      BY <1>4, <3>1, <3>2 DEF Clear
  <2>9. Going'
    BY <2>5 DEF Going, AtAny, At
  <2> QED
    BY <2>6, <2>7, <2>8, <2>9 DEF Carried, Holding, OnDisk, InHand, Going
<1>5. CASE Login
  <2>1. Doing("login") /\ Advance /\ up /\ up' /\ UNCHANGED <<listed, native, legacy, runtime, body, saved>>
    BY <1>5 DEF Login, Doing, disk, ghost
  <2>2. Now[1] = "login" /\ task.kind = "select" /\ task.conn \in Conn /\ Now' = <<"idle", "all">> /\ task.conn # None
    BY <1>1, <2>1, LoginFlow, NoneAssumption
  <2>3. listed /\ native["char"] # None /\ legacy["char"] = None /\ legacy["obj"] = None
    BY <2>2 DEF InOrder, OpeningSound, AtAny, At
  <2>4. \A c \in Conn : menu[c] = None
    BY <1>2, <2>2 DEF Holding, At
  <2>5. OnDisk'
    BY <1>2, <2>1, <2>2, <2>3 DEF OnDisk, AtAny, At, Migrates, Creates
  <2>6. CASE SameOne
    <3>1. player # None /\ player' = task.conn /\ menu' = menu
      BY <1>5, <2>6 DEF Login, SameOne
    <3>2. body'.char >= saved'["char"]
      BY <2>1, <3>1, Playing
    <3> QED
      BY <2>2, <2>4, <2>5, <3>1, <3>2, <2>1, SomebodyPlays
  <2>7. CASE ~ SameOne
    <3>1. player = None
      BY <2>7 DEF SameOne, InOrder, Accounts
    <3>2. player' = None /\ held' = held /\ menu' = [menu EXCEPT ![task.conn] = native["char"]]
      BY <1>5, <2>7, <3>1 DEF Login
    <3>3. menu'[task.conn] = native["char"] /\ \A c \in Conn : c # task.conn => menu'[c] = None
      BY <1>1, <2>2, <2>4, <3>2
    <3>4. native["char"] >= saved["char"]
      <4>1. Newest(native)
        BY <2>2, <2>3, NativeNewest
      <4>2. saved["char"] # Nothing => saved["char"] = native["char"]
        BY <1>1, <4>1 DEF Newest
      <4>3. native["char"] \in Nat /\ saved["char"] \in Nat /\ Nothing = 0
        BY <1>1, <2>3, Ages DEF File, Nothing
      <4> QED
        BY <4>2, <4>3
    <3>5. Holding'
      BY <2>1, <2>2, <3>2, <3>3, <3>4 DEF Holding, At
    <3>6. InHand'
      <4>1. runtime = None => held = saved["obj"] /\ held # None
        BY <1>1, <1>2, <2>2, Ages DEF InHand, AtAny
      <4>2. ~ Unused'
        BY <2>2, <2>3, <3>3 DEF Unused
      <4> QED
        BY <2>1, <2>2, <2>3, <3>2, <4>1, <4>2 DEF InHand, Hydrated, Creates, AtAny, At
    <3>7. Going'
      BY <2>2 DEF Going, AtAny, At
    <3> QED
      BY <2>5, <3>5, <3>6, <3>7 DEF Carried, Holding, OnDisk, InHand, Going
  <2> QED
    BY <2>6, <2>7
<1> QED
  BY <1>3, <1>4, <1>5

LEMMA SavingCarried ==
    ASSUME Typed, InOrder, Stored, InOrder', Carried, Plain', SaveChar \/ SaveRuntime \/ SaveMirror
    PROVE  Carried'
<1>1. /\ TypeOK /\ Planned /\ "obj" \in Part /\ "char" \in Part /\ native \in File /\ saved \in [Part -> Age] /\ body.char \in Nat
      /\ body.obj # None /\ saved["char"] \in Nat
  BY Befores, Ages DEF Typed, TypeOK
<1>2. player # None /\ Now[1] = "save"
  BY <1>1, SavePlayer
<1>3. listed /\ entry = "native" /\ legacy["char"] = None /\ native["char"] # None
  BY <1>2, InUse DEF Unused, AtAny
<1>4. (\A c \in Conn : menu[c] = None) /\ body.char >= saved["char"] /\ OnDisk
  BY <1>2, Playing, CarriedParts
<1>5. CASE SaveChar
  <2>1. Advance /\ Subject = "char" /\ UNCHANGED <<listed, legacy, runtime, menu, player, body>> /\ Doing("save") /\ up /\ up'
    BY <1>3, <1>5 DEF SaveChar, Doing
  <2>2. /\ Now = <<"save", "char">> /\ Now' \in ToRest \cup {<<"save", "runtime">>}
        /\ Now' = <<"quit", "all">> => Tail(task.steps) = <<<<"quit", "all">>>>
    BY <1>1, <2>1, SaveCharFlow
  <2>3. Now'[1] \in {"idle", "quit", "leave", "save"} /\ Now' # <<"save", "char">> /\ (Now'[1] = "quit" => runtime' # None)
    BY <2>1, <2>2 DEF ToRest, Carried
  <2>4. native'["obj"] = native["obj"] /\ saved'["obj"] = saved["obj"] /\ saved'["char"] \in {saved["char"], body.char}
    <3>1. (native' = native \/ native' = [native EXCEPT !["char"] = body.char]) /\ (saved' = saved \/ saved' = [saved EXCEPT !["char"] = body.char])
      BY <1>5 DEF SaveChar
    <3> QED
      BY <1>1, <3>1, Put
  <2>5. body'.char >= saved'["char"]
    BY <1>1, <1>4, <2>1, <2>4
  <2>6. OnDisk'
    BY <1>2, <1>3, <1>4, <2>1, <2>3, <2>4 DEF OnDisk, AtAny, At, Migrates, Creates
  <2> QED
    BY <1>2, <1>4, <2>1, <2>3, <2>5, <2>6, SomebodyPlays
<1>6. CASE SaveRuntime
  <2>1. Subject = "runtime" /\ UNCHANGED <<listed, native, legacy, menu, player, body>> /\ Doing("save") /\ up /\ up'
    BY <1>6 DEF SaveRuntime, Doing, memory
  <2>2. Now'[1] \in {"idle", "quit", "leave", "save"}
    BY <1>1, <1>6, <2>1, SaveRuntimeFlow DEF SaveRuntime, Skips, ToRest
  <2>3. /\ runtime' # None /\ runtime' = saved'["obj"] /\ saved'["char"] = saved["char"]
    <3>1. CASE runtime' = body.obj /\ saved' = [saved EXCEPT !["obj"] = body.obj]
      BY <1>1, <3>1
    <3>2. CASE UNCHANGED <<runtime, saved>> /\ MarkIf(runtime = None, "bare")
      <4>1. runtime # None
        BY <3>2 DEF MarkIf, Mark, MarkAll, Plain, Without
      <4> QED
        BY <1>3, <1>4, <3>2, <4>1 DEF OnDisk
    <3> QED
      BY <1>6, <3>1, <3>2 DEF SaveRuntime
  <2>4. OnDisk'
    BY <1>3, <2>1, <2>2, <2>3 DEF OnDisk, AtAny, At, Migrates, Creates
  <2> QED
    BY <1>2, <1>4, <2>1, <2>2, <2>3, <2>4, SomebodyPlays
<1>7. CASE SaveMirror
  <2>1. Subject = "mirror" /\ UNCHANGED <<listed, legacy, runtime, menu, player, body, saved>> /\ Doing("save") /\ Advance /\ up /\ up'
    BY <1>7 DEF SaveMirror, Doing, memory, ghost
  <2>2. Now = <<"save", "mirror">> /\ Now'[1] \in {"idle", "quit", "leave", "save"}
    BY <1>1, <2>1, SaveMirrorFlow DEF ToRest
  <2>3. saved["obj"] = runtime /\ runtime # None
    BY <1>1, <2>2, Ages DEF Stored, At
  <2>4. OnDisk'
    BY <1>3, <2>1, <2>2, <2>3 DEF OnDisk, AtAny, At, Migrates, Creates
  <2> QED
    BY <1>2, <1>4, <2>1, <2>2, <2>3, <2>4, SomebodyPlays
<1> QED
  BY <1>5, <1>6, <1>7

LEMMA LeavingCarried ==
    ASSUME Typed, InOrder, InOrder', Carried, Left
    PROVE  Carried'
<1>1. Advance /\ UNCHANGED <<listed, native, legacy, runtime, saved>> /\ player' = None /\ (Doing("quit") \/ Doing("leave"))
  BY DEF Left, disk, ghost
<1>2. Now[1] \in {"quit", "leave"} /\ player # None /\ Now' = <<"idle", "all">> /\ (Doing("quit") <=> Now[1] = "quit") /\ TypeOK
  BY <1>1, LeftFlow, DoingNow DEF Typed
<1>3. legacy["char"] = None /\ OnDisk /\ (\A c \in Conn : menu[c] = None) /\ body.char >= saved["char"]
  BY <1>2, InUse, Playing, CarriedParts DEF Unused
<1>4. OnDisk'
  BY <1>1, <1>2, <1>3 DEF OnDisk, AtAny, At, Migrates, Creates
<1>5. CASE Now[1] = "quit"
  <2>1. /\ menu \in [Conn -> Age \cup {None}] /\ player \in Conn /\ body.char # None
        /\ menu' = [menu EXCEPT ![player] = body.char] /\ runtime # None
    BY <1>2, <1>5, Ages DEF TypeOK, Left, Carried, At
  <2>2. menu'[player] = body.char /\ \A c \in Conn : c # player => menu'[c] = None
    BY <1>3, <2>1
  <2>3. Holding'
    BY <1>1, <1>2, <1>3, <2>2 DEF Holding, At
  <2>4. InHand'
    BY <1>1, <1>2, <2>1, <2>2 DEF InHand, Unused, AtAny, At, Creates
  <2>5. Going'
    BY <1>2 DEF Going, AtAny, At
  <2> QED
    BY <1>4, <2>3, <2>4, <2>5 DEF Carried, Holding, OnDisk, InHand, Going
<1>6. CASE Now[1] = "leave"
  <2>1. menu' = menu /\ held' = None
    BY <1>2, <1>6 DEF Left
  <2>2. Unused'
    BY <1>1, <1>3, <2>1 DEF Unused
  <2> QED
    BY <1>2, <1>4, <2>1, <2>2, NobodyHolds DEF Creates, At
<1> QED
  BY <1>2, <1>5, <1>6\* What starts no procedure.

LEMMA WaitingCarried ==
    ASSUME Typed, Dated, InOrder, Stored, Typed', InOrder', Carried, Plain', AddChar \/ Play \/ EraseLegacy \/ Boot
    PROVE  Carried'
<1>1. TypeOK /\ "char" \in Part /\ saved["char"] \in Nat /\ made \in Nat /\ Holding /\ OnDisk /\ InHand
  BY Befores, Ages, CarriedParts DEF Typed, TypeOK
<1>2. CASE AddChar
  <2>1. UNCHANGED <<native, legacy, runtime, memory, saved>> /\ Now = <<"idle", "all">> /\ Now' = <<"idle", "all">> /\ up
    BY <1>2, FreeNow, Ends DEF AddChar, ghost
  <2>2. legacy["char"] # None
    BY <1>2 DEF AddChar, MarkIf, Mark, MarkAll, Plain, Without
  <2>3. Unused /\ runtime = None
    BY <2>2, InUse DEF Carried
  <2> QED
    BY <2>1, <2>2, <2>3, MigratingCarried DEF AtAny
<1>3. CASE Play
  <2>1. /\ Free /\ player # None /\ UNCHANGED <<listed, native, legacy, runtime, menu, player, saved>> /\ task' = task
        /\ body' = [char |-> made + 1, obj |-> made + 1]
    BY <1>3 DEF Play, disk
  <2>2. Now = <<"idle", "all">> /\ Now' = <<"idle", "all">>
    BY <1>1, <2>1, FreeNow, Waits
  <2>3. body'.char >= saved'["char"]
    BY <1>1, <2>1 DEF Dated
  <2>4. OnDisk' /\ \A c \in Conn : menu[c] = None
    BY <1>1, <2>1, <2>2, Playing DEF OnDisk, AtAny, At, Migrates, Creates
  <2> QED
    BY <2>1, <2>2, <2>3, <2>4, SomebodyPlays
<1>4. CASE EraseLegacy
  <2>1. ~ listed /\ UNCHANGED <<listed, menu>> /\ player' = None /\ runtime' = None /\ Now = <<"idle", "all">> /\ Now' = <<"idle", "all">> /\ TakeOut
    BY <1>4, FreeNow, Ends DEF EraseLegacy, TakeOut
  <2>2. Unused
    BY <2>1, InUse
  <2>3. Unused' /\ held' = None /\ OnDisk'
    BY <2>1, <2>2 DEF Unused, TakeOut, Carried, OnDisk, AtAny
  <2> QED
    BY <2>1, <2>3, NobodyHolds DEF Creates, At
<1>5. CASE Boot
  <2>1. ~ up /\ task' = task /\ UNCHANGED <<listed, native, legacy, runtime, menu, held, player, body, saved>>
    BY <1>5 DEF Boot, disk, ghost
  <2>2. Now = <<"idle", "all">> /\ Now' = <<"idle", "all">>
    BY <1>1, <2>1, Waits DEF Typed, Planned
  <2>3. Unused /\ held = None
    BY <2>1 DEF Typed, Settled, Unused
  <2>4. Unused' /\ held' = None /\ OnDisk'
    BY <1>1, <2>1, <2>2, <2>3 DEF Unused, OnDisk, AtAny, At, Migrates, Creates
  <2> QED
    BY <2>2, <2>4, NobodyHolds DEF Creates, At
<1> QED
  BY <1>2, <1>3, <1>4, <1>5

LEMMA EnteringCarried ==
    ASSUME Typed, InOrder, Stored, Typed', InOrder', Carried, Plain', NEW c \in Conn, LeaveMenu(c) \/ Enter(c)
    PROVE  Carried'
<1>1. /\ TypeOK /\ menu \in [Conn -> Age \cup {None}] /\ c # None
      /\ menu[c] # None /\ UNCHANGED <<listed, native, legacy, runtime, saved>> /\ menu' = [menu EXCEPT ![c] = None]
  BY NoneAssumption DEF Typed, TypeOK, LeaveMenu, Enter, disk, ghost
<1>2. player = None /\ menu[c] >= saved["char"] /\ OnDisk /\ \A e \in Conn : menu'[e] = None
  BY <1>1, CarriedParts DEF Holding
<1>3. Now = <<"idle", "all">> /\ legacy["char"] = None
  BY <1>1, InUse, EnterBegins, FreeNow DEF LeaveMenu, Unused
<1>4. CASE LeaveMenu(c)
  <2>1. Now' = <<"idle", "all">> /\ held' = None /\ UNCHANGED player
    BY <1>1, <1>4, FreeNow, Waits DEF LeaveMenu
  <2>2. Unused' /\ OnDisk'
    BY <1>1, <1>2, <1>3, <2>1 DEF Unused, OnDisk, AtAny, At, Migrates, Creates
  <2> QED
    BY <2>1, <2>2, NobodyHolds DEF Creates, At
<1>5. CASE Enter(c)
  <2>1. player' = c /\ body' = [char |-> menu[c], obj |-> Belongings] /\ Now' = <<"save", "char">> /\ Tail(task'.steps) # <<<<"quit", "all">>>>
    BY <1>2, <1>5, EnterBegins DEF Enter, SameOne
  <2>2. OnDisk'
    BY <1>1, <1>2, <1>3, <2>1 DEF OnDisk, AtAny, At, Migrates, Creates
  <2>3. body'.char >= saved'["char"]
    BY <1>1, <1>2, <2>1
  <2> QED
    BY <1>1, <1>2, <2>1, <2>2, <2>3, SomebodyPlays
<1> QED
  BY <1>4, <1>5

LEMMA BeginningCarried ==
    ASSUME Typed, InOrder, Stored, Typed', InOrder', Carried, Plain',
           \/ Link \/ Save \/ Quit \/ Rent \/ Erase
           \/ \E c \in Conn : Create(c) \/ Select(c) \/ SelfDelete(c)
    PROVE  Carried'
<1>1. TypeOK /\ Holding /\ OnDisk /\ InHand /\ body.char \in Nat
  BY CarriedParts, Ages DEF Typed, TypeOK
<1>2. ASSUME NEW kind, NEW c, Begun(kind, c, <<"hydrate", "char">>), Now = <<"idle", "all">>, UNCHANGED <<disk, memory, ghost>>, legacy["char"] # None
      PROVE  Carried'
  <2>1. Unused /\ runtime = None
    BY <1>2, InUse DEF Carried
  <2>2. Now' = <<"hydrate", "char">> /\ UNCHANGED <<legacy, runtime>>
    BY <1>2 DEF Begun, disk
  <2> QED
    BY <1>2, <2>1, <2>2, MigratingCarried DEF AtAny
<1>3. CASE Link
  BY <1>2, <1>3, LinkBegins
<1>4. ASSUME NEW c \in Conn, Select(c)
      PROVE  Carried'
  <2>1. CASE Begun("select", c, <<"hydrate", "char">>) /\ legacy["char"] # None
    BY <1>2, <1>4, <2>1, SelectBegins
  <2>2. CASE Begun("select", c, <<"open", "all">>)
    <3>1. /\ UNCHANGED <<listed, native, legacy, runtime, menu, held, player, body, saved>> /\ Now = <<"idle", "all">> /\ Now' = <<"open", "all">>
      BY <1>4, <2>2, SelectBegins DEF Begun, disk, ghost, memory
    <3>2. \A e \in Conn : menu[e] = None
      BY <1>4 DEF Select, MarkIf, Mark, MarkAll, Plain, Without
    <3>3. Holding'
      BY <1>1, <3>1, <3>2 DEF Holding
    <3>4. OnDisk'
      BY <1>1, <3>1 DEF OnDisk, AtAny, At, Migrates, Creates
    <3>5. InHand'
      BY <1>1, <3>1 DEF InHand, Unused, AtAny, At, Creates
    <3>6. Going'
      BY <3>1 DEF Going, AtAny, At
    <3> QED
      BY <3>3, <3>4, <3>5, <3>6 DEF Carried, Holding, OnDisk, InHand, Going
  <2> QED
    BY <1>4, <2>1, <2>2, SelectBegins
<1>5. CASE Save \/ Quit \/ Rent
  <2>1. /\ Now = <<"idle", "all">> /\ player # None /\ UNCHANGED <<listed, native, legacy, runtime, menu, player, saved>>
        /\ body' = body \/ body' = [body EXCEPT !.obj = Nothing]
        /\ Now'[1] = "save" /\ Tail(task'.steps) # <<<<"quit", "all">>>>
    BY <1>5, SaveBegins DEF disk, ghost
  <2>2. body'.char = body.char
    BY <1>1, <2>1 DEF TypeOK
  <2>3. legacy["char"] = None /\ (\A c \in Conn : menu[c] = None) /\ body.char >= saved["char"]
    BY <2>1, InUse, Playing DEF Unused
  <2>4. OnDisk'
    BY <1>1, <2>1, <2>3 DEF OnDisk, AtAny, At, Migrates, Creates
  <2> QED
    BY <2>1, <2>2, <2>3, <2>4, SomebodyPlays
<1>6. ASSUME NEW kind, NEW c, Begun(kind, c, <<"stage", "char">>), Now = <<"idle", "all">>, UNCHANGED <<disk, ghost>>, kind # "select",
             listed, native["char"] # None, legacy["char"] = None, kind = "erase" => c = None,
             Holding', InHand'
      PROVE  Carried'
  <2>1. UNCHANGED <<listed, native, legacy, runtime, saved>> /\ task'.from.native = native /\ Now' = <<"stage", "char">> /\ task'.kind = kind /\ task'.conn = c
    BY <1>6 DEF Begun, Found, disk, ghost
  <2>2. OnDisk'
    BY <1>1, <1>6, <2>1 DEF OnDisk, AtAny, At, Migrates, Creates
  <2>3. Going'
    BY <1>6, <2>1 DEF Going, AtAny, At
  <2> QED
    BY <1>6, <2>2, <2>3 DEF Carried, Holding, OnDisk, InHand, Going
<1>7. ASSUME NEW c \in Conn, SelfDelete(c)
      PROVE  Carried'
  <2>1. ~ Unused /\ Now = <<"idle", "all">> /\ UNCHANGED <<disk, ghost, memory>> /\ Begun("delete", c, <<"stage", "char">>)
    BY <1>7, SelfDeleteBegins DEF Unused
  <2>2. listed /\ native["char"] # None /\ legacy["char"] = None
    BY <2>1, InUse DEF AtAny
  <2>3. UNCHANGED <<menu, player, body, saved, held, runtime, legacy>> /\ Now' = <<"stage", "char">> /\ task'.kind = "delete"
    BY <2>1 DEF memory, ghost, disk, Begun
  <2>4. Holding'
    BY <1>1, <2>3, SameHolding
  <2>5. InHand'
    BY <1>1, <2>1, <2>3 DEF InHand, Unused, AtAny, At, Creates
  <2> QED
    BY <1>6, <2>1, <2>2, <2>4, <2>5
<1>8. CASE Erase
  <2>1. /\ listed /\ native["char"] # None /\ legacy["char"] = None /\ Now = <<"idle", "all">> /\ UNCHANGED <<disk, ghost>>
        /\ Begun("erase", None, <<"stage", "char">>) /\ UNCHANGED menu /\ TakeOut
    BY <1>8, EraseBegins DEF Plain, Without, Ownerless
  <2>2. player' = None /\ UNCHANGED <<saved, runtime, legacy>> /\ Now' = <<"stage", "char">> /\ task'.kind = "erase"
    BY <2>1 DEF disk, ghost, Begun, TakeOut
  <2>3. Holding'
    BY <1>1, <2>1, <2>2 DEF Holding
  <2>4. InHand'
    <3>1. CASE player = None
      <4>1. held' = held
        BY <2>1, <3>1 DEF TakeOut
      <4> QED
        BY <1>1, <2>1, <2>2, <3>1, <4>1 DEF InHand, Unused, AtAny, At, Creates
    <3>2. CASE player # None
      <4>1. held' = None /\ \A c \in Conn : menu'[c] = None
        BY <2>1, <3>2, Playing DEF TakeOut
      <4> QED
        BY <2>2, <4>1 DEF InHand, AtAny, At, Creates
    <3> QED
      BY <3>1, <3>2
  <2> QED
    BY <1>6, <2>1, <2>3, <2>4
<1>9. ASSUME NEW c \in Conn, Create(c)
      PROVE  Carried'
  <2>1. /\ Now = <<"idle", "all">> /\ UNCHANGED <<disk, menu, held, player, body, saved>> /\ ~ listed /\ Now' = <<"create", "char">>
        /\ runtime = None /\ legacy["obj"] = None
    BY <1>9, CreateBegins DEF Begun, Plain, Without
  <2>2. Unused
    BY <2>1, InUse
  <2>3. Unused' /\ held' = None /\ legacy'["obj"] = None
    BY <2>1, <2>2 DEF Carried, Unused, AtAny, disk
  <2>4. OnDisk'
    BY <2>1 DEF OnDisk, disk
  <2> QED
    BY <2>1, <2>3, <2>4, NobodyHolds
<1> QED
  BY <1>3, <1>4, <1>5, <1>7, <1>8, <1>9

\* A crash leaves the files as the step that did not come found them.
LEMMA CrashCarried ==
    ASSUME Typed, InOrder, Carried, Crash, Plain'
    PROVE  Carried'
<1>1. /\ UNCHANGED <<listed, native, legacy, runtime, saved>> /\ task' = NoTask /\ Unused' /\ held' = None /\ OnDisk /\ "obj" \in Part
  BY CarriedParts, Befores DEF Crash, disk, ghost, Unused
<1>2. Now' = <<"idle", "all">> /\ Now[1] \notin {"restore", "unretire", "clean"}
  BY <1>1, Ends, NothingUndone DEF Certain, Plain, Without
<1>3. listed /\ runtime = None /\ legacy["char"] = None /\ native["char"] # None => native["obj"] = saved["obj"]
  <2>1. CASE Now[1] \in {"stage", "unlist"}
    BY <1>1, <2>1, NothingAside DEF OnDisk, AtAny
  <2>2. CASE Now[1] \notin {"stage", "unlist"}
    BY <1>1, <1>2, <2>2 DEF OnDisk, AtAny
  <2> QED
    BY <2>1, <2>2
<1>4. OnDisk'
  BY <1>1, <1>2, <1>3 DEF OnDisk, AtAny, At, Migrates, Creates
<1> QED
  BY <1>1, <1>2, <1>4, NobodyHolds DEF Creates, At

LEMMA BelongingInit == Init => Belonging
<1> SUFFICES ASSUME Init PROVE Carried
  BY DEF Belonging
<1>1. Now = <<"idle", "all">> /\ Unused /\ held = None /\ runtime = None /\ listed = FALSE
  BY DEF Init, NoTask, Now, Idle, Unused
<1> QED
  BY <1>1 DEF Carried, Unused, Creates, AtAny, At

LEMMA BelongingStutter ==
    ASSUME Belonging, UNCHANGED vars
    PROVE  Belonging'
<1>1. UNCHANGED <<listed, native, legacy, pending, runtime, entry, menu, held, player, body, up, task, made, saved, buried, odd>>
  BY DEF vars, disk, memory, ghost
<1> QED
  BY <1>1 DEF Belonging, Without, Carried, Unused, Migrates, Creates, AtAny, At, Now, Idle

LEMMA BelongingStep ==
    ASSUME Typed, Dated, Ordered, Kept, Belonging, Typed', Ordered', [Next]_vars
    PROVE  Belonging'
<1>1. SUFFICES ASSUME Next, Plain' PROVE Carried'
  BY BelongingStutter DEF Belonging, Plain
<1>2. odd \subseteq odd'
  BY <1>1, OddGrows
<1>3. InOrder /\ InOrder' /\ Stored /\ Carried
  BY <1>1, <1>2 DEF Ordered, Kept, Belonging, Plain, Without
<1>4. CASE TaskStep
  BY <1>1, <1>3, <1>4, DeletionCarried, MigrationCarried, CreationCarried, OpeningCarried, SavingCarried, LeavingCarried DEF TaskStep
<1>5. CASE AddChar \/ Link \/ Play \/ Save \/ Quit \/ Rent \/ Erase \/ EraseLegacy \/ Crash \/ Boot
  BY <1>1, <1>3, <1>5, WaitingCarried, BeginningCarried, CrashCarried
<1>6. ASSUME NEW c \in Conn, Create(c) \/ Select(c) \/ LeaveMenu(c) \/ Enter(c) \/ SelfDelete(c)
      PROVE  Carried'
  BY <1>1, <1>3, <1>6, EnteringCarried, BeginningCarried
<1> QED
  BY <1>1, <1>4, <1>5, <1>6 DEF Next

\* The inductive invariant: where every procedure stands, where it has left the
\* files, where what was last saved is, and with what the character is entered.
THEOREM InvariantAlways == Spec => []IInv
<1>1. IInv <=> Typed /\ Dated /\ Ordered /\ Kept /\ Findable /\ Belonging
  BY DEF IInv, Typed
<1>2. Init => IInv
  BY <1>1, TypedInit, DatedInit, OrderedInit, KeptInit, FindableInit, BelongingInit
<1>3. IInv /\ [Next]_vars => IInv'
  <2> SUFFICES ASSUME IInv, [Next]_vars PROVE IInv'
    OBVIOUS
  <2>1. Typed /\ Dated /\ Ordered /\ Kept /\ Findable /\ Belonging
    BY <1>1
  <2>2. Typed'
    BY <2>1, TypedStep
  <2>3. Dated' /\ Ordered'
    BY <2>1, <2>2, DatedStep, OrderedStep
  <2>4. Kept' /\ Findable' /\ Belonging'
    BY <2>1, <2>2, <2>3, KeptStep, FindableStep, BelongingStep
  <2> QED
    BY <2>2, <2>3, <2>4 DEF IInv, Typed
<1> QED
  BY <1>2, <1>3, PTL DEF Spec

\* Every variable stays in its type, and every procedure in its plan.
THEOREM TypeCorrect == Spec => []TypeOK
<1>1. IInv => TypeOK
  BY DEF IInv
<1> QED
  BY <1>1, InvariantAlways, PTL

\* Only from a character menu does somebody begin to play.
LEMMA OnlyEntering ==
    ASSUME Next, player = None, player' # None
    PROVE  \E c \in Conn : Enter(c)
<1>1. CASE TaskStep
  <2>1. UNCHANGED player \/ player' = None \/ (Login /\ SameOne)
    BY <1>1 DEF TaskStep, Stage, PutBack, Unlist, Forget, Drop, Hydrate, Retire, RetireSnapshot, Unretire, Clean, CreateFile, RollBack, List,
                Open, Clear, Login, SaveChar, SaveRuntime, SaveMirror, Left, memory
  <2> QED
    BY <2>1 DEF SameOne
<1>2. CASE AddChar \/ Link \/ Play \/ Save \/ Quit \/ Rent \/ Erase \/ EraseLegacy \/ Crash \/ Boot
  BY <1>2 DEF AddChar, Link, Play, Save, Quit, Rent, Erase, EraseLegacy, TakeOut, Crash, Boot, memory
<1>3. ASSUME NEW c \in Conn, Create(c) \/ Select(c) \/ LeaveMenu(c) \/ SelfDelete(c)
      PROVE  UNCHANGED player
  BY <1>3 DEF Create, Select, LeaveMenu, SelfDelete, memory
<1> QED
  BY <1>1, <1>2, <1>3 DEF Next

\* Who enters the game is at least as saved, with what was saved.
THEOREM EntersAsSavedTheorem == Spec => EntersAsSaved
<1>1. IInv /\ [Next]_vars =>
            (player = None /\ player' # None /\ Without(Ownerless \cup {"torn", "twin", "namesake", "bare"}) =>
                body'.char >= saved["char"] /\ body'.obj = saved["obj"])
  <2> SUFFICES ASSUME IInv, [Next]_vars, player = None, player' # None, Without(Ownerless \cup {"torn", "twin", "namesake", "bare"})
               PROVE  body'.char >= saved["char"] /\ body'.obj = saved["obj"]
    OBVIOUS
  <2>1. Next
    BY DEF vars, memory
  <2>2. PICK c \in Conn : Enter(c)
    BY <2>1, OnlyEntering
  <2>3. Free /\ menu[c] # None /\ body' = [char |-> menu[c], obj |-> Belongings]
    BY <2>2 DEF Enter, SameOne
  <2>4. Carried /\ InOrder
    BY <2>3 DEF Free, Astray, IInv, Ordered, Belonging, Without
  <2>5. Now = <<"idle", "all">> /\ listed
    BY <2>3, <2>4, FreeNow, InUse DEF Unused
  <2>6. menu[c] >= saved["char"]
    BY <2>3, <2>4 DEF Carried
  <2>7. Belongings = saved["obj"]
    <3>1. CASE runtime # None
      BY <2>4, <2>5, <3>1 DEF Carried, Belongings
    <3>2. CASE runtime = None
      BY <2>3, <2>4, <3>2 DEF Carried, Belongings, Hydrated
    <3> QED
      BY <3>1, <3>2
  <2> QED
    BY <2>3, <2>6, <2>7
<1> QED
  BY <1>1, InvariantAlways, PTL DEF Spec, EntersAsSaved
=============================================================================
