---------------------------- MODULE AccountStore ----------------------------
(***************************************************************************)
(* The files of one character name under one account: the account's        *)
(* listing, the account-native files, the legacy files they are migrated   *)
(* from, the copies a deletion sets aside, the objects of the game itself, *)
(* and what the server holds of them in memory: the entry of player_table, *)
(* the copies character menus hold, the body in play.                      *)
(*                                                                         *)
(* The contents of a file are a number, higher for what was made later,    *)
(* and Nothing for a default.  A procedure of several files is a task: its *)
(* steps run to the end with nothing between them, but each may fail, and  *)
(* the server may crash before any of them.                                *)
(***************************************************************************)
EXTENDS Naturals, FiniteSets, Sequences

CONSTANTS
    Conn,           \* connections logged in to the account
    MaxAge,         \* bound: how many contents are ever made
    Rare,           \* the rarer things that may happen: see Rarities
    MaxRare,        \* bound: how many of them in one behaviour
    None            \* no file, no copy, nobody

\* What the properties below except by name, each where it happens.
Rarities == {"twin", "outlived", "namesake", "unmigrated", "kept", "orphan",
             "unlisted", "undo", "snapshot", "pretender", "bare"}

ASSUME NoneAssumption == None \notin Conn \cup Nat
ASSUME MaxAgeAssumption == MaxAge \in Nat \ {0}
ASSUME RareAssumption == Rare \subseteq Rarities /\ MaxRare \in Nat

VARIABLES
    listed,         \* account.json lists the name
    native,         \* accounts/.../<name>.*.json, per part
    legacy,         \* players/, plrobjs/*.obj, exploits/, per part
    pending,        \* *.delete-pending, per part
    runtime,        \* plrobjs/.../<name>.objs.json
    entry,          \* what player_table has of the name, by its ch_file
    menu,           \* the copy a character menu holds
    held,           \* g_staged_account_backed_object_data
    player,         \* who plays the character
    body,           \* its state and belongings in the game
    up,             \* the server runs
    task,           \* the procedure that is running
    made,           \* how many contents were made
    saved,          \* the newest state of the character that reached the disk
    buried,         \* how many contents were made when the name was last deleted
    odd             \* the rarities that have happened

disk == <<listed, native, legacy, pending, runtime>>
memory == <<entry, menu, held, player, body, up>>
ghost == <<made, saved, buried>>
vars == <<disk, memory, task, ghost, odd>>

Part == {"char", "obj", "exp"}
Nothing == 0
Age == Nothing..MaxAge
File == [Part -> Age \cup {None}]
NoFile == [p \in Part |-> None]
NoBody == [char |-> Nothing, obj |-> Nothing]

Contents == [legacy : File, native : File, runtime : Age \cup {None}]

\* What the game can find on the disk: native files only of a listed character.
Found == [legacy |-> legacy, native |-> IF listed /\ native["char"] # None THEN native ELSE NoFile, runtime |-> runtime]
Idle == task.steps = <<>>
\* What leaves a legacy file that no account lists.
Ownerless == {"outlived", "unmigrated", "kept", "pretender"}
\* An undoing failed, the files one left were adopted, or an ownerless file
\* took the name: nothing is promised any more, and no procedure begins.
Astray ==
    \/ odd \cap {"undo", "orphan"} # {}
    \/ odd \cap Ownerless # {} /\ entry = "legacy"
Free == up /\ Idle /\ ~ Astray
Ops == {"stage", "unlist", "drop", "restore", "hydrate", "retire", "snapshot", "unretire", "clean",
        "create", "list", "open", "clear", "login", "save", "quit", "leave"}
Step == Ops \X (Part \cup {"runtime", "mirror", "all"})
Kinds == {"none", "delete", "erase", "link", "select", "create", "save"}
Tasks == [kind : Kinds, conn : Conn \cup {None}, steps : Seq(Step), moved : SUBSET Part, refused : BOOLEAN,
          from : Contents \cup {None}]

TypeOK ==
    /\ listed \in BOOLEAN
    /\ native \in File /\ legacy \in File /\ pending \in File
    /\ runtime \in Age \cup {None}
    /\ entry \in {"none", "blank", "legacy", "native"}
    /\ menu \in [Conn -> Age \cup {None}]
    /\ held \in Age \cup {None}
    /\ player \in Conn \cup {None}
    /\ body \in [char : Age, obj : Age]
    /\ up \in BOOLEAN
    /\ task \in Tasks
    /\ made \in Age /\ buried \in Age
    /\ saved \in [Part -> Age]
    /\ odd \subseteq Rare \cup {"crash", "torn"}

Task(kind, c, steps) ==
    [kind |-> kind, conn |-> c, steps |-> steps, moved |-> {}, refused |-> FALSE, from |-> Found]
NoTask == [kind |-> "none", conn |-> None, steps |-> <<>>, moved |-> {}, refused |-> FALSE, from |-> None]

\* The name is free, or an old character has it.
Init ==
    /\ listed = FALSE /\ native = NoFile /\ pending = NoFile /\ runtime = None
    /\ made = 1 /\ buried = Nothing
    /\ \/ legacy = NoFile /\ entry = "none" /\ saved = [p \in Part |-> Nothing]
       \/ legacy = [p \in Part |-> 1] /\ entry = "legacy" /\ saved = [p \in Part |-> 1]
    /\ menu = [c \in Conn |-> None] /\ held = None /\ player = None /\ body = NoBody
    /\ up = TRUE /\ task = NoTask /\ odd = {}

-----------------------------------------------------------------------------
\* x happens now, if it may.
MarkAll(xs) == xs \subseteq Rare /\ Cardinality((odd \cap Rarities) \cup xs) <= MaxRare /\ odd' = odd \cup xs
Mark(x) == MarkAll({x})
MarkIf(cond, x) == IF cond THEN Mark(x) ELSE UNCHANGED odd

\* A step, then the rest; op on each part, then the rest.
Then(step, rest) == <<step>> \o rest
Each(op, rest) == Then(<<op, "char">>, Then(<<op, "obj">>, Then(<<op, "exp">>, rest)))
Doing(op) == up /\ ~ Idle /\ Head(task.steps)[1] = op
Subject == Head(task.steps)[2]
Advance == task' = IF Len(task.steps) = 1 /\ ~ task.refused THEN NoTask ELSE [task EXCEPT !.steps = Tail(@)]
AdvanceMoving(p) == task' = [task EXCEPT !.steps = Tail(@), !.moved = @ \cup {p}]
\* The procedure reports failure, after undoing what it did.
FailWith(undo) == task' = [task EXCEPT !.steps = undo, !.refused = TRUE]
Start(kind, c, steps) == task' = Task(kind, c, steps)

-----------------------------------------------------------------------------
\* admin_delete_linked_character: set the files aside, write the listing
\* without the name, remove them; or put them back, last first.  What an
\* earlier deletion left set aside is removed first.
DeleteSteps == Each("stage", Then(<<"unlist", "all">>, Each("drop", <<>>)))
Unstage == FailWith(<<<<"restore", "exp">>, <<"restore", "obj">>, <<"restore", "char">>>>)

Stage ==
    /\ Doing("stage")
    /\ LET p == Subject
       IN  \/ /\ native[p] = None
              /\ Advance /\ UNCHANGED disk
           \/ /\ native[p] # None
              /\ native' = [native EXCEPT ![p] = None]
              /\ pending' = [pending EXCEPT ![p] = native[p]]
              /\ AdvanceMoving(p) /\ UNCHANGED <<listed, legacy, runtime>>
           \/ /\ Unstage
              /\ \/ UNCHANGED pending
                 \/ native[p] # None /\ pending' = [pending EXCEPT ![p] = None]
              /\ UNCHANGED <<listed, native, legacy, runtime>>
    /\ UNCHANGED <<memory, ghost, odd>>

\* What was moved is put back; that may fail too, and nothing is done about it.
PutBack ==
    /\ Doing("restore")
    /\ LET p == Subject
       IN  \/ /\ p \in task.moved
              /\ native' = [native EXCEPT ![p] = pending[p]]
              /\ pending' = [pending EXCEPT ![p] = None]
              /\ UNCHANGED odd
           \/ p \in task.moved /\ Mark("undo") /\ UNCHANGED <<native, pending>>
           \/ p \notin task.moved /\ UNCHANGED <<native, pending, odd>>
    /\ Advance
    /\ UNCHANGED <<listed, legacy, runtime, memory, ghost>>

\* What the caller does once the listing is written: a player's own deletion
\* (CON_DELCNF2) blanks ch_file, an immortal's (do_delete) the name as well.
Forget ==
    /\ entry' = IF task.kind = "erase" THEN "none" ELSE "blank"
    /\ menu' = [c \in Conn |-> IF c = task.conn THEN None ELSE menu[c]]
    /\ held' = IF task.kind = "erase" THEN held ELSE None
    /\ buried' = made /\ saved' = [p \in Part |-> Nothing]
    /\ UNCHANGED <<player, body, up, made>>
Outlives == player # None \/ \E c \in Conn \ {task.conn} : menu[c] # None

\* Mutant: the refused deletion keeps what it had set aside.
UnlistKeeping ==
    /\ Doing("unlist")
    /\ \/ /\ listed' = FALSE
          /\ Forget /\ MarkIf(Outlives, "outlived")
          /\ Advance /\ UNCHANGED <<native, legacy, pending, runtime>>
       \/ FailWith(<<>>) /\ UNCHANGED <<disk, memory, ghost, odd>>
\* Mutant: the refused deletion leaves the name off the listing.
UnlistHalf ==
    /\ Doing("unlist")
    /\ listed' = FALSE
    /\ \/ Forget /\ MarkIf(Outlives, "outlived") /\ Advance
       \/ Unstage /\ UNCHANGED <<memory, ghost, odd>>
    /\ UNCHANGED <<native, legacy, pending, runtime>>

Unlist ==
    /\ Doing("unlist")
    /\ \/ /\ listed' = FALSE
          /\ Forget /\ MarkIf(Outlives, "outlived")
          /\ Advance /\ UNCHANGED <<native, legacy, pending, runtime>>
       \/ Unstage /\ UNCHANGED <<disk, memory, ghost, odd>>

Drop ==
    /\ Doing("drop")
    /\ LET p == Subject
       IN  \/ p \in task.moved /\ pending' = [pending EXCEPT ![p] = None]
           \/ UNCHANGED pending
    /\ Advance
    /\ UNCHANGED <<listed, native, legacy, runtime, memory, ghost, odd>>

-----------------------------------------------------------------------------
\* migrate_legacy_character_files_internal: write the native files, remove
\* the legacy ones, then an old snapshot; or restore those already removed
\* and remove the native ones.
MigrateSteps(rest) == Each("hydrate", Each("retire", Then(<<"snapshot", "all">>, rest)))
CleanUp == FailWith(Each("unretire", Each("clean", <<>>)))

Hydrate ==
    /\ Doing("hydrate")
    /\ LET p == Subject
       IN  \/ /\ native' = [native EXCEPT ![p] = IF legacy[p] = None THEN Nothing ELSE legacy[p]]
              /\ Advance
           \/ /\ IF p = "char" THEN FailWith(<<>>) ELSE CleanUp
              /\ UNCHANGED native
    /\ UNCHANGED <<listed, legacy, pending, runtime, memory, ghost, odd>>

\* Mutant: the native files go before the legacy ones are back.
RetireHasty ==
    /\ Doing("retire")
    /\ LET p == Subject
       IN  \/ /\ legacy' = [legacy EXCEPT ![p] = None]
              /\ IF legacy[p] # None THEN AdvanceMoving(p) ELSE Advance
           \/ FailWith(Each("clean", <<>>)) /\ UNCHANGED legacy
    /\ UNCHANGED <<listed, native, pending, runtime, memory, ghost, odd>>
\* Mutant: a legacy file that cannot be removed stays.
RetireKeeping ==
    /\ Doing("retire")
    /\ LET p == Subject
       IN  \/ /\ legacy' = [legacy EXCEPT ![p] = None]
              /\ IF legacy[p] # None THEN AdvanceMoving(p) ELSE Advance
           \/ Advance /\ UNCHANGED legacy
    /\ UNCHANGED <<listed, native, pending, runtime, memory, ghost, odd>>

Retire ==
    /\ Doing("retire")
    /\ LET p == Subject
       IN  \/ /\ legacy' = [legacy EXCEPT ![p] = None]
              /\ IF legacy[p] # None THEN AdvanceMoving(p) ELSE Advance
           \/ CleanUp /\ UNCHANGED legacy
    /\ UNCHANGED <<listed, native, pending, runtime, memory, ghost, odd>>

\* Only an old snapshot that cannot be removed fails here.
RetireSnapshot ==
    /\ Doing("snapshot")
    /\ \/ Advance /\ UNCHANGED odd
       \/ FailWith(Each("clean", <<>>)) /\ Mark("snapshot")
    /\ UNCHANGED <<disk, memory, ghost>>

\* The bytes read at the start are written back.
Unretire ==
    /\ Doing("unretire")
    /\ LET p == Subject
       IN  \/ p \in task.moved /\ legacy' = [legacy EXCEPT ![p] = native[p]] /\ UNCHANGED odd
           \/ p \in task.moved /\ Mark("undo") /\ UNCHANGED legacy
           \/ p \notin task.moved /\ UNCHANGED <<legacy, odd>>
    /\ Advance
    /\ UNCHANGED <<listed, native, pending, runtime, memory, ghost>>

Clean ==
    /\ Doing("clean")
    /\ LET p == Subject
       IN  \/ native' = [native EXCEPT ![p] = None] /\ UNCHANGED odd
           \/ native[p] # None /\ Mark("undo") /\ UNCHANGED native
    /\ Advance
    /\ UNCHANGED <<listed, legacy, pending, runtime, memory, ghost>>

-----------------------------------------------------------------------------
\* introduce_char undoes a creation that failed and closes the connection;
\* its caller opens the character menu all the same.
RollBack ==
    /\ FailWith(Each("clean", <<>>)) /\ Mark("pretender")
    /\ entry' = "blank" /\ menu' = [menu EXCEPT ![task.conn] = made]
    /\ UNCHANGED <<held, player, body, up>>

\* admin_link_character, alone (addchar) or as the end of a procedure.
List ==
    /\ Doing("list")
    /\ IF task.kind = "create"
       THEN \/ /\ listed' = TRUE
               /\ menu' = [menu EXCEPT ![task.conn] = made]
               /\ saved' = [char |-> made, obj |-> Nothing, exp |-> made]
               /\ Advance
               /\ UNCHANGED <<native, legacy, pending, runtime, entry, held, player, body, up, made, buried, odd>>
            \/ RollBack /\ UNCHANGED <<disk, ghost>>
       ELSE /\ \/ listed' = TRUE /\ Advance /\ UNCHANGED odd
               \/ UNCHANGED listed /\ FailWith(<<>>) /\ Mark("unlisted")
            /\ UNCHANGED <<native, legacy, pending, runtime, memory, ghost>>

AddChar ==
    /\ Free /\ ~ listed
    /\ legacy["char"] # None \/ native["char"] # None
    /\ listed' = TRUE
    /\ MarkIf(native["char"] # None, "orphan")
    /\ task' = NoTask
    /\ UNCHANGED <<native, legacy, pending, runtime, memory, ghost>>

\* admin_link_and_migrate_character: the listing comes last.
Link ==
    /\ Free /\ legacy["char"] # None
    /\ Start("link", None, MigrateSteps(IF listed THEN <<>> ELSE <<<<"list", "all">>>>))
    /\ UNCHANGED <<disk, memory, ghost, odd>>

\* CON_ACCTNEWCHAR and introduce_char, whose checks find neither an owner nor
\* a file: index entry, three files, listing.
Create(c) ==
    /\ Free /\ menu[c] = None /\ player # c /\ made < MaxAge
    /\ ~ listed
    /\ entry = "legacy" => legacy["char"] = None
    /\ entry' = "native" /\ made' = made + 1
    /\ MarkAll((IF runtime = None /\ legacy["obj"] = None THEN {} ELSE {"namesake"}) \cup (IF native["char"] = None THEN {} ELSE {"orphan"}))
    /\ Start("create", c, Each("create", <<<<"list", "all">>>>))
    /\ UNCHANGED <<disk, menu, held, player, body, up, saved, buried>>

CreateFile ==
    /\ Doing("create")
    /\ LET p == Subject
       IN  \/ /\ native' = [native EXCEPT ![p] = IF p = "obj" THEN Nothing ELSE made]
              /\ Advance /\ UNCHANGED <<memory, odd>>
           \/ RollBack /\ UNCHANGED native
    /\ UNCHANGED <<listed, legacy, pending, runtime, ghost>>

-----------------------------------------------------------------------------
\* CON_ACCTSLCT: migrate if need be, load, stage the objects, remove what a
\* migration may have left of the legacy objects and exploits, log in.
OpenSteps == <<<<"open", "all">>, <<"clear", "obj">>, <<"clear", "exp">>, <<"login", "all">>>>

Select(c) ==
    /\ Free /\ listed /\ menu[c] = None /\ player # c
    /\ native["char"] # None \/ legacy["char"] # None
    /\ MarkIf(\E e \in Conn : menu[e] # None, "twin")
    /\ Start("select", c, IF native["char"] = None THEN MigrateSteps(OpenSteps) ELSE OpenSteps)
    /\ UNCHANGED <<disk, memory, ghost>>

Open ==
    /\ Doing("open")
    /\ entry' = "native"
    /\ held' = IF native["obj"] # None THEN native["obj"] ELSE IF legacy["obj"] # None THEN legacy["obj"] ELSE Nothing
    /\ Advance
    /\ UNCHANGED <<disk, menu, player, body, up, ghost, odd>>

Clear ==
    /\ Doing("clear")
    /\ \/ /\ legacy' = [legacy EXCEPT ![Subject] = None]
          /\ Advance /\ UNCHANGED held
       \/ /\ legacy[Subject] # None
          /\ held' = None
          /\ FailWith(<<>>) /\ UNCHANGED legacy
    /\ UNCHANGED <<listed, native, pending, runtime, entry, menu, player, body, up, ghost, odd>>

\* The body in play has the idnum of the character loaded.
SameOne == player # None /\ body.char > buried

\* complete_existing_character_login: take over the body in play, or a menu.
Login ==
    /\ Doing("login")
    /\ IF SameOne THEN player' = task.conn /\ held' = None /\ UNCHANGED menu
       ELSE menu' = [menu EXCEPT ![task.conn] = native["char"]] /\ UNCHANGED <<player, held>>
    /\ Advance
    /\ UNCHANGED <<disk, entry, body, up, ghost, odd>>

\* free_char drops what was staged under the name, whoever staged it.
LeaveMenu(c) ==
    /\ Free /\ menu[c] # None
    /\ menu' = [menu EXCEPT ![c] = None] /\ held' = None
    /\ UNCHANGED <<disk, entry, player, body, up, task, ghost, odd>>

\* Mutant: what selection staged goes before the game's own file.
BelongingsStaged ==
    IF held # None THEN held ELSE IF runtime # None THEN runtime
    ELSE IF legacy["obj"] # None THEN legacy["obj"] ELSE Nothing

\* Crash_load: the game's own file, the legacy one, what selection staged.
Belongings ==
    IF runtime # None THEN runtime ELSE IF legacy["obj"] # None THEN legacy["obj"]
    ELSE IF held # None THEN held ELSE Nothing

Enter(c) ==
    /\ Free /\ menu[c] # None
    /\ \/ /\ player = None
          /\ body' = [char |-> menu[c], obj |-> Belongings]
          /\ held' = IF runtime = None /\ legacy["obj"] = None THEN None ELSE held
          /\ Start("save", None, <<<<"save", "char">>>>)
       \/ /\ SameOne /\ menu[c] > buried
          /\ held' = None
          /\ UNCHANGED <<body, task>>
    /\ player' = c /\ menu' = [menu EXCEPT ![c] = None]
    /\ UNCHANGED <<disk, entry, up, ghost, odd>>

-----------------------------------------------------------------------------
Play ==
    /\ Free /\ player # None /\ made < MaxAge
    /\ made' = made + 1
    /\ body' = [char |-> made + 1, obj |-> made + 1]
    /\ UNCHANGED <<disk, entry, menu, held, player, up, task, saved, buried, odd>>

\* save_char, which goes by the name: a listed character is saved in its
\* account, one that should be there is refused, any other gets a legacy file.
SaveChar ==
    /\ Doing("save") /\ Subject = "char"
    /\ \/ /\ entry # "none" /\ listed
          /\ native' = [native EXCEPT !["char"] = body.char]
          /\ entry' = "native" /\ saved' = [saved EXCEPT !["char"] = body.char]
          /\ UNCHANGED legacy
       \/ /\ entry \in {"blank", "legacy"} /\ ~ listed
          /\ legacy' = [legacy EXCEPT !["char"] = body.char]
          /\ entry' = "legacy" /\ saved' = [saved EXCEPT !["char"] = body.char]
          /\ UNCHANGED native
       \/ UNCHANGED <<native, legacy, entry, saved>>
    /\ Advance
    /\ UNCHANGED <<listed, pending, runtime, menu, held, player, body, up, made, buried, odd>>

\* write_player_objects_json: the game's own file, then the account's copy.
SaveRuntime ==
    /\ Doing("save") /\ Subject = "runtime"
    /\ \/ /\ runtime' = body.obj /\ saved' = [saved EXCEPT !["obj"] = body.obj]
          /\ Advance /\ UNCHANGED odd
       \/ /\ task' = IF Len(task.steps) = 2 THEN NoTask ELSE [task EXCEPT !.steps = Tail(Tail(@))]
          /\ MarkIf(runtime = None, "bare")
          /\ UNCHANGED <<runtime, saved>>
    /\ UNCHANGED <<listed, native, legacy, pending, memory, made, buried>>

SaveMirror ==
    /\ Doing("save") /\ Subject = "mirror"
    /\ \/ listed /\ native' = [native EXCEPT !["obj"] = body.obj]
       \/ UNCHANGED native
    /\ Advance
    /\ UNCHANGED <<listed, legacy, pending, runtime, memory, ghost, odd>>

\* do_save and the autosave.
CharFirst(rest) == Then(<<"save", "char">>, Then(<<"save", "runtime">>, Then(<<"save", "mirror">>, rest)))
ObjectsFirst(rest) == Then(<<"save", "runtime">>, Then(<<"save", "mirror">>, Then(<<"save", "char">>, rest)))
Save ==
    /\ Free /\ player # None
    /\ Start("save", None, CharFirst(<<>>))
    /\ UNCHANGED <<disk, memory, ghost, odd>>

\* do_quit drops everything a mortal has; renting and idling out keep it.
Quit ==
    /\ Free /\ player # None
    /\ body' = [body EXCEPT !.obj = Nothing]
    /\ Start("save", None, CharFirst(<<<<"quit", "all">>>>))
    /\ UNCHANGED <<disk, entry, menu, held, player, up, ghost, odd>>
Rent ==
    /\ Free /\ player # None
    /\ \E op \in {"quit", "leave"} : Start("save", None, ObjectsFirst(<<<<op, "all">>>>))
    /\ UNCHANGED <<disk, memory, ghost, odd>>

\* The body becomes the menu's copy, or is freed.
Left ==
    /\ Doing("quit") \/ Doing("leave")
    /\ menu' = IF Doing("quit") THEN [menu EXCEPT ![player] = body.char] ELSE menu
    /\ held' = IF Doing("quit") THEN held ELSE None
    /\ player' = None /\ body' = NoBody
    /\ Advance
    /\ UNCHANGED <<disk, entry, up, ghost, odd>>

-----------------------------------------------------------------------------
\* CON_DELCNF2.
SelfDelete(c) ==
    /\ Free /\ menu[c] # None /\ listed
    /\ Start("delete", c, DeleteSteps)
    /\ UNCHANGED <<disk, memory, ghost, odd>>

\* do_delete of an immortal: out of the game, a copy for the archive, then as
\* above; an unlisted character's files are removed one by one.
TakeOut ==
    /\ player' = None /\ body' = NoBody
    /\ held' = IF player # None THEN None ELSE held
Erase ==
    /\ Free /\ listed
    /\ \/ entry = "native" /\ native["char"] # None
       \/ entry = "legacy" /\ legacy["char"] # None
    /\ TakeOut
    /\ MarkIf(legacy["char"] # None, "unmigrated")
    /\ Start("erase", None, DeleteSteps)
    /\ UNCHANGED <<disk, entry, menu, up, ghost>>

\* Mutant: the player file is copied to the archive and not removed.
EraseLegacyCopying ==
    /\ Free /\ ~ listed /\ entry \in {"blank", "legacy"}
    /\ runtime' = None /\ legacy' = [NoFile EXCEPT !["char"] = legacy["char"]]
    /\ entry' = "none" /\ TakeOut
    /\ saved' = [p \in Part |-> Nothing] /\ buried' = made
    /\ task' = NoTask
    /\ UNCHANGED <<listed, native, pending, menu, up, made, odd>>

EraseLegacy ==
    /\ Free /\ ~ listed /\ entry \in {"blank", "legacy"}
    /\ runtime' = None
    /\ \/ /\ entry = "legacy"
          /\ legacy' = NoFile /\ MarkIf(\E c \in Conn : menu[c] # None, "outlived")
       \/ /\ legacy' = [NoFile EXCEPT !["char"] = legacy["char"]]
          /\ MarkIf(legacy["char"] # None, "kept")
    /\ entry' = "none" /\ TakeOut
    /\ saved' = [p \in Part |-> Nothing] /\ buried' = made
    /\ task' = NoTask
    /\ UNCHANGED <<listed, native, pending, menu, up, made>>

-----------------------------------------------------------------------------
\* What a crash does to a running procedure.
CutShort ==
    IF Idle \/ task.kind \in {"save", "create"} THEN {}
    ELSE IF task.refused THEN {"crash", "torn"} ELSE {"crash"}

\* A crash, or the end of the process, before any step.
Crash ==
    /\ up /\ up' = FALSE
    /\ odd' = odd \cup CutShort
    /\ entry' = "none" /\ menu' = [c \in Conn |-> None] /\ held' = None /\ player' = None /\ body' = NoBody
    /\ task' = NoTask
    /\ UNCHANGED <<disk, ghost>>

\* build_player_index exits on a name that has both files.
Indexed == (IF legacy["char"] # None THEN {"legacy"} ELSE {}) \cup (IF listed /\ native["char"] # None THEN {"native"} ELSE {})
Startable == Indexed # {"legacy", "native"}

Boot ==
    /\ ~ up /\ Startable
    /\ up' = TRUE
    /\ entry' = IF Indexed = {} THEN "none" ELSE CHOOSE e \in Indexed : TRUE
    /\ UNCHANGED <<disk, menu, held, player, body, task, ghost, odd>>

TaskStep ==
    \/ Stage \/ PutBack \/ Unlist \/ Drop
    \/ Hydrate \/ Retire \/ RetireSnapshot \/ Unretire \/ Clean
    \/ CreateFile \/ List \/ Open \/ Clear \/ Login
    \/ SaveChar \/ SaveRuntime \/ SaveMirror \/ Left

Next ==
    \/ TaskStep
    \/ AddChar \/ Link \/ Play \/ Save \/ Quit \/ Rent \/ Erase \/ EraseLegacy
    \/ \E c \in Conn : Create(c) \/ Select(c) \/ LeaveMenu(c) \/ Enter(c) \/ SelfDelete(c)
    \/ Crash \/ Boot

Spec == Init /\ [][Next]_vars

-----------------------------------------------------------------------------
Without(x) == odd \cap x = {}

\* What was last saved of a character is on the disk, through every failure
\* and crash of every procedure, until its deletion is written: in the
\* account's files, the legacy ones or those set aside.
NothingLost ==
    Without(Ownerless \cup {"torn", "undo", "orphan", "snapshot"}) =>
        \A p \in Part : saved[p] # Nothing =>
            saved[p] \in {native[p], legacy[p], pending[p]} \cup (IF p = "obj" THEN {runtime} ELSE {})

\* While the server is up and no procedure was cut short by a crash, the file
\* the next login or boot would load is the one last saved.
FindsNewest ==
    Without(Ownerless \cup {"crash", "unlisted", "snapshot"}) /\ Free /\ saved["char"] # Nothing =>
        saved["char"] = IF listed /\ native["char"] # None THEN native["char"] ELSE legacy["char"]

\* A refused deletion, migration or creation leaves everything to be found as it was.
RefusedChangesNothing ==
    Without(Ownerless \cup {"unlisted", "snapshot"}) /\ Free /\ task.refused /\ task.kind # "select" => Found = task.from

\* Between procedures a server that is up would start again.
StartsAgain ==
    Without(Ownerless) /\ Free => Startable

\* The index never leads to files of a deleted character.
StaysDeleted ==
    Without(Ownerless) /\ Free =>
        /\ entry = "legacy" /\ legacy["char"] # None => legacy["char"] > buried
        /\ entry = "native" /\ native["char"] # None => native["char"] > buried

\* Who enters the game is at least as saved, with what was saved.
EntersAsSaved ==
    [][player = None /\ player' # None /\ Without(Ownerless \cup {"torn", "twin", "namesake", "bare"}) =>
        body'.char >= saved["char"] /\ body'.obj = saved["obj"]]_vars

(* The inductive invariant: where every procedure stands, and what each step  *)
(* of it has left where.                                                     *)

\* The next step of the procedure that is running.
Now == IF Idle THEN <<"idle", "all">> ELSE Head(task.steps)
At(op) == Now[1] = op
AtAny(ops) == Now[1] \in ops
Before(p) == CASE p = "obj" -> {"char"} [] p = "exp" -> {"char", "obj"} [] OTHER -> {}

\* A procedure that has come to one of the three steps of op.
Amid(op, rest) == task.steps \in {Each(op, rest), Then(<<op, "obj">>, Then(<<op, "exp">>, rest)), Then(<<op, "exp">>, rest)}
ToUnlist == Then(<<"unlist", "all">>, Each("drop", <<>>))
ToList == <<<<"list", "all">>>>
Afterwards == IF task.kind = "select" THEN OpenSteps ELSE IF listed THEN <<>> ELSE ToList
ToSnapshot == Then(<<"snapshot", "all">>, Afterwards)
ToLeave == {<<>>, <<<<"quit", "all">>>>, <<<<"leave", "all">>>>}

Deleting ==
    /\ task.kind \in {"delete", "erase"}
    /\ \/ /\ ~ task.refused
          /\ Amid("stage", ToUnlist) \/ task.steps = ToUnlist \/ Amid("drop", <<>>)
       \/ /\ task.refused
          /\ task.steps \in {<<<<"restore", "exp">>, <<"restore", "obj">>, <<"restore", "char">>>>,
                             <<<<"restore", "obj">>, <<"restore", "char">>>>, <<<<"restore", "char">>>>}
Migrating ==
    /\ task.kind \in {"link", "select"} /\ ~ task.refused
    /\ Amid("hydrate", Each("retire", ToSnapshot)) \/ Amid("retire", ToSnapshot) \/ task.steps = ToSnapshot
Undoing ==
    /\ task.refused
    /\ \/ task.kind \in {"link", "select"} /\ Amid("unretire", Each("clean", <<>>))
       \/ task.kind \in {"link", "select", "create"} /\ Amid("clean", <<>>)
Listing == task.kind = "link" /\ ~ task.refused /\ task.steps = ToList /\ ~ listed
Opening ==
    /\ task.kind = "select" /\ ~ task.refused
    /\ task.steps \in {OpenSteps, <<<<"clear", "obj">>, <<"clear", "exp">>, <<"login", "all">>>>,
                       <<<<"clear", "exp">>, <<"login", "all">>>>, <<<<"login", "all">>>>}
Creating == task.kind = "create" /\ ~ task.refused /\ (Amid("create", ToList) \/ task.steps = ToList)
Saving ==
    /\ task.kind = "save" /\ ~ task.refused /\ player # None
    /\ \E rest \in ToLeave :
            task.steps \in {CharFirst(rest), Then(<<"save", "runtime">>, Then(<<"save", "mirror">>, rest)), Then(<<"save", "mirror">>, rest),
                            ObjectsFirst(rest), Then(<<"save", "mirror">>, Then(<<"save", "char">>, rest)), Then(<<"save", "char">>, rest), rest}

Planned ==
    /\ ~ Idle => up /\ (Deleting \/ Migrating \/ Undoing \/ Listing \/ Opening \/ Creating \/ Saving)
    /\ ~ Idle /\ task.kind \in {"select", "create"} => task.conn \in Conn
\* A server that is down holds nothing.
Settled ==
    /\ ~ up => entry = "none" /\ player = None /\ (\A c \in Conn : menu[c] = None) /\ held = None /\ ~ task.refused
    /\ buried <= made
    /\ "torn" \in odd => "crash" \in odd

\* No character is newer than what was made last.
Dated ==
    /\ \A x \in {native["char"], legacy["char"], pending["char"]} \cup {menu[c] : c \in Conn} : x # None => x <= made
    /\ body.char <= made /\ saved["char"] <= made

\* Nobody plays the character or has it in a menu.
Unused == player = None /\ \A c \in Conn : menu[c] = None
Hydrated(x) == IF x = None THEN Nothing ELSE x
\* What a deletion has set aside and not put back.
Aside == IF At("restore") THEN task.moved \cap (Before(Now[2]) \cup {Now[2]}) ELSE task.moved
\* The parts whose legacy file a migration has removed.
Retired == IF At("retire") THEN Before(Now[2]) ELSE Part

\* The index, the listing and the files.
Accounts ==
    /\ legacy["char"] # None => legacy["char"] > buried /\ (up => entry = "legacy")
    /\ listed /\ native["char"] # None => native["char"] > buried
    /\ up /\ listed /\ native["char"] # None /\ legacy["char"] # None => AtAny({"hydrate", "retire", "unretire", "clean"})
    /\ entry = "native" => listed \/ AtAny({"create", "list"})
    /\ ~ Unused => /\ listed /\ entry = "native" /\ legacy["char"] = None
                   /\ ~ AtAny({"stage", "unlist", "restore"}) => native["char"] # None
    /\ player # None => body.char > buried
    /\ \A c \in Conn : menu[c] # None => menu[c] > buried

DeletingSound ==
    AtAny({"stage", "unlist", "restore"}) =>
        /\ listed /\ legacy["char"] = None
        /\ task.from.legacy = legacy /\ task.from.runtime = runtime
        /\ task.from \in Contents /\ task.from.native["char"] # None /\ task.from.native["char"] > buried
        /\ \A p \in Part : task.from.native[p] = IF p \in Aside THEN pending[p] ELSE native[p]
        /\ \A p \in Aside : native[p] = None
        /\ At("stage") => task.moved \subseteq Before(Now[2]) /\ \A p \in Before(Now[2]) : native[p] = None
        /\ At("unlist") => native = NoFile

\* A migration before it cleans up or opens, a creation before it cleans up.
Migrates == AtAny({"hydrate", "retire", "snapshot", "unretire"}) \/ (At("list") /\ task.kind = "link")
Creates == At("create") \/ (At("list") /\ task.kind = "create")
MigratingSound ==
    Migrates =>
        /\ Unused /\ entry = "legacy" /\ (task.kind = "select" => listed)
        /\ task.from.native = NoFile /\ task.from.runtime = runtime
        /\ task.from \in Contents /\ task.from.legacy["char"] # None /\ task.from.legacy["char"] > buried
        /\ At("hydrate") => /\ legacy = task.from.legacy /\ task.moved = {}
                            /\ \A p \in Before(Now[2]) : native[p] = Hydrated(legacy[p])
                            /\ listed /\ Now[2] = "char" => native["char"] = None
        /\ AtAny({"retire", "snapshot", "list"}) =>
                \A p \in Part : /\ native[p] = Hydrated(task.from.legacy[p])
                                /\ legacy[p] = IF p \in Retired THEN None ELSE task.from.legacy[p]
                                /\ p \in task.moved <=> p \in Retired /\ task.from.legacy[p] # None
        /\ At("unretire") => \A p \in Part : task.from.legacy[p] = IF p \in task.moved \ Before(Now[2]) THEN native[p] ELSE legacy[p]

CleaningSound ==
    At("clean") =>
        /\ Unused /\ task.kind # "create"
        /\ Now[2] # "char" => native["char"] = None
        /\ "snapshot" \notin odd =>
                /\ task.from \in Contents /\ task.from.legacy = legacy /\ task.from.native = NoFile
                /\ task.from.runtime = runtime /\ legacy["char"] # None

CreatingSound ==
    Creates =>
        /\ Unused /\ ~ listed /\ legacy["char"] = None /\ made > buried /\ entry = "native"
        /\ At("list") => native["char"] = made /\ native["obj"] = Nothing /\ native["exp"] = made
        /\ At("create") => \A p \in Before(Now[2]) : native[p] = IF p = "obj" THEN Nothing ELSE made

OpeningSound ==
    /\ AtAny({"open", "clear", "login"}) => listed /\ native["char"] # None /\ legacy["char"] = None
    /\ AtAny({"clear", "login"}) => entry = "native"
    /\ At("login") \/ (At("clear") /\ Now[2] = "exp") => legacy["obj"] = None

RefusedSound ==
    At("idle") /\ up /\ task.refused /\ task.kind # "select" /\ Without({"unlisted", "snapshot"}) => Found = task.from

InOrder == Accounts /\ DeletingSound /\ MigratingSound /\ CleaningSound /\ CreatingSound /\ OpeningSound /\ RefusedSound
Ordered == Without(Ownerless \cup {"undo", "orphan"}) => InOrder

\* Where the character is that was last saved.
Newest(file) == \A p \in Part : saved[p] # Nothing => saved[p] = file[p] \/ (p = "obj" /\ saved[p] = runtime)
Stored ==
    /\ legacy["char"] # None /\ ~ At("unretire") => saved = legacy
    /\ Migrates => saved = task.from.legacy
    /\ At("clean") /\ "snapshot" \notin odd => saved = legacy
    /\ AtAny({"stage", "unlist", "restore"}) => Newest(task.from.native)
    /\ (listed \/ "snapshot" \notin odd) /\ legacy["char"] = None /\ native["char"] # None
            /\ ~ AtAny({"stage", "unlist", "restore", "unretire", "clean"}) => Newest(native)
    /\ At("save") /\ Now[2] = "mirror" => saved["obj"] = runtime
    /\ "snapshot" \notin odd =>
            /\ ~ listed /\ legacy["char"] = None /\ (native["char"] = None \/ Creates) =>
                    \A p \in Part : saved[p] = Nothing
            /\ listed /\ legacy["char"] = None /\ native["char"] = None => NothingLost
    /\ At("drop") => \A p \in Part : saved[p] = Nothing
Kept == Without(Ownerless \cup {"undo", "orphan", "torn"}) => Stored

Findable == Without(Ownerless \cup {"undo", "orphan", "crash", "unlisted", "snapshot"}) /\ At("idle") /\ saved["char"] # Nothing =>
    (listed /\ native["char"] # None) \/ legacy["char"] # None

\* What somebody enters the game with.
Carried ==
    /\ \A c, e \in Conn : menu[c] # None /\ menu[e] # None => c = e /\ player = None
    /\ \A c \in Conn : menu[c] # None => player = None
    /\ ~ At("idle") /\ task.kind = "select" => \A c \in Conn : menu[c] = None
    /\ \A c \in Conn : menu[c] # None => menu[c] >= saved["char"]
    /\ player # None => body.char >= saved["char"]
    /\ listed /\ runtime # None => runtime = saved["obj"]
    /\ legacy["char"] # None \/ Migrates \/ Creates => runtime = None
    /\ listed /\ runtime = None =>
            /\ legacy["char"] = None /\ native["char"] # None /\ ~ AtAny({"stage", "unlist", "restore", "unretire", "clean"}) =>
                    native["obj"] = saved["obj"]
            /\ AtAny({"stage", "unlist", "restore"}) => task.from.native["obj"] = saved["obj"]
    /\ runtime = None =>
            /\ AtAny({"clear", "login"}) => held = saved["obj"]
            /\ (\E c \in Conn : menu[c] # None) => legacy["obj"] = None /\ Hydrated(held) = saved["obj"]
    /\ Unused /\ ~ AtAny({"clear", "login"}) => held = None
    /\ Creates => legacy["obj"] = None
    /\ At("quit") \/ (Now = <<"save", "char">> /\ Tail(task.steps) = <<<<"quit", "all">>>>) => runtime # None
    /\ AtAny({"stage", "unlist"}) /\ task.kind = "erase" => task.conn = None
Belonging == Without(Ownerless \cup {"undo", "orphan", "torn", "twin", "namesake", "bare"}) => Carried

IInv == TypeOK /\ Planned /\ Settled /\ Dated /\ Ordered /\ Kept /\ Findable /\ Belonging

\* What obj_files.cpp says of Crash_delete_file: who takes the name of a
\* deleted character does not have its belongings.  Wrong: the account's
\* deletions leave the game's own file where Crash_load looks first.
NothingInherited ==
    Without({"crash"}) /\ player # None => body.obj = Nothing \/ body.obj > buried
=============================================================================
