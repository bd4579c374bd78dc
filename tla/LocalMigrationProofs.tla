------------------------- MODULE LocalMigrationProofs -------------------------
(***************************************************************************)
(* Proofs about LocalMigration, for any number of errors, kills and        *)
(* backups: a restore implements AtomicRestore if it is not stopped while  *)
(* it removes its stashes (CleansUp).                                      *)
(***************************************************************************)
EXTENDS LocalMigration, TLAPS

CleansUp == ~CleanupStops

-----------------------------------------------------------------------------
(* The invariant. *)

\* What a restore leaves at a path.
Copy(p) == IF Stages(p) THEN chosen[p] ELSE Absent

\* The path and its original, when it can be put back ...
Kept(p) ==
    /\ journal[p] <=> original[p] # Absent
    /\ stash[p] \in {Absent, original[p]}
    /\ journal[p] /\ stash[p] = Absent => dest[p] = original[p]

\* ... when the restore has not come to it, or the roll-back is done with it ...
Untouched(p) == stash[p] = Absent /\ dest[p] = original[p]

Copied(p) == Untouched(p) /\ staged[p] = Copy(p)

\* ... between the two renames, and after them.
Moved(p) == stash[p] = original[p] /\ dest[p] = Absent /\ staged[p] = Copy(p)

Exchanged(p) == stash[p] = original[p] /\ dest[p] = Copy(p)

\* What each step of a restore knows of the journal and of the data.
Journalled ==
    /\ pc \in ApplySteps \union {"check", "clear"} => journal = NoJournal
    /\ pc \in {"stage", "aside", "place", "clean", "undo", "putback"} => journal # NoJournal
    /\ journal = NoJournal => dest \in Whole /\ \A p \in Paths : stash[p] = Absent
    /\ journal # NoJournal /\ pc # "clean" => \A p \in Paths : Kept(p)
    /\ server => journal = NoJournal

Exchanges ==
    /\ pc \in {"aside", "place", "putback"} => item \in 1..3
    /\ pc = "undo" => item \in 0..3
    /\ pc = "clean" => item \in 1..4
    /\ pc = "stage" => item = 1 /\ \A p \in Paths : Untouched(p)
    /\ pc \in {"aside", "place"} =>
         \A i \in 1..3 : /\ i < item => Exchanged(Items[i])
                         /\ i > item => Copied(Items[i])
    /\ pc = "aside" => Copied(Here)
    /\ pc = "place" => Moved(Here)
    /\ pc = "clean" => dest = chosen /\ \A i \in 1..3 : i < item => stash[Items[i]] = Absent
    /\ pc \in {"undo", "putback"} =>
         \A i \in 1..3 : i > item => Untouched(Items[i])
    /\ pc = "putback" => journal[Here] /\ stash[Here] = original[Here]

\* Backups are taken of closed databases.
BackedUp ==
    /\ \A b \in backups : b["wal"] = Absent
    /\ pc \in {"check", "stage", "aside", "place", "clean", "undo", "putback"} =>
         chosen \in backups

\* What each step of an apply knows of the data set.
Migrating ==
    /\ pc = "backup" => dest["wal"] = Absent
    /\ pc \in {"backup", "schema"} => dest["database"] \in {"old", "schema"}
    /\ pc \in {"tasks", "completed"} => dest["database"] = "schema"
    /\ pc = "completed" => dest["resource"] = "new"

Inv == TypeOK /\ Journalled /\ Exchanges /\ BackedUp /\ Migrating

-----------------------------------------------------------------------------
(* Paths and data sets. *)

LEMMA ItemsAre ==
    /\ Len(Items) = 3 /\ DOMAIN Items = 1..3
    /\ Items[1] = "database" /\ Items[2] = "wal" /\ Items[3] = "resource"
    /\ Paths = {"database", "wal", "resource"}
<1>1. /\ Len(Items) = 3 /\ DOMAIN Items = 1..3
      /\ Items[1] = "database" /\ Items[2] = "wal" /\ Items[3] = "resource"
  BY DEF Items
<1> HIDE DEF Items
<1> QED BY <1>1 DEF Paths

LEMMA ItemsArePaths ==
    /\ \A i \in 1..3 : Items[i] \in Paths
    /\ \A p \in Paths : \E i \in 1..3 : p = Items[i]
    /\ \A i, j \in 1..3 : Items[i] = Items[j] => i = j
BY ItemsAre

\* The resources that go with a database.
Fitting(db) == CASE db = "old"  -> {Absent, "old"}
                 [] db = "done" -> {"new"}
                 [] OTHER       -> {Absent, "old", "new"}

LEMMA FittingIs ==
    /\ Fitting("old") = {Absent, "old"} /\ Fitting("done") = {"new"}
    /\ Fitting("schema") = {Absent, "old", "new"}
    /\ Fitting("corrupt") = {Absent, "old", "new"}
BY DEF Fitting

LEMMA WholeIs ==
    ASSUME NEW d
    PROVE  d \in Whole <=> /\ d \in [Paths -> Contents]
                           /\ d["database"] \in Databases
                           /\ d["wal"] \in {Absent, d["database"]}
                           /\ d["resource"] \in Fitting(d["database"])
BY DEF Whole, Fitting

\* Closing the database leaves a whole data set ...
LEMMA ClosedIsWhole ==
    ASSUME NEW d \in Whole
    PROVE  /\ Closed(d) \in Whole /\ Closed(d)["wal"] = Absent
           /\ Closed(d)["database"] = d["database"]
           /\ Closed(d)["resource"] = d["resource"]
<1>1. d \in [Paths -> Contents]
  BY WholeIs
<1>2. Closed(d) \in [Paths -> Contents]
  BY <1>1 DEF Closed, Contents
<1>3. /\ Closed(d)["wal"] = Absent
      /\ Closed(d)["database"] = d["database"]
      /\ Closed(d)["resource"] = d["resource"]
  BY <1>1, ItemsAre DEF Closed
<1>4. d["database"] \in Databases /\ d["resource"] \in Fitting(d["database"])
  BY WholeIs
<1> HIDE DEF Closed
<1> QED BY <1>2, <1>3, <1>4, WholeIs

\* ... and so does a write that the resource fits.
LEMMA WrittenIsWhole ==
    ASSUME NEW d \in Whole, NEW db \in Databases, d["resource"] \in Fitting(db)
    PROVE  /\ Written(d, db) \in Whole
           /\ Written(d, db)["database"] = db
           /\ Written(d, db)["resource"] = d["resource"]
<1>1. d \in [Paths -> Contents]
  BY WholeIs
<1>2. Written(d, db) \in [Paths -> Contents]
  BY <1>1 DEF Written, Contents
<1>3. /\ Written(d, db)["wal"] = db /\ Written(d, db)["database"] = db
      /\ Written(d, db)["resource"] = d["resource"]
  BY <1>1, ItemsAre DEF Written
<1> HIDE DEF Written
<1> QED BY <1>2, <1>3, WholeIs

-----------------------------------------------------------------------------
(* Steps outside a restore. *)

\* A step that ends where no restore has left anything.
LEMMA OutsideRestores ==
    ASSUME TypeOK', journal' = NoJournal, dest' \in Whole,
           \A p \in Paths : stash'[p] = Absent,
           pc' \in ApplySteps \union {"idle", "clear"}, Migrating',
           \A b \in backups' : b["wal"] = Absent
    PROVE  Inv'
BY DEF Inv, Journalled, Exchanges, BackedUp, ApplySteps

LEMMA InitInv == Init => Inv
<1> SUFFICES ASSUME Init PROVE Inv
  OBVIOUS
<1>1. dest \in Whole /\ dest \in [Paths -> Contents]
  BY WholeIs DEF Init
<1>2. TypeOK
  <2>1. stash \in [Paths -> Contents] /\ staged \in [Paths -> Contents]
    BY DEF Init, Contents
  <2>2. item \in 0..Len(Items) + 1 /\ faults \in Nat
    BY ItemsAre DEF Init
  <2>3. /\ journal = NoJournal /\ record \in Records /\ then \in {"check", "idle"}
        /\ pc = "idle" /\ backups \subseteq Whole /\ chosen \in Whole /\ original \in Whole
        /\ server \in BOOLEAN
    BY <1>1 DEF Init, Records
  <2> QED BY <1>1, <2>1, <2>2, <2>3 DEF TypeOK
<1> QED BY <1>1, <1>2 DEF Init, Inv, Journalled, Exchanges, BackedUp, Migrating, ApplySteps

\* The steps of an apply that change the data set.
LEMMA ApplyChanges ==
    ASSUME Inv,
           \/ ApplyNothing \/ StartApply \/ ApplySchema \/ SchemaBreaks \/ RunTasks
           \/ CompleteTasks \/ Succeed
    PROVE  Inv' /\ dest' \in Whole /\ journal = NoJournal /\ UNCHANGED <<journal, original, backups>>
<1>1. journal = NoJournal /\ UNCHANGED <<stash, staged, journal, backups, command, server>>
  BY DEF Inv, Journalled, Refused, ApplyNothing, StartApply, ApplySchema, SchemaBreaks,
         RunTasks, CompleteTasks, Succeed, ApplySteps
<1>2. dest \in Whole /\ \A p \in Paths : stash[p] = Absent
  BY <1>1 DEF Inv, Journalled
<1>3. /\ dest \in [Paths -> Contents] /\ dest["database"] \in Databases
      /\ dest["resource"] \in Fitting(dest["database"])
  BY <1>2, WholeIs
<1>4. dest' \in Whole /\ pc' \in ApplySteps \union {"idle"} /\ Migrating'
  <2>1. CASE ApplyNothing
    BY <1>2, <2>1, ClosedIsWhole DEF ApplyNothing, Migrating
  <2>2. CASE StartApply
    <3>1. dest' = Closed(dest) /\ pc' = "backup" /\ dest["database"] \in {"old", "schema"}
      BY <1>3, <2>2 DEF StartApply, Refused, Databases
    <3> QED BY <1>2, <3>1, ClosedIsWhole DEF Migrating, ApplySteps
  <2>3. CASE ApplySchema
    <3>1. dest["database"] \in {"old", "schema"} /\ pc' = "tasks"
      BY <2>3 DEF ApplySchema, Inv, Migrating
    <3>2. CASE dest["database"] = "old"
      <4>1. dest' = Written(dest, "schema")
        BY <2>3, <3>2 DEF ApplySchema
      <4>2. dest["resource"] \in Fitting("schema") /\ "schema" \in Databases
        BY <1>3, <3>2, FittingIs DEF Databases
      <4> QED BY <1>2, <3>1, <4>1, <4>2, WrittenIsWhole DEF Migrating, ApplySteps
    <3>3. CASE dest["database"] = "schema"
      BY <1>2, <2>3, <3>1, <3>3 DEF ApplySchema, Migrating, ApplySteps
    <3> QED BY <3>1, <3>2, <3>3
  <2>4. CASE SchemaBreaks
    <3>1. dest' = Written(dest, "corrupt") /\ pc' \in {"classify", "idle"}
      BY <2>4 DEF SchemaBreaks
    <3>2. dest["resource"] \in Fitting("corrupt") /\ "corrupt" \in Databases
      BY <1>3, <2>4, FittingIs DEF Databases, SchemaBreaks
    <3> QED BY <1>2, <3>1, <3>2, WrittenIsWhole DEF Migrating, ApplySteps
  <2>5. CASE RunTasks
    <3>1. dest' = [dest EXCEPT !["resource"] = "new"] /\ pc' = "completed"
          /\ dest["database"] = "schema"
      BY <2>5 DEF RunTasks, Inv, Migrating
    <3>2. /\ dest'["resource"] = "new" /\ dest'["database"] = "schema"
          /\ dest'["wal"] = dest["wal"] /\ dest' \in [Paths -> Contents]
      BY <1>3, <3>1, ItemsAre DEF Contents, Directories
    <3>3. dest["wal"] \in {Absent, "schema"} /\ "schema" \in Databases
      BY <1>2, <1>3, <3>1, WholeIs
    <3>4. dest' \in Whole
      BY <3>2, <3>3, FittingIs, WholeIs
    <3> QED BY <3>1, <3>2, <3>4 DEF Migrating, ApplySteps
  <2>6. CASE CompleteTasks
    <3>1. dest' = Written(dest, "done") /\ pc' = "succeed" /\ dest["resource"] = "new"
      BY <2>6 DEF CompleteTasks, Inv, Migrating
    <3>2. dest["resource"] \in Fitting("done") /\ "done" \in Databases
      BY <3>1, FittingIs DEF Databases
    <3> QED BY <1>2, <3>1, <3>2, WrittenIsWhole DEF Migrating, ApplySteps
  <2>7. CASE Succeed
    BY <1>2, <2>7, ClosedIsWhole DEF Succeed, Migrating, ApplySteps
  <2> QED BY <2>1, <2>2, <2>3, <2>4, <2>5, <2>6, <2>7
<1>5. record' \in Records /\ faults' \in Nat
  BY DEF Inv, TypeOK, Records, ApplyNothing, StartApply, ApplySchema, SchemaBreaks,
         RunTasks, CompleteTasks, Succeed
<1>6. TypeOK'
  <2>1. dest' \in [Paths -> Contents]
    BY <1>4, WholeIs
  <2> QED BY <1>1, <1>4, <1>5, <2>1 DEF Inv, TypeOK, command
<1>7. Inv'
  BY <1>1, <1>2, <1>4, <1>6, OutsideRestores DEF Inv, BackedUp
<1> QED BY <1>1, <1>4, <1>7 DEF command

\* The steps that leave the data set and the journal as they are.
LEMMA CommandMoves ==
    ASSUME Inv, CleansUp,
           \/ Classify \/ ApplyFails \/ RefuseRestore \/ ClearRecord \/ Stops
           \/ StageCopies \/ RestoreFails \/ StartRestore
    PROVE  Inv' /\ UNCHANGED <<dest, journal, original, backups>>
<1>1. UNCHANGED <<dest, stash, journal, original, backups>>
  BY DEF Classify, ApplyFails, RefuseRestore, ClearRecord, Stops, StageCopies,
         RestoreFails, StartRestore, command, files
<1>2. TypeOK'
  <2>1. chosen' \in Whole
    BY DEF Inv, TypeOK, Classify, ApplyFails, RefuseRestore, ClearRecord, Stops,
         StageCopies, RestoreFails, StartRestore, command
  <2>2. staged' \in [Paths -> Contents]
    <3>1. \A p \in Paths : chosen[p] \in Contents
      BY WholeIs DEF Inv, TypeOK
    <3>2. CASE StageCopies
      BY <3>1, <3>2 DEF StageCopies, Contents
    <3>3. CASE UNCHANGED staged
      BY <3>3 DEF Inv, TypeOK
    <3> QED BY <3>2, <3>3 DEF Classify, ApplyFails, RefuseRestore, ClearRecord, Stops,
         RestoreFails, StartRestore, files
  <2>3. record' \in Records /\ faults' \in Nat /\ server' \in BOOLEAN
    <3>1. record' \in Records
      BY DEF Inv, TypeOK, Records, Classify, ApplyFails, RefuseRestore, ClearRecord,
           Stops, StageCopies, RestoreFails, StartRestore
    <3>2. faults' = faults \/ faults' = faults + 1
      BY DEF Classify, ApplyFails, RefuseRestore, ClearRecord, Stops, StageCopies,
           RestoreFails, StartRestore
    <3>3. UNCHANGED server
      BY DEF Classify, ApplyFails, RefuseRestore, ClearRecord, Stops, StageCopies,
           RestoreFails, StartRestore
    <3> QED BY <3>1, <3>2, <3>3 DEF Inv, TypeOK
  <2>4. /\ pc' \in {"idle", "classify", "undo", "check", "aside"}
        /\ item' \in {item, 1, 3} /\ then' \in {then, "check", "idle"}
    BY ItemsAre DEF Classify, ApplyFails, RefuseRestore, ClearRecord, Stops,
         StageCopies, RestoreFails, StartRestore, command
  <2>5. item' \in 0..Len(Items) + 1 /\ then' \in {"check", "idle"}
    BY <2>4, ItemsAre DEF Inv, TypeOK
  <2> QED BY <1>1, <2>1, <2>2, <2>3, <2>4, <2>5 DEF Inv, TypeOK, ApplySteps
<1>3. Journalled'
  BY <1>1 DEF Inv, Journalled, CleansUp, Kept, ApplySteps, Interrupted, Classify,
       ApplyFails, RefuseRestore, ClearRecord, Stops, StageCopies, RestoreFails, StartRestore
<1>4. Exchanges'
  <2>1. CASE StageCopies
    <3>1. item = 1 /\ \A p \in Paths : Untouched(p)
      BY <2>1 DEF StageCopies, Inv, Exchanges
    <3>2. \A p \in Paths : Copied(p)'
      BY <1>1, <2>1, <3>1 DEF StageCopies, Copied, Untouched, Copy, Stages, command
    <3> QED BY <2>1, <3>1, <3>2, ItemsArePaths DEF StageCopies, Exchanges, Here, command
  <2>2. CASE pc' = "undo"
    <3>1. item' = 3
      BY <2>2, ItemsAre DEF Classify, ApplyFails, RefuseRestore, ClearRecord, Stops,
           StageCopies, RestoreFails, StartRestore
    <3> QED BY <2>2, <3>1 DEF Exchanges
  <2>3. CASE pc' \in {"idle", "classify", "check"}
    BY <2>3 DEF Exchanges
  <2> QED BY <2>1, <2>2, <2>3 DEF Classify, ApplyFails, RefuseRestore, ClearRecord,
         Stops, RestoreFails, StartRestore
<1>5. BackedUp'
  BY <1>1 DEF Inv, BackedUp, Classify, ApplyFails, RefuseRestore, ClearRecord, Stops,
       StageCopies, RestoreFails, StartRestore, command
<1>6. Migrating'
  BY DEF Migrating, Classify, ApplyFails, RefuseRestore, ClearRecord, Stops,
       StageCopies, RestoreFails, StartRestore
<1> QED BY <1>1, <1>2, <1>3, <1>4, <1>5, <1>6 DEF Inv

LEMMA BackupKeepsInv ==
    ASSUME Inv, TakeBackup
    PROVE  /\ Inv' /\ journal = NoJournal /\ dest \in Whole
           /\ UNCHANGED <<dest, journal, original>>
           /\ backups' = backups \union {dest} \/ UNCHANGED backups
<1>1. /\ journal = NoJournal /\ dest \in Whole /\ dest["wal"] = Absent
      /\ dest["database"] \in {"old", "schema"}
      /\ \A p \in Paths : stash[p] = Absent
  BY DEF Inv, Journalled, Migrating, TakeBackup, ApplySteps
<1>2. /\ UNCHANGED <<files, journal, record, command, server, faults>> /\ pc' = "schema"
      /\ backups' = backups \union {dest} \/ UNCHANGED backups
  BY DEF TakeBackup
<1>3. TypeOK'
  BY <1>1, <1>2 DEF Inv, TypeOK, files, command, ApplySteps
<1>4. Inv'
  BY <1>1, <1>2, <1>3, OutsideRestores DEF Inv, BackedUp, Migrating, files, ApplySteps
<1> QED BY <1>1, <1>2, <1>4 DEF files, command

LEMMA ServerKeepsInv ==
    ASSUME Inv, StartServer \/ StopServer
    PROVE  Inv' /\ dest' \in Whole /\ journal = NoJournal /\ UNCHANGED <<journal, original, backups>>
<1>1. journal = NoJournal /\ pc = "idle"
  BY DEF Inv, Journalled, StartServer, StopServer, Refused
<1>2. /\ UNCHANGED <<stash, staged, journal, record, backups, pc, command, faults>>
      /\ server' \in BOOLEAN
  BY DEF StartServer, StopServer
<1>3. dest \in Whole /\ \A p \in Paths : stash[p] = Absent
  BY <1>1 DEF Inv, Journalled
<1>4. dest' \in Whole
  <2>1. CASE StartServer
    BY <1>3, <2>1, WholeIs, WrittenIsWhole DEF StartServer
  <2>2. CASE StopServer
    BY <1>3, <2>2, ClosedIsWhole DEF StopServer
  <2> QED BY <2>1, <2>2
<1>5. TypeOK'
  <2>1. dest' \in [Paths -> Contents]
    BY <1>4, WholeIs
  <2> QED BY <1>2, <2>1 DEF Inv, TypeOK, command
<1> QED BY <1>1, <1>2, <1>3, <1>4, <1>5, OutsideRestores
        DEF Inv, BackedUp, Migrating, command

-----------------------------------------------------------------------------
(* The exchange. *)

LEMMA PlanKeepsInv ==
    ASSUME Inv, PlanRestore
    PROVE  Inv' /\ journal = NoJournal /\ journal' # NoJournal /\ original' = dest /\ UNCHANGED backups
<1>1. /\ journal = NoJournal /\ dest \in Whole /\ \A p \in Paths : stash[p] = Absent
      /\ chosen \in backups /\ pc = "check" /\ ~server
  BY DEF Inv, Journalled, BackedUp, PlanRestore
<1>2. /\ journal' = [p \in Paths |-> dest[p] # Absent] /\ original' = dest
      /\ item' = 1 /\ pc' = "stage"
      /\ UNCHANGED <<dest, stash, staged, record, backups, then, chosen, server, faults>>
  BY DEF PlanRestore, files
<1>3. journal' \in Journals
  BY <1>2 DEF Journals
<1>4. TypeOK'
  BY <1>1, <1>2, <1>3, ItemsAre DEF Inv, TypeOK
<1>5. journal' # NoJournal
  BY <1>3, NothingAssumption
<1>6. \A p \in Paths : Untouched(p)' /\ Kept(p)'
  BY <1>1, <1>2 DEF Untouched, Kept
<1> QED BY <1>1, <1>2, <1>4, <1>5, <1>6
        DEF Inv, Journalled, Exchanges, BackedUp, Migrating, ApplySteps

LEMMA MoveAsideKeepsInv ==
    ASSUME Inv, MoveAside
    PROVE  Inv' /\ journal # NoJournal /\ UNCHANGED <<journal, original, backups>>
<1>1. /\ pc = "aside" /\ item \in 1..3 /\ journal # NoJournal /\ ~server
      /\ Here \in Paths /\ Copied(Here) /\ \A p \in Paths : Kept(p)
  BY ItemsArePaths DEF Inv, Journalled, Exchanges, MoveAside, Here
<1>2. /\ stash' = [stash EXCEPT ![Here] = Aside(Here)]
      /\ dest' = IF Moves(Here) THEN [dest EXCEPT ![Here] = Absent] ELSE dest
      /\ pc' = "place"
      /\ UNCHANGED <<staged, journal, record, backups, item, then, chosen, original, server, faults>>
  BY DEF MoveAside, command
<1>t. /\ stash \in [Paths -> Contents] /\ dest \in [Paths -> Contents] /\ Here' = Here
      /\ journal \in Journals
  BY <1>1, <1>2 DEF Inv, TypeOK, Here
<1>3. /\ Aside(Here) = original[Here]
      /\ dest'[Here] = Absent /\ stash'[Here] = original[Here]
      /\ \A p \in Paths \ {Here} : dest'[p] = dest[p] /\ stash'[p] = stash[p]
  BY <1>1, <1>2, <1>t DEF Copied, Untouched, Kept, Aside, Moves
<1>4. TypeOK'
  <2>1. dest' \in [Paths -> Contents] /\ stash' \in [Paths -> Contents]
    BY <1>1, <1>2, <1>t, <1>3, WholeIs DEF Inv, TypeOK, Contents
  <2> QED BY <1>2, <2>1 DEF Inv, TypeOK
<1>5. Moved(Here)'
  BY <1>1, <1>2, <1>t, <1>3 DEF Copied, Moved, Copy, Stages
<1>6. \A p \in Paths \ {Here} : /\ Exchanged(p) => Exchanged(p)'
                                /\ Copied(p) => Copied(p)'
  BY <1>2, <1>3 DEF Exchanged, Copied, Untouched, Copy, Stages
<1>7. \A p \in Paths : Kept(p)'
  BY <1>1, <1>2, <1>3 DEF Kept
<1>8. \A i \in 1..3 : /\ i < item => Exchanged(Items[i])'
                      /\ i > item => Copied(Items[i])'
  <2>1. ASSUME NEW i \in 1..3, i # item PROVE Items[i] \in Paths \ {Here}
    BY <1>1, <2>1, ItemsArePaths DEF Here
  <2> QED BY <1>1, <1>6, <2>1 DEF Inv, Exchanges
<1>9. Exchanges'
  BY <1>1, <1>2, <1>5, <1>8 DEF Exchanges
<1> QED BY <1>1, <1>2, <1>4, <1>7, <1>9 DEF Inv, Journalled, BackedUp, Migrating, ApplySteps

LEMMA PlaceKeepsInv ==
    ASSUME Inv, Place
    PROVE  Inv' /\ journal # NoJournal /\ UNCHANGED <<journal, original, backups>>
<1>1. /\ pc = "place" /\ item \in 1..3 /\ journal # NoJournal /\ ~server
      /\ Here \in Paths /\ Moved(Here) /\ chosen \in backups
      /\ \A p \in Paths : Kept(p)
  BY ItemsArePaths DEF Inv, Journalled, Exchanges, BackedUp, Place, Here
<1>2. /\ dest' = IF staged[Here] # Absent
                 THEN [dest EXCEPT ![Here] = staged[Here]] ELSE dest
      /\ staged' = [staged EXCEPT ![Here] = Absent]
      /\ \/ (item < 3 /\ item' = item + 1 /\ pc' = "aside")
         \/ (item = 3 /\ item' = 1 /\ pc' = "clean")
      /\ UNCHANGED <<stash, journal, record, backups, then, chosen, server, original, faults>>
  BY <1>1, ItemsAre DEF Place
<1>t. /\ staged \in [Paths -> Contents] /\ dest \in [Paths -> Contents]
      /\ journal \in Journals /\ chosen \in [Paths -> Contents]
  BY <1>1, WholeIs DEF Inv, TypeOK
<1>3. /\ dest'[Here] = Copy(Here) /\ stash'[Here] = original[Here]
      /\ \A p \in Paths \ {Here} : dest'[p] = dest[p] /\ staged'[p] = staged[p]
  BY <1>1, <1>2, <1>t DEF Moved
<1>4. TypeOK'
  <2>1. dest' \in [Paths -> Contents] /\ staged' \in [Paths -> Contents]
    BY <1>1, <1>2, <1>t DEF Contents
  <2>2. item' \in 0..Len(Items) + 1
    BY <1>1, <1>2, ItemsAre
  <2> QED BY <1>2, <2>1, <2>2 DEF Inv, TypeOK
<1>h. PICK h \in Paths : h = Here
  BY <1>1
<1>5. Exchanged(h)'
  BY <1>2, <1>3, <1>h DEF Exchanged, Copy, Stages
<1>6. \A p \in Paths \ {h} : /\ Exchanged(p) => Exchanged(p)'
                             /\ Copied(p) => Copied(p)'
  BY <1>2, <1>3, <1>h DEF Exchanged, Copied, Untouched, Copy, Stages
<1>7. \A p \in Paths : Kept(p)'
  <2>1. \A p \in Paths \ {h} : Kept(p)'
    BY <1>1, <1>2, <1>3, <1>h DEF Kept
  <2>2. Kept(h)'
    BY <1>1, <1>2, <1>3, <1>h DEF Kept, Moved
  <2> QED BY <2>1, <2>2
<1>k. PICK k \in 1..3 : k = item
  BY <1>1
<1>8. \A i \in 1..3 : /\ i <= k => Exchanged(Items[i])'
                      /\ i > k => Copied(Items[i])'
  <2>1. ASSUME NEW i \in 1..3, i # k PROVE Items[i] \in Paths \ {h}
    BY <1>h, <1>k, <2>1, ItemsArePaths DEF Here
  <2>2. ASSUME NEW i \in 1..3, i < k PROVE Exchanged(Items[i])'
    BY <1>1, <1>6, <1>k, <2>1, <2>2 DEF Inv, Exchanges
  <2>3. ASSUME NEW i \in 1..3, i > k PROVE Copied(Items[i])'
    BY <1>1, <1>6, <1>k, <2>1, <2>3 DEF Inv, Exchanges
  <2>4. Exchanged(Items[k])'
    <3>1. h = Items[k]
      BY <1>h, <1>k DEF Here
    <3> QED BY <1>5, <3>1
  <2> QED BY <2>2, <2>3, <2>4
<1>9. Exchanges' /\ Journalled'
  <2>1. CASE item < 3
    <3>1. item' = k + 1 /\ pc' = "aside" /\ item' \in 1..3
      BY <1>2, <1>k, <2>1
    <3>2. \A i \in 1..3 : /\ i < item' => Exchanged(Items[i])'
                          /\ i > item' => Copied(Items[i])'
      BY <1>8, <3>1
    <3>3. PICK g \in Paths : g = Items[k + 1]
      BY <3>1, ItemsArePaths
    <3>4. Copied(g)'
      BY <1>8, <3>1, <3>3
    <3>5. Copied(Here)'
      BY <3>1, <3>3, <3>4 DEF Here, Copied, Untouched, Copy, Stages
    <3>6. Exchanges'
      BY <3>1, <3>2, <3>5 DEF Exchanges
    <3> QED BY <1>1, <1>2, <1>7, <3>1, <3>6 DEF Journalled, ApplySteps
  <2>2. CASE item = 3
    <3>1. item' = 1 /\ pc' = "clean"
      BY <1>2, <2>2
    <3>2. \A p \in Paths : dest'[p] = Copy(p)'
      <4>1. \A i \in 1..3 : Exchanged(Items[i])'
        BY <1>8, <1>k, <2>2
      <4> QED BY <4>1, ItemsArePaths DEF Exchanged
    <3>3. \A p \in Paths : Copy(p)' = chosen[p]
      <4>1. chosen["wal"] = Absent
        BY <1>1 DEF Inv, BackedUp
      <4> QED BY <1>2, <4>1 DEF Copy, Stages
    <3>4. dest' = chosen'
      <4>1. dest' \in [Paths -> Contents] /\ chosen' \in [Paths -> Contents]
        BY <1>2, <1>4, <1>t DEF TypeOK
      <4> QED BY <1>2, <3>2, <3>3, <4>1
    <3> QED BY <1>1, <1>2, <3>1, <3>4 DEF Exchanges, Journalled, ApplySteps
  <2> QED BY <1>1, <2>1, <2>2
<1> QED BY <1>1, <1>2, <1>4, <1>9 DEF Inv, BackedUp, Migrating

\* With the journal goes all that remains of the originals.
LEMMA CleaningKeepsInv ==
    ASSUME Inv, CleanItem \/ EndClean
    PROVE  /\ Inv' /\ journal # NoJournal /\ UNCHANGED <<original, backups>>
           /\ UNCHANGED journal \/ (journal' = NoJournal /\ dest' \in backups)
<1>1. /\ pc = "clean" /\ journal # NoJournal /\ ~server /\ dest = chosen
      /\ chosen \in backups /\ chosen \in Whole /\ item \in 1..4
      /\ UNCHANGED <<dest, staged, record, backups, then, chosen, server, original, faults>>
  BY DEF Inv, TypeOK, Journalled, Exchanges, BackedUp, CleanItem, EndClean, files
<1>2. CASE CleanItem
  <2>1. item \in 1..3 /\ Here \in Paths
    BY <1>1, <1>2, ItemsAre, ItemsArePaths DEF CleanItem, Here
  <2>2. /\ UNCHANGED <<journal, pc>>
        /\ \/ item' = item /\ stash' = [stash EXCEPT ![Here] = "torn"]
           \/ item' = item + 1 /\ stash' = [stash EXCEPT ![Here] = Absent]
    BY <1>2 DEF CleanItem
  <2>3. stash \in [Paths -> Contents] /\ stash' \in [Paths -> Contents]
    BY <2>1, <2>2 DEF Inv, TypeOK, Contents, Directories
  <2>4. TypeOK'
    BY <1>1, <2>1, <2>2, <2>3, ItemsAre DEF Inv, TypeOK
  <2>5. \A i \in 1..3 : i < item' => stash'[Items[i]] = Absent
    <3>1. ASSUME NEW i \in 1..3, i < item PROVE Items[i] \in Paths \ {Here}
      BY <2>1, <3>1, ItemsArePaths DEF Here
    <3>2. ASSUME NEW i \in 1..3, i < item PROVE stash'[Items[i]] = Absent
      BY <1>1, <2>1, <2>2, <2>3, <3>1, <3>2 DEF Inv, Exchanges
    <3>3. CASE item' = item
      BY <3>2, <3>3
    <3>4. CASE item' = item + 1 /\ stash' = [stash EXCEPT ![Here] = Absent]
      <4>1. stash'[Items[item]] = Absent
        BY <2>1, <2>3, <3>4 DEF Here
      <4> QED BY <2>1, <3>2, <3>4, <4>1
    <3> QED BY <2>2, <3>3, <3>4
  <2>6. item' \in 1..4
    BY <2>1, <2>2
  <2> QED BY <1>1, <2>2, <2>4, <2>5, <2>6
          DEF Inv, Journalled, Exchanges, BackedUp, Migrating, ApplySteps
<1>3. CASE EndClean
  <2>1. UNCHANGED stash /\ journal' = NoJournal /\ item' = 1 /\ pc' = "clear" /\ item > 3
    BY <1>3, ItemsAre DEF EndClean, files
  <2>2. \A p \in Paths : stash'[p] = Absent
    BY <1>1, <2>1, ItemsArePaths DEF Inv, Exchanges
  <2>3. TypeOK'
    BY <1>1, <2>1, ItemsAre DEF Inv, TypeOK
  <2> QED BY <1>1, <2>1, <2>2, <2>3, OutsideRestores
          DEF Inv, BackedUp, Migrating, ApplySteps
<1> QED BY <1>2, <1>3

-----------------------------------------------------------------------------
(* The roll-back. *)

LEMMA UndoKeepsInv ==
    ASSUME Inv, UndoItem \/ PutBack
    PROVE  Inv' /\ journal # NoJournal /\ UNCHANGED <<journal, original, backups>>
<1>1. /\ pc \in {"undo", "putback"} /\ item \in 1..3 /\ journal # NoJournal /\ ~server
      /\ journal \in Journals /\ Here \in Paths /\ chosen \in backups
      /\ dest \in [Paths -> Contents] /\ stash \in [Paths -> Contents]
      /\ staged \in [Paths -> Contents] /\ original \in [Paths -> Contents]
      /\ \A p \in Paths : Kept(p)
      /\ UNCHANGED <<journal, record, backups, then, chosen, server, original, faults>>
  BY ItemsArePaths, WholeIs
     DEF Inv, TypeOK, Journalled, Exchanges, BackedUp, UndoItem, PutBack, Here
<1>h. PICK h \in Paths, k \in 1..3 : h = Here /\ k = item /\ h = Items[k]
  BY <1>1 DEF Here
<1>i. \A i \in 1..3 : i # k => Items[i] \in Paths \ {h}
  BY <1>h, ItemsArePaths
<1>2. \A i \in 1..3 : i > k => Untouched(Items[i])
  BY <1>1, <1>h DEF Inv, Exchanges
<1>3. /\ staged' \in [Paths -> Contents] /\ stash' \in [Paths -> Contents]
      /\ dest' \in [Paths -> Contents]
  BY <1>1 DEF UndoItem, PutBack, Contents
<1>4. \A p \in Paths \ {h} : dest'[p] = dest[p] /\ stash'[p] = stash[p]
  BY <1>1, <1>h DEF UndoItem, PutBack
<1>5. \/ /\ pc' = "putback" /\ item' = k /\ Kept(h)' /\ stash'[h] = original[h] /\ journal[h]
      \/ /\ pc' = "undo" /\ item' = k - 1 /\ Kept(h)' /\ Untouched(h)'
  <2>1. CASE UndoItem /\ journal[h] /\ stash[h] # Absent
    BY <1>1, <1>h, <2>1 DEF UndoItem, NeedsUndo, Kept
  <2>2. CASE UndoItem /\ journal[h] /\ stash[h] = Absent
    BY <1>1, <1>h, <2>2 DEF UndoItem, NeedsUndo, Kept, Untouched
  <2>3. CASE UndoItem /\ ~journal[h]
    BY <1>1, <1>h, <2>3 DEF UndoItem, Kept, Untouched
  <2>4. CASE PutBack
    <3>1. journal[h] /\ stash[h] = original[h]
      BY <1>h, <2>4 DEF PutBack, Inv, Exchanges
    <3> QED BY <1>1, <1>h, <2>4, <3>1 DEF PutBack, Kept, Untouched
  <2> QED BY <2>1, <2>2, <2>3, <2>4
<1>6. \A p \in Paths : Kept(p)'
  <2>1. \A p \in Paths \ {h} : Kept(p)'
    BY <1>1, <1>4 DEF Kept
  <2> QED BY <1>5, <2>1
<1>7. \A i \in 1..3 : i > k => Untouched(Items[i])'
  BY <1>1, <1>2, <1>4, <1>i DEF Untouched
<1>8. TypeOK'
  BY <1>1, <1>3, <1>5, ItemsAre DEF Inv, TypeOK
<1>9. Exchanges'
  <2>1. CASE /\ pc' = "putback" /\ item' = k /\ stash'[h] = original[h] /\ journal[h]
    <3>1. Here' = h
      BY <1>h, <2>1 DEF Here
    <3>2. journal'[Here'] /\ stash'[Here'] = original'[Here']
      BY <1>1, <2>1, <3>1
    <3> QED BY <1>7, <2>1, <3>2 DEF Exchanges
  <2>2. CASE pc' = "undo" /\ item' = k - 1 /\ Untouched(h)'
    <3>1. \A i \in 1..3 : i > item' => Untouched(Items[i])'
      BY <1>7, <1>h, <2>2
    <3> QED BY <2>2, <3>1 DEF Exchanges
  <2> QED BY <1>5, <2>1, <2>2
<1> QED BY <1>1, <1>5, <1>6, <1>8, <1>9 DEF Inv, Journalled, BackedUp, Migrating, ApplySteps

\* A roll-back that has come to its end has put back all originals.
LEMMA EndUndoKeepsInv ==
    ASSUME Inv, EndUndo
    PROVE  /\ Inv' /\ journal # NoJournal /\ journal' = NoJournal /\ dest' = original
           /\ UNCHANGED <<original, backups>>
<1>1. /\ pc = "undo" /\ item = 0 /\ journal # NoJournal /\ ~server /\ chosen \in backups
      /\ stash' = [p \in Paths |-> Absent] /\ journal' = NoJournal /\ item' = 1 /\ pc' = then
      /\ UNCHANGED <<dest, staged, record, backups, then, chosen, server, original, faults>>
  BY DEF Inv, Journalled, BackedUp, EndUndo
<1>2. \A p \in Paths : dest[p] = original[p]
  BY <1>1, ItemsArePaths DEF Inv, Exchanges, Untouched
<1>3. dest = original /\ dest \in Whole
  <2>1. original \in Whole /\ original \in [Paths -> Contents] /\ dest \in [Paths -> Contents]
    BY WholeIs DEF Inv, TypeOK
  <2> QED BY <1>2, <2>1
<1>4. TypeOK'
  <2>1. stash' \in [Paths -> Contents]
    BY <1>1 DEF Contents
  <2> QED BY <1>1, <2>1, ItemsAre DEF Inv, TypeOK
<1>5. then \in {"check", "idle"}
  BY DEF Inv, TypeOK
<1> QED BY <1>1, <1>3, <1>4, <1>5
        DEF Inv, Journalled, Exchanges, BackedUp, Migrating, ApplySteps

LEMMA InvIsInductive == ASSUME CleansUp PROVE Inv /\ [Next]_vars => Inv'
<1>1. ASSUME Inv, UNCHANGED vars PROVE Inv'
  BY <1>1 DEF vars, Inv, TypeOK, Journalled, Exchanges, BackedUp, Migrating, Kept,
       Untouched, Copied, Moved, Exchanged, Copy, Stages, Here
<1> QED BY <1>1, ApplyChanges, CommandMoves, BackupKeepsInv, ServerKeepsInv, PlanKeepsInv,
        MoveAsideKeepsInv, PlaceKeepsInv, CleaningKeepsInv, UndoKeepsInv, EndUndoKeepsInv
        DEF Next, Apply, Restore

-----------------------------------------------------------------------------
(* The theorems. *)

\* Every variable has its type, for any number of faults and backups.
THEOREM TypeCorrect == ASSUME CleansUp PROVE Spec => []TypeOK
<1>1. Inv => TypeOK
  BY DEF Inv
<1> QED BY <1>1, InitInv, InvIsInductive, PTL DEF Spec

\* At every moment the parts of one version are together, or each original is
\* in its place or in the stash, however often commands fail or are killed.
THEOREM PartsAreKept == ASSUME CleansUp PROVE Spec => []PartsKept
<1>1. Inv => PartsKept
  <2> SUFFICES ASSUME Inv PROVE PartsKept
    OBVIOUS
  <2>1. WholeWithoutJournal
    BY DEF Inv, Journalled, WholeWithoutJournal
  <2>2. OriginalsKept
    BY DEF Inv, Journalled, Kept, OriginalsKept
  <2> QED BY <2>1, <2>2 DEF PartsKept
<1> QED BY <1>1, InitInv, InvIsInductive, PTL DEF Spec

\* One step of the exchange, as AtomicRestore sees it.
LEMMA RestoreStep ==
    ASSUME CleansUp, Inv, [Next]_vars
    PROVE  [Restoring!Next]_(Restoring!vars)
<1> DEFINE data == IF journal = NoJournal THEN dest ELSE NoJournal
<1>n. dest \in Whole => dest # NoJournal
  BY NothingAssumption
<1>1. ASSUME UNCHANGED <<journal, original, backups>>, journal # NoJournal
      PROVE  UNCHANGED Restoring!vars
  BY <1>1 DEF Restoring!vars
<1>2. ASSUME UNCHANGED <<journal, original, backups>>, journal = NoJournal,
             dest' \in Whole, dest \in Whole
      PROVE  Restoring!Change
  BY <1>2, <1>n DEF Restoring!Change
<1>3. CASE \/ ApplyNothing \/ StartApply \/ ApplySchema \/ SchemaBreaks \/ RunTasks
           \/ CompleteTasks \/ Succeed \/ StartServer \/ StopServer
  BY <1>2, <1>3, ApplyChanges, ServerKeepsInv DEF Inv, Journalled, Restoring!Next
<1>4. CASE \/ Classify \/ ApplyFails \/ RefuseRestore \/ ClearRecord \/ Stops
           \/ StageCopies \/ RestoreFails \/ StartRestore
  BY <1>4, CommandMoves DEF Restoring!vars
<1>5. CASE TakeBackup
  BY <1>5, <1>n, BackupKeepsInv DEF Restoring!vars, Restoring!Next, Restoring!Backup
<1>6. CASE PlanRestore
  BY <1>6, <1>n, PlanKeepsInv DEF Inv, Journalled, Restoring!Next, Restoring!Begin
<1>7. CASE MoveAside \/ Place \/ UndoItem \/ PutBack
  BY <1>1, <1>7, MoveAsideKeepsInv, PlaceKeepsInv, UndoKeepsInv
<1>8. CASE CleanItem \/ EndClean
  BY <1>1, <1>8, CleaningKeepsInv DEF Restoring!Next, Restoring!End
<1>9. CASE EndUndo
  BY <1>9, EndUndoKeepsInv DEF Restoring!Next, Restoring!End
<1>10. CASE UNCHANGED vars
  BY <1>10 DEF vars, Restoring!vars
<1> QED BY <1>3, <1>4, <1>5, <1>6, <1>7, <1>8, <1>9, <1>10 DEF Next, Apply, Restore

\* A restore gives back a whole backup or what it found, also when it was
\* interrupted any number of times, rolled back by a later run, and refused
\* there: the refinement.
THEOREM RestoreIsAtomic == ASSUME CleansUp PROVE Spec => RestoresAtomically
<1>1. Init => Restoring!Init
  BY DEF Init, Restoring!Init
<1> QED BY <1>1, InitInv, InvIsInductive, RestoreStep, PTL
        DEF Spec, RestoresAtomically, Restoring!Spec

=============================================================================
