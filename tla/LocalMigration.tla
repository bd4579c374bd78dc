---------------------------- MODULE LocalMigration ----------------------------
(***************************************************************************)
(* `memories-db-migrate local apply' and `local restore' on a SQLite       *)
(* database and the LanceDB directory beside it                            *)
(* (grpc-admin/src/db_migrate/local/, bin/memories_db_migrate/             *)
(* local_command.rs).                                                      *)
(*                                                                         *)
(* apply records the attempt in a file, takes a backup and migrates; when  *)
(* it fails, the record says whether a retry will do or a restore is       *)
(* required.  restore replaces the database, its WAL and the resource one  *)
(* after the other, moving every original into a stash first; a journal    *)
(* names them, and a run that finds a journal first rolls back.            *)
(*                                                                         *)
(* One command runs at a time; it may be killed between any two changes of *)
(* the file system.  A server may have the database open between commands. *)
(***************************************************************************)
EXTENDS Naturals, Sequences, FiniteSets

CONSTANTS
    Absent,         \* a path that does not exist
    NoJournal,
    CleanupStops,   \* whether a restore may stop while it removes its stashes
    MaxFaults,      \* bound: errors and kills
    MaxBackups      \* bound: complete backups

ASSUME ConstantsAssumption ==
    /\ CleanupStops \in BOOLEAN
    /\ MaxFaults \in Nat /\ MaxBackups \in Nat

VARIABLES
    dest,      \* what each path holds
    stash,     \* the original a restore moved aside
    staged,    \* the copy from the backup waiting beside its destination
    journal,   \* the durable plan of a restore: which originals were present
    record,    \* the durable record of the last attempt
    backups,   \* the complete backups
    pc,        \* the step of the running command
    item,      \* the item it is at
    then,      \* what follows a roll-back
    chosen,    \* the backup being restored
    server,    \* whether another process has the database open
    original,  \* history: the data set the restore in progress found
    faults

vars == <<dest, stash, staged, journal, record, backups, pc, item, then,
          chosen, server, original, faults>>

files == <<dest, stash, staged>>
command == <<item, then, chosen, original>>

-----------------------------------------------------------------------------
(* Data.                                                                   *)

\* The order of the plan.  The shared-memory file goes with the WAL.
Items == <<"database", "wal", "resource">>
Paths == {Items[i] : i \in DOMAIN Items}

\* The database: before the migration, with the schema but tasks to do, with
\* everything done, or with a schema that matches no version.  The WAL is
\* named for the database it belongs to; the resource is a directory, of which
\* a removal that stopped leaves a part.
Databases == {"old", "schema", "done", "corrupt"}
Directories == {"old", "new", "torn"}
Contents == Databases \union Directories \union {Absent}

\* Data sets whose parts belong together.
Whole ==
    {d \in [Paths -> Contents] :
       /\ d["database"] \in Databases
       /\ d["wal"] \in {Absent, d["database"]}
       /\ d["resource"] \in CASE d["database"] = "old"  -> {Absent, "old"}
                              [] d["database"] = "done" -> {"new"}
                              [] OTHER                  -> {Absent, "old", "new"}}

\* A write goes through the WAL.
Written(d, db) == [d EXCEPT !["database"] = db, !["wal"] = db]

\* Closing the last connection folds the WAL into the database.
Closed(d) == [d EXCEPT !["wal"] = Absent]

Records == {"none", "running", "retry", "restore_required", "succeeded"}

Journals == [Paths -> BOOLEAN]

\* What stands for nothing is nothing else.
ASSUME NothingAssumption ==
    /\ Absent \notin Databases \union Directories
    /\ NoJournal \notin Journals \union Whole

Here == Items[item]

\* `staged' of the plan: the database always, the resource if the backup has it.
Stages(path) == path # "wal" /\ chosen[path] # Absent

Init ==
    /\ dest \in {d \in Whole : d["database"] = "old"}
    /\ stash = [p \in Paths |-> Absent]
    /\ staged = [p \in Paths |-> Absent]
    /\ journal = NoJournal
    /\ record = "none"
    /\ backups = {}
    /\ pc = "idle" /\ item = 1 /\ then = "check"
    /\ chosen = dest /\ original = dest
    /\ server = FALSE
    /\ faults = 0

-----------------------------------------------------------------------------
(* local apply.                                                            *)

\* refuse_pending_restore, the writer check and the plan.
Refused ==
    \/ journal # NoJournal
    \/ record = "restore_required"
    \/ server
    \/ dest["database"] = "corrupt"

ApplyNothing ==
    /\ pc = "idle" /\ ~Refused
    /\ dest["database"] = "done"
    /\ record \notin {"none", "succeeded"}
    /\ record' = "succeeded"
    /\ dest' = Closed(dest)
    /\ UNCHANGED <<stash, staged, journal, backups, pc, command, server, faults>>

StartApply ==
    /\ pc = "idle" /\ ~Refused
    /\ dest["database"] # "done"
    /\ record' = "running"
    /\ dest' = Closed(dest)
    /\ pc' = "backup"
    /\ UNCHANGED <<stash, staged, journal, backups, command, server, faults>>

\* The manifest is written last and makes the backup complete.  A policy
\* without backups skips it.
TakeBackup ==
    /\ pc = "backup"
    /\ \/ /\ Cardinality(backups) < MaxBackups
          /\ backups' = backups \union {dest}
       \/ UNCHANGED backups
    /\ pc' = "schema"
    /\ UNCHANGED <<files, journal, record, command, server, faults>>

ApplySchema ==
    /\ pc = "schema"
    /\ dest' = IF dest["database"] = "old" THEN Written(dest, "schema") ELSE dest
    /\ pc' = "tasks"
    /\ UNCHANGED <<stash, staged, journal, record, backups, command, server, faults>>

\* A schema change that stops half-way.
SchemaBreaks ==
    /\ pc = "schema" /\ dest["database"] = "old"
    /\ faults < MaxFaults /\ faults' = faults + 1
    /\ dest' = Written(dest, "corrupt")
    /\ pc' \in {"classify", "idle"}
    /\ UNCHANGED <<stash, staged, journal, record, backups, command, server>>

\* The tasks change the resource before they are recorded as completed.
RunTasks ==
    /\ pc = "tasks"
    /\ dest' = [dest EXCEPT !["resource"] = "new"]
    /\ pc' = "completed"
    /\ UNCHANGED <<stash, staged, journal, record, backups, command, server, faults>>

CompleteTasks ==
    /\ pc = "completed"
    /\ dest' = Written(dest, "done")
    /\ pc' = "succeed"
    /\ UNCHANGED <<stash, staged, journal, record, backups, command, server, faults>>

Succeed ==
    /\ pc = "succeed"
    /\ record' = "succeeded"
    /\ dest' = Closed(dest)
    /\ pc' = "idle"
    /\ UNCHANGED <<stash, staged, journal, backups, command, server, faults>>

ApplySteps == {"backup", "schema", "tasks", "completed", "succeed", "classify"}

\* failure_line: a damaged schema demands a restore.
Classify ==
    /\ pc = "classify"
    /\ record' = IF dest["database"] = "corrupt" THEN "restore_required" ELSE "retry"
    /\ pc' = "idle"
    /\ UNCHANGED <<files, journal, backups, command, server, faults>>

-----------------------------------------------------------------------------
(* local restore.                                                          *)

\* Mutant: without copies beside the destinations there is nothing to undo.
InterruptedCopies == journal # NoJournal /\ \E p \in Paths : staged[p] # Absent

\* RestoreJournal::load.
Interrupted == journal # NoJournal

\* A run that finds a journal rolls back before it does anything else.
StartRestore ==
    /\ pc = "idle"
    /\ \E b \in backups : chosen' = b
    /\ IF Interrupted
       THEN pc' = "undo" /\ item' = Len(Items)
       ELSE pc' = "check" /\ UNCHANGED item
    /\ then' = "check"
    /\ UNCHANGED <<files, journal, record, backups, server, original, faults>>

\* Mutant: originals are put back from the stash only when the destination is
\* missing, that is, when nothing was placed.
NeedsUndoMissing(path) == stash[path] # Absent /\ dest[path] = Absent

\* roll_back, in the reverse order of the plan.
NeedsUndo(path) == stash[path] # Absent

UndoItem ==
    /\ pc = "undo" /\ item > 0
    /\ staged' = [staged EXCEPT ![Here] = Absent]
    /\ IF journal[Here]
       THEN IF NeedsUndo(Here)
            THEN /\ dest' = [dest EXCEPT ![Here] = Absent]
                 /\ pc' = "putback" /\ UNCHANGED item
            ELSE item' = item - 1 /\ UNCHANGED <<dest, pc>>
       ELSE /\ dest' = [dest EXCEPT ![Here] = Absent]
            /\ item' = item - 1 /\ UNCHANGED pc
    /\ UNCHANGED <<stash, journal, record, backups, then, chosen, server, original, faults>>

PutBack ==
    /\ pc = "putback"
    /\ dest' = [dest EXCEPT ![Here] = stash[Here]]
    /\ stash' = [stash EXCEPT ![Here] = Absent]
    /\ item' = item - 1 /\ pc' = "undo"
    /\ UNCHANGED <<staged, journal, record, backups, then, chosen, server, original, faults>>

\* remove_stashes has nothing left to remove; the journal goes.
EndUndo ==
    /\ pc = "undo" /\ item = 0
    /\ stash' = [p \in Paths |-> Absent]
    /\ journal' = NoJournal
    /\ item' = 1
    /\ pc' = then
    /\ UNCHANGED <<dest, staged, record, backups, then, chosen, server, original, faults>>

\* validate_backup, ensure_no_other_connection, ensure_space: a refusal here
\* ends the command.
RefuseRestore ==
    /\ pc = "check"
    /\ \/ server /\ UNCHANGED faults
       \/ faults < MaxFaults /\ faults' = faults + 1
    /\ pc' = "idle"
    /\ UNCHANGED <<files, journal, record, backups, command, server>>

\* plan, and the journal is stored.
PlanRestore ==
    /\ pc = "check" /\ ~server
    /\ journal' = [p \in Paths |-> dest[p] # Absent]
    /\ original' = dest
    /\ item' = 1
    /\ pc' = "stage"
    /\ UNCHANGED <<files, record, backups, then, chosen, server, faults>>

StageCopies ==
    /\ pc = "stage"
    /\ staged' = [p \in Paths |-> IF Stages(p) THEN chosen[p] ELSE Absent]
    /\ pc' = "aside"
    /\ UNCHANGED <<dest, stash, journal, record, backups, command, server, faults>>

\* Mutant: only what a copy replaces is moved aside.
MovesReplaced(path) == journal[path] /\ Stages(path)

Moves(path) == journal[path]

\* What the stash holds once the path was moved aside.
Aside(path) == IF Moves(path) THEN dest[path] ELSE Absent

\* swap: the original is moved aside ...
MoveAside ==
    /\ pc = "aside"
    /\ stash' = [stash EXCEPT ![Here] = Aside(Here)]
    /\ dest' = IF Moves(Here) THEN [dest EXCEPT ![Here] = Absent] ELSE dest
    /\ pc' = "place"
    /\ UNCHANGED <<staged, journal, record, backups, command, server, faults>>

\* ... and the copy is renamed into its place.
Place ==
    /\ pc = "place"
    /\ dest' = IF staged[Here] # Absent
               THEN [dest EXCEPT ![Here] = staged[Here]] ELSE dest
    /\ staged' = [staged EXCEPT ![Here] = Absent]
    /\ IF item < Len(Items) THEN item' = item + 1 /\ pc' = "aside"
                            ELSE item' = 1 /\ pc' = "clean"
    /\ UNCHANGED <<stash, journal, record, backups, then, chosen, server, original, faults>>

\* remove_stashes: a file goes at once, a directory entry by entry.
CleanItem ==
    /\ pc = "clean" /\ item <= Len(Items)
    /\ LET partly == Here = "resource" /\ stash[Here] \notin {Absent, "torn"} IN
       IF partly
       THEN stash' = [stash EXCEPT ![Here] = "torn"] /\ UNCHANGED item
       ELSE stash' = [stash EXCEPT ![Here] = Absent] /\ item' = item + 1
    /\ UNCHANGED <<dest, staged, journal, record, backups, pc, then, chosen, server, original, faults>>

EndClean ==
    /\ pc = "clean" /\ item > Len(Items)
    /\ journal' = NoJournal
    /\ item' = 1 /\ pc' = "clear"
    /\ UNCHANGED <<files, record, backups, then, chosen, server, original, faults>>

\* Mutant: the record of the failed attempt is kept.
KeepRecord ==
    /\ pc = "clear"
    /\ pc' = "idle"
    /\ UNCHANGED <<files, journal, record, backups, command, server, faults>>

ClearRecord ==
    /\ pc = "clear"
    /\ record' = "none"
    /\ pc' = "idle"
    /\ UNCHANGED <<files, journal, backups, command, server, faults>>

-----------------------------------------------------------------------------
(* Failures and the server.                                                *)

\* An error while copying or exchanging: the run rolls back itself.
RestoreFails ==
    /\ pc \in {"stage", "aside", "place"}
    /\ faults < MaxFaults /\ faults' = faults + 1
    /\ pc' = "undo" /\ item' = Len(Items) /\ then' = "idle"
    /\ UNCHANGED <<files, journal, record, backups, chosen, server, original>>

\* An error of a migration step.
ApplyFails ==
    /\ pc \in ApplySteps \ {"classify"}
    /\ faults < MaxFaults /\ faults' = faults + 1
    /\ pc' = "classify"
    /\ UNCHANGED <<files, journal, record, backups, command, server>>

\* The command is killed, or stops on an error of the roll-back or of the
\* removal of the stashes, which it reports without doing anything more.
Stops ==
    /\ pc # "idle"
    /\ CleanupStops \/ pc # "clean"
    /\ faults < MaxFaults /\ faults' = faults + 1
    /\ pc' = "idle" /\ item' = 1
    /\ UNCHANGED <<files, journal, record, backups, then, chosen, server, original>>

\* The operator starts a server on a data set no command asked to restore.
StartServer ==
    /\ pc = "idle" /\ ~Refused
    /\ dest["database"] \in {"old", "done"}
    /\ server' = TRUE
    /\ dest' = Written(dest, dest["database"])
    /\ UNCHANGED <<stash, staged, journal, record, backups, pc, command, faults>>

\* A server that is killed leaves its WAL.
StopServer ==
    /\ server
    /\ server' = FALSE
    /\ dest' \in {dest, Closed(dest)}
    /\ pc = "idle"
    /\ UNCHANGED <<stash, staged, journal, record, backups, pc, command, faults>>

Apply ==
    \/ ApplyNothing \/ StartApply \/ TakeBackup \/ ApplySchema \/ RunTasks
    \/ CompleteTasks \/ Succeed \/ Classify

\* The steps of a restore after its start.
Restore ==
    \/ UndoItem \/ PutBack \/ EndUndo \/ RefuseRestore \/ PlanRestore
    \/ StageCopies \/ MoveAside \/ Place \/ CleanItem \/ EndClean \/ ClearRecord

Next ==
    \/ Apply \/ StartRestore \/ Restore
    \/ SchemaBreaks \/ ApplyFails \/ RestoreFails \/ Stops
    \/ StartServer \/ StopServer

Spec == Init /\ [][Next]_vars

\* A command goes on unless it is stopped, the server is stopped for the
\* maintenance, and the operator repeats a restore that was interrupted or is
\* required.
FairSpec ==
    /\ Spec
    /\ WF_vars(Apply) /\ WF_vars(Restore) /\ WF_vars(StopServer)
    /\ WF_vars(StartRestore /\ (journal # NoJournal \/ record = "restore_required"))

-----------------------------------------------------------------------------
(* Properties.                                                             *)

\* Every variable has its type; a restore is planned over a data set whose
\* parts belong together.
TypeOK ==
    /\ dest \in [Paths -> Contents]
    /\ stash \in [Paths -> Contents] /\ staged \in [Paths -> Contents]
    /\ journal \in Journals \union {NoJournal}
    /\ record \in Records
    /\ backups \subseteq Whole
    /\ pc \in ApplySteps \union {"idle", "undo", "putback", "check", "stage",
                                 "aside", "place", "clean", "clear"}
    /\ item \in 0..Len(Items) + 1
    /\ then \in {"check", "idle"}
    /\ chosen \in Whole /\ original \in Whole
    /\ server \in BOOLEAN
    /\ faults \in Nat

\* Without a journal nothing of the data set is elsewhere, and what is there
\* belongs together: no command or server meets the database of one version
\* with the WAL or the resource of another ("restoring every resource of a
\* backup as one unit", restore.rs:1).  A run that has rolled back and not yet
\* decided whether to go on is left out.
WholeWithoutJournal ==
    journal = NoJournal /\ pc # "check" =>
      dest \in Whole /\ \A p \in Paths : stash[p] = Absent

\* As long as a restore has not placed everything, each original is still in
\* its place or in the stash, so that the roll-back can return to it
\* ("originals are moved aside (never deleted)", restore.rs:3).
OriginalsKept ==
    journal # NoJournal /\ pc # "clean" =>
      \A p \in Paths : journal[p] => original[p] \in {dest[p], stash[p]}

\* At every moment the parts of one version are together or can be put
\* together again.
PartsKept == WholeWithoutJournal /\ OriginalsKept

\* The promise of AtomicRestore, at the moments the journal appears and goes.
Restoring == INSTANCE AtomicRestore WITH
    data <- IF journal = NoJournal THEN dest ELSE NoJournal,
    before <- original, Exchanging <- NoJournal

\* A restore gives back a whole backup or what it found, also when it was
\* interrupted, rolled back by the next run, and refused there.
RestoresAtomically == Restoring!Spec

\* A restore that was begun, or that a failed attempt requires and a backup
\* allows, comes to its end when it is repeated.
RestoresFinish ==
    /\ journal # NoJournal ~> journal = NoJournal
    /\ record = "restore_required" /\ backups # {} ~> record = "none"

=============================================================================
