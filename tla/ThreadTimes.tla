----------------------------- MODULE ThreadTimes -----------------------------
(***************************************************************************)
(* The data-migration task thread-message-times-v1                         *)
(* (grpc-admin/src/db_migrate/thread_message_times_v1.rs).  It fills the   *)
(* first and last message time of every thread in the RDB, and then        *)
(* replaces the LanceDB table of the thread vectors, which copies these    *)
(* times, by a table that has them: it copies the rows to a staging table, *)
(* empties and refills the canonical table from it, rebuilds the indexes   *)
(* and drops the staging table.  The RDB and LanceDB share no transaction; *)
(* a checkpoint in the task's row says how far the task has come.          *)
(*                                                                         *)
(* An operator runs the task until it is completed.  Each running command  *)
(* is an execution here; it may fail or be killed between any two durable  *)
(* steps, or be slower than its lease, so that another one takes over      *)
(* while it is still at work.  The servers are stopped meanwhile (the      *)
(* maintenance window the command asks for), so nobody else writes.        *)
(***************************************************************************)
EXTENDS TaskLease, FiniteSets

CONSTANTS
    N,            \* thread ids are 1..N
    Threads,      \* the threads in the RDB
    Indexed,      \* the threads the vector table has rows of, deleted ones too
    Executions,   \* commands that may run at the same time
    StallsAnywhere,
                  \* whether an execution may outlive its lease also in the
                  \* steps that touch LanceDB without asking for the lease
    MaxClaims,    \* bound: how often the task is claimed
    MaxFaults,    \* bound: errors and kills
    MaxStalls     \* bound: leases that expire under a live execution

ASSUME ConstantsAssumption ==
    /\ N \in Nat
    /\ Threads \subseteq 1..N
    /\ Indexed \subseteq 1..N
    /\ StallsAnywhere \in BOOLEAN
    /\ MaxClaims \in Nat /\ MaxFaults \in Nat /\ MaxStalls \in Nat

VARIABLES
    origin,     \* what was there before: no vector table, a table, or the
                \* staged / switching state of the tool this task succeeds
    task,       \* the task's row
    times,      \* the threads whose times are filled in the RDB
    canonical,  \* the vector table the servers read
    staging,    \* its copy
    indexed,    \* whether the canonical table has its search indexes
    pc,         \* the next step of an execution
    mine,       \* the fencing token an execution was given
    cp,         \* an execution's copy of the checkpoint
    copied,     \* the last thread an execution copied to staging
    faults, stalls

vars == <<origin, task, times, canonical, staging, indexed, pc, mine, cp,
          copied, faults, stalls>>

tables == <<canonical, staging, indexed>>
execution == <<pc, mine, cp, copied>>
budget == <<faults, stalls>>

-----------------------------------------------------------------------------
(* Data.                                                                   *)

Origins == {"none", "table", "staged", "switching"}

\* RdbPhase and VectorPhase; `completed' is split by its outcome.
RdbPhases == <<"pending", "backfilling", "verified">>
VectorPhases == <<"pending", "not_required", "staged", "switching",
                  "canonical_ready", "indexes_verified", "migrated", "unneeded">>

RangeOf(s) == {s[i] : i \in DOMAIN s}

Checkpoints ==
    [rdb : RangeOf(RdbPhases), last : 0..N,
     vector : RangeOf(VectorPhases), cleanup : BOOLEAN]

NewCheckpoint ==
    [rdb |-> "pending", last |-> 0, vector |-> "pending", cleanup |-> FALSE]

\* Checkpoint::validate.
Valid(c) ==
    /\ c.last # 0 => c.rdb = "backfilling"
    /\ c.cleanup => c.vector = "indexes_verified"

\* Phases that need the staging table.
NeedsStaging(c) ==
    c.vector \in {"staged", "switching", "canonical_ready", "indexes_verified"}

\* A vector table; a row is a thread and whether it carries the thread's times.
Rows == (1..N) \X BOOLEAN
NoTable == [exists |-> FALSE, rows |-> {}]
Holding(rows) == [exists |-> TRUE, rows |-> rows]

OldRows == Indexed \X {FALSE}
NewRows == (Indexed \cap Threads) \X {TRUE}

\* Opening a table creates it when it is missing.
Opened(table) == [table EXCEPT !.exists = TRUE]

Ids(table) == {row[1] : row \in table.rows}

\* verify_vector_table_against_rdb.
AgainstRdb(table) == \A row \in table.rows : row[1] \in Threads /\ row[2]

\* verify_staging_against_canonical.
CopyOf(copy, table) ==
    /\ AgainstRdb(copy)
    /\ Ids(copy) = Ids(table) \cap Threads

-----------------------------------------------------------------------------
(* Executions.                                                             *)

\* Steps inside a transaction that holds the row's lock.
InTransaction == {"refill", "append", "indexing", "purge", "purged"}

\* Steps the lease does not protect: between the claim, or the last renewal,
\* and the next statement that asks for the token LanceDB may be changed.
Exposed == {"load", "sync", "drop", "create", "copy"}

Steps == {"idle", "begin", "backfill", "check", "skip", "skipped", "adopt",
          "renew", "switch", "cutover", "index", "cleanup", "verify",
          "complete"} \union InTransaction \union Exposed

Running(e) == pc[e] # "idle"

Fenced(e) == Owns(task, mine[e])

Goto(e, step) == pc' = [pc EXCEPT ![e] = step]

\* save_checkpoint_tx.
Save(e, c) ==
    /\ Fenced(e)
    /\ task' = Checkpointed(task, c)
    /\ cp' = [cp EXCEPT ![e] = c]

\* renew_lease.
Renew(e) ==
    /\ Fenced(e)
    /\ task' = Renewed(task)

Init ==
    /\ origin \in Origins
    /\ task = NewTask(NewCheckpoint)
    /\ times \in SUBSET Threads
    /\ canonical \in CASE origin = "none"      -> {NoTable}
                       [] origin = "switching" -> {NoTable, Holding({})}
                       [] OTHER                -> {Holding(OldRows)}
    /\ staging = IF origin \in {"staged", "switching"}
                 THEN Holding(NewRows) ELSE NoTable
    /\ indexed \in BOOLEAN
    /\ pc = [e \in Executions |-> "idle"]
    /\ mine = [e \in Executions |-> 0]
    /\ cp = [e \in Executions |-> NewCheckpoint]
    /\ copied = [e \in Executions |-> 0]
    /\ faults = 0 /\ stalls = 0

\* Mutant: the fenced operations commit the renewal before they start.
AlwaysUnlocked == TRUE

\* FOR UPDATE: no transaction of an execution holds the row.
Unlocked == \A e \in Executions : pc[e] \notin InTransaction

\* apply: the claim waits for a transaction that holds the row.
Claim(e) ==
    /\ pc[e] = "idle"
    /\ task.token < MaxClaims
    /\ Claimable(task) /\ Unlocked
    /\ task' = Claimed(task)
    /\ mine' = [mine EXCEPT ![e] = task.token + 1]
    /\ Goto(e, "load")
    /\ UNCHANGED <<origin, times, tables, cp, copied, budget>>

\* load_checkpoint: an ordinary read, some time after the claim.
LoadCheckpoint(e) ==
    /\ pc[e] = "load"
    /\ cp' = [cp EXCEPT ![e] = task.cp]
    /\ Goto(e, CASE task.cp.rdb = "pending"     -> "begin"
                 [] task.cp.rdb = "backfilling" -> "backfill"
                 [] task.cp.rdb = "verified"    -> "sync")
    /\ UNCHANGED <<origin, task, times, tables, mine, copied, budget>>

-----------------------------------------------------------------------------
(* backfill_rdb.                                                           *)

BeginBackfill(e) ==
    /\ pc[e] = "begin"
    /\ Save(e, [cp[e] EXCEPT !.rdb = "backfilling", !.last = 0])
    /\ Goto(e, "backfill")
    /\ UNCHANGED <<origin, times, tables, mine, copied, budget>>

\* Mutant: the last thread of a batch is left to the next one.
BatchShort(after, last) == {t \in Threads : after < t /\ t < last}

\* The threads of a batch that ends with thread `last'; the batch size is
\* configuration, so a batch may end anywhere.
Batch(after, last) == {t \in Threads : after < t /\ t <= last}

\* One transaction writes the times of the batch and the new cursor.
BackfillBatch(e) ==
    /\ pc[e] = "backfill"
    /\ \E last \in Threads :
         /\ last > cp[e].last
         /\ Save(e, [cp[e] EXCEPT !.last = last])
         /\ times' = times \union Batch(cp[e].last, last)
    /\ UNCHANGED <<origin, tables, pc, mine, copied, budget>>

\* Mutant: the cursor stays in the verified checkpoint.
SealedAtCursor(c) == [c EXCEPT !.rdb = "verified"]

Sealed(c) == [c EXCEPT !.rdb = "verified", !.last = 0]

SealBackfill(e) ==
    /\ pc[e] = "backfill"
    /\ \A t \in Threads : t <= cp[e].last
    /\ Save(e, Sealed(cp[e]))
    /\ Goto(e, "check")
    /\ UNCHANGED <<origin, times, tables, mine, copied, budget>>

\* verify_inner with verify_vector; it renews the lease page by page.
Verified ==
    /\ times = Threads
    /\ task.cp.vector = "migrated" =>
         canonical.exists /\ AgainstRdb(canonical) /\ indexed

Verify(e) ==
    /\ pc[e] \in {"check", "verify"}
    /\ Verified
    /\ Renew(e)
    /\ Goto(e, IF pc[e] = "check" THEN "sync" ELSE "complete")
    /\ UNCHANGED <<origin, times, tables, mine, cp, copied, budget>>

-----------------------------------------------------------------------------
(* sync_vector.                                                            *)

\* The state the predecessor left is adopted while this task has none.
Adoptable(c) == c.vector = "pending" /\ origin \in {"staged", "switching"}

\* Mutant: a missing canonical table is taken for a store without vectors
\* whatever the phase.
EntryIfTable(c) ==
    CASE c.vector = "migrated" /\ canonical.exists        -> "verify"
      [] c.vector = "unneeded"                            -> "verify"
      [] Adoptable(c) /\ staging.exists                   -> "adopt"
      [] ~canonical.exists                                -> "skip"
      [] c.vector = "pending"                             -> "drop"
      [] c.vector = "staged" /\ staging.exists            -> "switch"
      [] c.vector = "switching" /\ staging.exists         -> "cutover"
      [] c.vector = "canonical_ready" /\ staging.exists   -> "index"
      [] c.vector = "indexes_verified" /\ staging.exists  -> "cleanup"
      [] OTHER                                            -> "refused"

\* Mutant: an unfinished switch starts over with a new copy.
EntryOver(c) ==
    CASE c.vector = "migrated" /\ canonical.exists        -> "verify"
      [] c.vector = "unneeded"                            -> "verify"
      [] Adoptable(c) /\ staging.exists                   -> "adopt"
      [] c.vector \in {"pending", "not_required"}
           /\ ~Adoptable(c) /\ ~canonical.exists          -> "skip"
      [] c.vector \in {"pending", "staged", "switching"}  -> "drop"
      [] c.vector = "canonical_ready" /\ staging.exists   -> "index"
      [] c.vector = "indexes_verified" /\ staging.exists  -> "cleanup"
      [] OTHER                                            -> "refused"

\* Where the task continues, from the checkpoint and the tables present.  An
\* intermediate phase without its staging table is refused, also when the
\* table went in a cleanup that had been announced in the checkpoint.
Entry(c) ==
    CASE c.vector = "migrated" /\ canonical.exists        -> "verify"
      [] c.vector = "unneeded"                            -> "verify"
      [] Adoptable(c) /\ staging.exists                   -> "adopt"
      [] c.vector \in {"pending", "not_required"}
           /\ ~Adoptable(c) /\ ~canonical.exists          -> "skip"
      [] c.vector = "pending" /\ ~Adoptable(c)
           /\ canonical.exists                            -> "drop"
      [] c.vector = "staged" /\ staging.exists            -> "switch"
      [] c.vector = "switching" /\ staging.exists         -> "cutover"
      [] c.vector = "canonical_ready" /\ staging.exists   -> "index"
      [] c.vector = "indexes_verified" /\ staging.exists  -> "cleanup"
      [] OTHER                                            -> "refused"

EnterSync(e) ==
    /\ pc[e] = "sync"
    /\ Entry(cp[e]) # "refused"
    /\ Goto(e, Entry(cp[e]))
    /\ UNCHANGED <<origin, task, times, tables, mine, cp, copied, budget>>

\* There is no vector table: two checkpoints, `not_required' and its outcome.
SkipVectors(e) ==
    /\ pc[e] \in {"skip", "skipped"}
    /\ IF pc[e] = "skip"
       THEN /\ Save(e, [cp[e] EXCEPT !.vector = "not_required"])
            /\ Goto(e, "skipped")
       ELSE /\ Save(e, [cp[e] EXCEPT !.vector = "unneeded"])
            /\ Goto(e, "verify")
    /\ UNCHANGED <<origin, times, tables, mine, copied, budget>>

AdoptLegacy(e) ==
    /\ pc[e] = "adopt"
    /\ Save(e, [cp[e] EXCEPT !.vector = origin])
    /\ Goto(e, IF origin = "staged" THEN "switch" ELSE "cutover")
    /\ UNCHANGED <<origin, times, tables, mine, copied, budget>>

\* A staging table left by an earlier execution is dropped, without asking
\* for the lease.
DropStaging(e) ==
    /\ pc[e] = "drop"
    /\ staging' = NoTable
    /\ Goto(e, "create")
    /\ UNCHANGED <<origin, task, times, canonical, indexed, mine, cp, copied, budget>>

\* Opening the repositories of both tables creates the missing ones.
CreateStaging(e) ==
    /\ pc[e] = "create"
    /\ staging' = Opened(staging)
    /\ canonical' = Opened(canonical)
    /\ copied' = [copied EXCEPT ![e] = 0]
    /\ Goto(e, "renew")
    /\ UNCHANGED <<origin, task, times, indexed, mine, cp, budget>>

\* Threads still to be copied.
Uncopied(e) == {t \in Ids(canonical) : t > copied[e]}

\* The lease is renewed before each thread.
RenewCopy(e) ==
    /\ pc[e] = "renew"
    /\ Uncopied(e) # {}
    /\ Renew(e)
    /\ Goto(e, "copy")
    /\ UNCHANGED <<origin, times, tables, mine, cp, copied, budget>>

\* The rows of the next thread, with its times; a thread that is no longer in
\* the RDB is left out.
CopyThread(e) ==
    /\ pc[e] = "copy"
    /\ staging.exists
    /\ \E t \in Uncopied(e) :
         /\ \A u \in Uncopied(e) : t <= u
         /\ staging' = Holding(staging.rows \union ({t} \cap Threads) \X {TRUE})
         /\ copied' = [copied EXCEPT ![e] = t]
    /\ Goto(e, "renew")
    /\ UNCHANGED <<origin, task, times, canonical, indexed, mine, cp, budget>>

MarkStaged(e) ==
    /\ pc[e] = "renew"
    /\ Uncopied(e) = {}
    /\ CopyOf(staging, canonical)
    /\ Save(e, [cp[e] EXCEPT !.vector = "staged"])
    /\ Goto(e, "switch")
    /\ UNCHANGED <<origin, times, tables, mine, copied, budget>>

MarkSwitching(e) ==
    /\ pc[e] = "switch"
    /\ AgainstRdb(staging)
    /\ canonical.exists => CopyOf(staging, canonical)
    /\ Save(e, [cp[e] EXCEPT !.vector = "switching"])
    /\ staging' = Opened(staging)
    /\ Goto(e, "cutover")
    /\ UNCHANGED <<origin, times, canonical, indexed, mine, copied, budget>>

-----------------------------------------------------------------------------
(* cutover_with_fenced_ownership: from the renewal on the transaction      *)
(* holds the row; the row itself changes when it commits.                  *)

DropCanonical(e) ==
    /\ pc[e] = "cutover"
    /\ AgainstRdb(staging)
    /\ Fenced(e)
    /\ staging' = Opened(staging)
    /\ canonical' = NoTable
    /\ indexed' = FALSE
    /\ Goto(e, "refill")
    /\ UNCHANGED <<origin, task, times, mine, cp, copied, budget>>

CreateCanonical(e) ==
    /\ pc[e] = "refill"
    /\ canonical' = Opened(canonical)
    /\ Goto(e, "append")
    /\ UNCHANGED <<origin, task, times, staging, indexed, mine, cp, copied, budget>>

\* A batch of the staging rows; batches may be of any size.
AppendBatch(e) ==
    /\ pc[e] = "append"
    /\ \E batch \in SUBSET (staging.rows \ canonical.rows) :
         /\ batch # {}
         /\ canonical' = Holding(canonical.rows \union batch)
    /\ UNCHANGED <<origin, task, times, staging, indexed, execution, budget>>

\* The tables are compared, and the checkpoint is saved, before the commit.
CommitCutover(e) ==
    /\ pc[e] = "append"
    /\ canonical.rows = staging.rows
    /\ Save(e, [cp[e] EXCEPT !.vector = "canonical_ready"])
    /\ Goto(e, "index")
    /\ UNCHANGED <<origin, times, tables, mine, copied, budget>>

\* build_indexes_with_fenced_ownership.
BuildIndexes(e) ==
    /\ pc[e] = "index"
    /\ AgainstRdb(staging) /\ AgainstRdb(canonical)
    /\ canonical.rows = staging.rows
    /\ Fenced(e)
    /\ canonical' = Opened(canonical)
    /\ staging' = Opened(staging)
    /\ indexed' = TRUE
    /\ Goto(e, "indexing")
    /\ UNCHANGED <<origin, task, times, mine, cp, copied, budget>>

CommitIndexes(e) ==
    /\ pc[e] = "indexing"
    /\ Save(e, [cp[e] EXCEPT !.vector = "indexes_verified"])
    /\ Goto(e, "cleanup")
    /\ UNCHANGED <<origin, times, tables, mine, copied, budget>>

\* cleanup_staging_with_fenced_ownership: first the announcement ...
AnnounceCleanup(e) ==
    /\ pc[e] = "cleanup"
    /\ staging.exists \/ cp[e].cleanup
    /\ staging.exists => /\ AgainstRdb(staging) /\ AgainstRdb(canonical)
                         /\ canonical.rows = staging.rows
    /\ Save(e, [cp[e] EXCEPT !.cleanup = TRUE])
    /\ Goto(e, "purge")
    /\ UNCHANGED <<origin, times, tables, mine, copied, budget>>

\* ... then, in a transaction that holds the row, the table and ...
PurgeStaging(e) ==
    /\ pc[e] = "purge"
    /\ Fenced(e)
    /\ staging' = NoTable
    /\ Goto(e, "purged")
    /\ UNCHANGED <<origin, task, times, canonical, indexed, mine, cp, copied, budget>>

\* ... the outcome.
CommitCleanup(e) ==
    /\ pc[e] = "purged"
    /\ Save(e, [cp[e] EXCEPT !.vector = "migrated", !.cleanup = FALSE])
    /\ Goto(e, "verify")
    /\ UNCHANGED <<origin, times, tables, mine, copied, budget>>

\* complete.
Complete(e) ==
    /\ pc[e] = "complete"
    /\ Fenced(e)
    /\ task' = CompletedTask(task)
    /\ Goto(e, "idle")
    /\ UNCHANGED <<origin, times, tables, mine, cp, copied, budget>>

-----------------------------------------------------------------------------
(* Errors, kills and leases.                                               *)

\* The statement that asks for the token comes too late.
LoseLease(e) ==
    /\ Running(e) /\ pc[e] \notin Exposed
    /\ ~Fenced(e)
    /\ Goto(e, "idle")
    /\ UNCHANGED <<origin, task, times, tables, mine, cp, copied, budget>>

\* What the step at hand refuses to go on with.
Unsound(e) ==
    \/ pc[e] \in {"check", "verify"} /\ ~Verified
    \/ pc[e] = "sync" /\ Entry(cp[e]) = "refused"
    \/ pc[e] = "copy" /\ ~(staging.exists /\ Uncopied(e) # {})
    \/ pc[e] = "renew" /\ Uncopied(e) = {} /\ ~CopyOf(staging, canonical)
    \/ pc[e] = "switch" /\ ~(/\ AgainstRdb(staging)
                             /\ canonical.exists => CopyOf(staging, canonical))
    \/ pc[e] = "cutover" /\ ~AgainstRdb(staging)
    \/ /\ \/ pc[e] = "index"
          \/ pc[e] = "cleanup" /\ staging.exists
       /\ ~(/\ AgainstRdb(staging) /\ AgainstRdb(canonical)
            /\ canonical.rows = staging.rows)
    \/ pc[e] = "cleanup" /\ ~staging.exists /\ ~cp[e].cleanup

\* fail: the failure is recorded if the row is still this execution's; an
\* open transaction is rolled back first.
Failing(e) ==
    /\ task' = IF Fenced(e) THEN FailedTask(task) ELSE task
    /\ Goto(e, "idle")
    /\ UNCHANGED <<origin, times, tables, mine, cp, copied>>

Refuse(e) == Unsound(e) /\ Failing(e) /\ UNCHANGED budget

\* An error of the RDB or of LanceDB.
Fail(e) ==
    /\ Running(e)
    /\ faults < MaxFaults /\ faults' = faults + 1
    /\ Failing(e)
    /\ UNCHANGED stalls

\* The command is killed: nothing is recorded.
Killed(e) ==
    /\ Running(e)
    /\ faults < MaxFaults /\ faults' = faults + 1
    /\ Goto(e, "idle")
    /\ UNCHANGED <<origin, task, times, tables, mine, cp, copied, stalls>>

\* The lease runs out with nobody left to renew it ...
Expire ==
    /\ Leased(task)
    /\ \A e \in Executions : ~(Running(e) /\ Fenced(e))
    /\ task' = [task EXCEPT !.live = FALSE]
    /\ UNCHANGED <<origin, times, tables, execution, budget>>

\* ... or under an execution that is slower than its lease.
Stall(e) ==
    /\ Leased(task) /\ Running(e) /\ Fenced(e)
    /\ stalls < MaxStalls /\ stalls' = stalls + 1
    /\ StallsAnywhere \/ pc[e] \notin Exposed
    /\ task' = [task EXCEPT !.live = FALSE]
    /\ UNCHANGED <<origin, times, tables, execution, faults>>

\* What an execution does by itself.
Advance(e) ==
    \/ LoadCheckpoint(e) \/ BeginBackfill(e) \/ BackfillBatch(e)
    \/ SealBackfill(e) \/ Verify(e) \/ EnterSync(e) \/ SkipVectors(e)
    \/ AdoptLegacy(e) \/ DropStaging(e) \/ CreateStaging(e) \/ RenewCopy(e)
    \/ CopyThread(e) \/ MarkStaged(e) \/ MarkSwitching(e) \/ DropCanonical(e)
    \/ CreateCanonical(e) \/ AppendBatch(e) \/ CommitCutover(e)
    \/ BuildIndexes(e) \/ CommitIndexes(e) \/ AnnounceCleanup(e)
    \/ PurgeStaging(e) \/ CommitCleanup(e) \/ Complete(e)
    \/ LoseLease(e) \/ Refuse(e)

Next ==
    \/ \E e \in Executions : \/ Claim(e) \/ Advance(e)
                             \/ Fail(e) \/ Killed(e) \/ Stall(e)
    \/ Expire

Spec == Init /\ [][Next]_vars

\* A command that is neither killed nor failing goes on, time passes, and the
\* operator runs the command again.
FairSpec ==
    /\ Spec
    /\ \A e \in Executions : WF_vars(Advance(e))
    /\ WF_vars(Expire)
    /\ WF_vars(\E e \in Executions : Claim(e))

-----------------------------------------------------------------------------
(* Properties.                                                             *)

Tables == [exists : BOOLEAN, rows : SUBSET Rows]

\* Every variable has its type, and every checkpoint, stored or held by an
\* execution, is one Checkpoint::validate accepts.
TypeOK ==
    /\ origin \in Origins
    /\ task \in TaskRows(Checkpoints) /\ Valid(task.cp)
    /\ times \subseteq Threads
    /\ canonical \in Tables /\ staging \in Tables /\ indexed \in BOOLEAN
    /\ \A t \in {canonical, staging} : t.exists \/ t.rows = {}
    /\ pc \in [Executions -> Steps]
    /\ mine \in [Executions -> Nat]
    /\ cp \in [Executions -> Checkpoints] /\ \A e \in Executions : Valid(cp[e])
    /\ copied \in [Executions -> 0..N]
    /\ faults \in Nat /\ stalls \in Nat

\* The rows of a thread that still exists are in the canonical table or all of
\* them are in staging, whatever was interrupted: "a failure after the
\* canonical drop is resumable" (thread_vector/repository.rs:167).
NothingLost ==
    origin # "none" => \/ Indexed \cap Threads \subseteq Ids(canonical)
                       \/ staging = Holding(NewRows)

\* What the stored checkpoint says of the RDB and of the two tables is so: it
\* is all the next execution goes by.
CheckpointHolds ==
    LET c == task.cp IN
    /\ c.rdb = "backfilling" => Batch(0, c.last) \subseteq times
    /\ c.rdb = "verified" => times = Threads
    /\ c.vector \in {"staged", "switching"} => staging = Holding(NewRows)
    /\ c.vector \in {"canonical_ready", "indexes_verified", "migrated"} =>
         canonical = Holding(NewRows)
    /\ c.vector \in {"indexes_verified", "migrated"} => indexed
    /\ c.vector \in {"not_required", "unneeded"} => origin = "none"

\* A completed task has filled every thread, and the servers find every vector
\* row once, with the times, the indexes built and no staging table left.
CompletedIsWhole ==
    task.state = "completed" =>
        /\ times = Threads
        /\ origin # "none" =>
             canonical = Holding(NewRows) /\ indexed /\ staging = NoTable

IndexIn(s, x) == CHOOSE i \in DOMAIN s : s[i] = x

\* Checkpoint d is c or a later one.
Ahead(c, d) ==
    /\ IndexIn(RdbPhases, c.rdb) <= IndexIn(RdbPhases, d.rdb)
    /\ c.rdb = d.rdb => c.last <= d.last
    /\ IndexIn(VectorPhases, c.vector) <= IndexIn(VectorPhases, d.vector)
    /\ c.vector = d.vector /\ c.cleanup => d.cleanup

\* The stored checkpoint never goes back, although every execution writes its
\* own copy of it, read some time ago, and may have been overtaken since.
NeverBackwards == [][Ahead(task.cp, task'.cp)]_vars

\* Times and tables change only by the hand of the execution whose token is in
\* the row; in particular none takes over inside a cutover.
OnlyTheHolder ==
    [][ <<times, canonical, staging>>' # <<times, canonical, staging>> =>
          \E e \in Executions : Fenced(e) /\ Advance(e) ]_vars

\* The staging table went in an announced cleanup whose transaction did not
\* commit; every later execution refuses to go on (l. 640).
CleanupLost ==
    task.cp.vector = "indexes_verified" /\ task.cp.cleanup /\ ~staging.exists

\* The operator's repeated runs complete the task, unless the cleanup was lost.
FinishesUnlessLost == <>[](task.state = "completed" \/ CleanupLost)

\* The exchange of the table as its readers see it.
content ==
    CASE origin = "none" \/ canonical = Holding(NewRows) -> "new"
      [] origin # "none" /\ canonical # Holding(NewRows)
           /\ canonical = Holding(OldRows)               -> "old"
      [] OTHER                                           -> "partial"

Exchange == INSTANCE Replacement WITH
    content <- content, settled <- task.state = "completed"

\* Readers of the canonical table see an exchange that starts from the old
\* rows, never returns to them and is complete when the task says so.
Exchanges == Exchange!Spec

=============================================================================
