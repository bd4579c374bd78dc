--------------------------- MODULE ThreadTimesProofs ---------------------------
(***************************************************************************)
(* Proofs about the task thread-message-times-v1, for any threads, any     *)
(* number of executions and no bound on claims, faults and stalls.  What   *)
(* concerns the tables assumes, as the lease does, that no execution       *)
(* outlives its lease in the steps that do not ask for it (Punctual).      *)
(***************************************************************************)
EXTENDS ThreadTimes, TLAPS

Punctual == ~StallsAnywhere

-----------------------------------------------------------------------------
(* The invariant.                                                          *)

\* Two executions under way have different tokens, and only the last claim
\* can own the row.
Tokens ==
    /\ \A e \in Executions : mine[e] <= task.token
    /\ \A e, f \in Executions : Running(e) /\ Running(f) /\ mine[e] = mine[f] => e = f

\* The copy an execution has of the checkpoint fits its step.
Fits(e) ==
    LET c == cp[e] IN
    /\ pc[e] = "begin" => c.rdb = "pending"
    /\ pc[e] = "backfill" => c.rdb = "backfilling"
    /\ pc[e] \notin {"idle", "load", "begin", "backfill"} => c.rdb = "verified"
    /\ pc[e] = "skip" => c.vector \in {"pending", "not_required"}
    /\ pc[e] = "skipped" => c.vector = "not_required"
    /\ pc[e] \in {"adopt", "drop", "create", "renew", "copy"} => c.vector = "pending"
    /\ pc[e] = "adopt" => origin \in {"staged", "switching"}
    /\ pc[e] = "switch" => c.vector = "staged"
    /\ pc[e] \in {"cutover", "refill", "append"} => c.vector = "switching"
    /\ pc[e] \in {"index", "indexing"} => c.vector = "canonical_ready"
    /\ pc[e] \in {"cleanup", "purge", "purged"} => c.vector = "indexes_verified"
    /\ pc[e] \in {"verify", "complete"} => c.vector \in {"migrated", "unneeded"}

\* Who owns the row knows the checkpoint in it.
Knows(e) == Running(e) /\ pc[e] # "load" /\ Fenced(e) => cp[e] = task.cp

LeaseInv == TypeOK /\ Tokens /\ \A e \in Executions : Fits(e) /\ Knows(e)

\* Whoever is in a step that does not ask for the lease still has it, and
\* whoever is in a transaction over the row still owns it.
Holds(e) ==
    /\ pc[e] \in Exposed => Fenced(e) /\ task.live
    /\ pc[e] \in InTransaction => Fenced(e)

\* The rows copied so far.
Copied(e) == {t \in Indexed \cap Threads : t <= copied[e]} \X {TRUE}

\* What the owner of the row has made of the tables at its step, and what its
\* step says of where the task came from.
Made(e) ==
    /\ pc[e] = "create" => staging = NoTable
    /\ pc[e] \in {"renew", "copy"} /\ Fenced(e) => staging = Holding(Copied(e))
    /\ pc[e] = "refill" => canonical = NoTable
    /\ pc[e] = "append" => canonical.exists /\ canonical.rows \subseteq NewRows
    /\ pc[e] = "indexing" => indexed
    /\ pc[e] = "purged" => staging = NoTable
    /\ pc[e] \in {"skip", "skipped"} => origin = "none"
    /\ pc[e] \in {"drop", "create", "renew", "copy"} => origin = "table"

\* The tables before the checkpoint says anything of them, and after it has
\* said all.
Tabled ==
    /\ origin = "none" => canonical = NoTable /\ staging = NoTable
    /\ origin = "table" /\ task.cp.vector = "pending" => canonical = Holding(OldRows)
    /\ origin \in {"staged", "switching"} /\ task.cp.vector = "pending" =>
         staging = Holding(NewRows)
    /\ task.cp.vector = "migrated" => staging = NoTable
    /\ task.state = "completed" =>
         task.cp.rdb = "verified" /\ task.cp.vector \in {"migrated", "unneeded"}

DataInv ==
    /\ LeaseInv /\ CheckpointHolds /\ Tabled
    /\ \A e \in Executions : Holds(e) /\ Made(e)

-----------------------------------------------------------------------------
\* The phases as sets: the prover sees no more of the two tuples.
LEMMA Phases ==
    /\ RangeOf(RdbPhases) = {"pending", "backfilling", "verified"}
    /\ RangeOf(VectorPhases) =
         {"pending", "not_required", "staged", "switching", "canonical_ready",
          "indexes_verified", "migrated", "unneeded"}
<1>1. DOMAIN RdbPhases = 1..3 /\ DOMAIN VectorPhases = 1..8
  BY DEF RdbPhases, VectorPhases
<1>2. RangeOf(RdbPhases) = {RdbPhases[1], RdbPhases[2], RdbPhases[3]}
  BY <1>1 DEF RangeOf
<1>3. RangeOf(VectorPhases) =
        {VectorPhases[1], VectorPhases[2], VectorPhases[3], VectorPhases[4],
         VectorPhases[5], VectorPhases[6], VectorPhases[7], VectorPhases[8]}
  BY <1>1 DEF RangeOf
<1> QED
  BY <1>2, <1>3 DEF RdbPhases, VectorPhases

\* The tables the task makes.
LEMMA SomeTables ==
    /\ NoTable \in Tables
    /\ \A rows \in SUBSET Rows : Holding(rows) \in Tables
    /\ OldRows \in SUBSET Rows /\ NewRows \in SUBSET Rows /\ {} \in SUBSET Rows
<1>1. OldRows \in SUBSET Rows /\ NewRows \in SUBSET Rows
  BY ConstantsAssumption DEF OldRows, NewRows, Rows
<1> QED
  BY <1>1 DEF NoTable, Holding, Tables

\* The fields of a checkpoint after an update of some of them.
LEMMA Edited ==
    ASSUME NEW c \in Checkpoints, NEW r, NEW l, NEW v, NEW b
    PROVE  /\ [c EXCEPT !.rdb = r, !.last = 0] =
                [rdb |-> r, last |-> 0, vector |-> c.vector, cleanup |-> c.cleanup]
           /\ [c EXCEPT !.last = l] =
                [rdb |-> c.rdb, last |-> l, vector |-> c.vector, cleanup |-> c.cleanup]
           /\ [c EXCEPT !.vector = v] =
                [rdb |-> c.rdb, last |-> c.last, vector |-> v, cleanup |-> c.cleanup]
           /\ [c EXCEPT !.cleanup = b] =
                [rdb |-> c.rdb, last |-> c.last, vector |-> c.vector, cleanup |-> b]
           /\ [c EXCEPT !.vector = v, !.cleanup = b] =
                [rdb |-> c.rdb, last |-> c.last, vector |-> v, cleanup |-> b]
<1>2. [c EXCEPT !.rdb = r, !.last = 0] =
        [rdb |-> r, last |-> 0, vector |-> c.vector, cleanup |-> c.cleanup]
  <2>1. [c EXCEPT !.rdb = r] =
          [rdb |-> r, last |-> c.last, vector |-> c.vector, cleanup |-> c.cleanup]
    BY DEF Checkpoints
  <2>2. [[rdb |-> r, last |-> c.last, vector |-> c.vector, cleanup |-> c.cleanup]
           EXCEPT !.last = 0] =
          [rdb |-> r, last |-> 0, vector |-> c.vector, cleanup |-> c.cleanup]
    OBVIOUS
  <2> QED
    BY <2>1, <2>2, Zenon
<1>3. [c EXCEPT !.vector = v, !.cleanup = b] =
        [rdb |-> c.rdb, last |-> c.last, vector |-> v, cleanup |-> b]
  <2>1. [c EXCEPT !.vector = v] =
          [rdb |-> c.rdb, last |-> c.last, vector |-> v, cleanup |-> c.cleanup]
    BY DEF Checkpoints
  <2>2. [[rdb |-> c.rdb, last |-> c.last, vector |-> v, cleanup |-> c.cleanup]
           EXCEPT !.cleanup = b] =
          [rdb |-> c.rdb, last |-> c.last, vector |-> v, cleanup |-> b]
    OBVIOUS
  <2> QED
    BY <2>1, <2>2, Zenon
<1>4. /\ [c EXCEPT !.last = l] =
           [rdb |-> c.rdb, last |-> l, vector |-> c.vector, cleanup |-> c.cleanup]
      /\ [c EXCEPT !.vector = v] =
           [rdb |-> c.rdb, last |-> c.last, vector |-> v, cleanup |-> c.cleanup]
      /\ [c EXCEPT !.cleanup = b] =
           [rdb |-> c.rdb, last |-> c.last, vector |-> c.vector, cleanup |-> b]
  BY DEF Checkpoints
<1> QED
  BY <1>2, <1>3, <1>4

\* No execution is under way at first.
LEMMA LeaseInit == Init => LeaseInv
<1> USE ConstantsAssumption, Phases
<1> SUFFICES ASSUME Init PROVE LeaseInv
  OBVIOUS
<1>1. NewCheckpoint \in Checkpoints /\ Valid(NewCheckpoint)
  BY DEF NewCheckpoint, Checkpoints, Valid
<1>2. task \in TaskRows(Checkpoints) /\ task.cp = NewCheckpoint /\ task.token = 0
  BY <1>1 DEF Init, NewTask, TaskRows, TaskStates
<1>3. canonical \in Tables /\ staging \in Tables
  <2>1. CASE origin = "none"
    BY <2>1, SomeTables DEF Init
  <2>2. CASE origin = "switching"
    BY <2>2, SomeTables DEF Init
  <2>3. CASE origin \in {"table", "staged"}
    BY <2>3, SomeTables DEF Init
  <2> QED
    BY <2>1, <2>2, <2>3 DEF Init, Origins
<1>4. \A t \in {canonical, staging} : t.exists \/ t.rows = {}
  BY DEF Init, NoTable, Holding, Origins
<1>5. TypeOK
  BY <1>1, <1>2, <1>3, <1>4 DEF Init, TypeOK, Steps
<1> QED
  BY <1>2, <1>5 DEF Init, LeaseInv, Tokens, Fits, Knows, Running

\* What an entry to the vector phase says of checkpoint and tables.
LEMMA Entries ==
    ASSUME NEW c
    PROVE  /\ Entry(c) \in {"verify", "adopt", "skip", "drop", "switch", "cutover",
                            "index", "cleanup", "refused"}
           /\ Entry(c) = "verify" => c.vector \in {"migrated", "unneeded"}
           /\ Entry(c) = "adopt" => Adoptable(c)
           /\ Entry(c) = "skip" =>
                /\ c.vector \in {"pending", "not_required"}
                /\ ~Adoptable(c) /\ ~canonical.exists
           /\ Entry(c) = "drop" =>
                c.vector = "pending" /\ ~Adoptable(c) /\ canonical.exists
           /\ Entry(c) = "switch" => c.vector = "staged"
           /\ Entry(c) = "cutover" => c.vector = "switching"
           /\ Entry(c) = "index" => c.vector = "canonical_ready"
           /\ Entry(c) = "cleanup" => c.vector = "indexes_verified"
  BY Zenon DEF Entry

\* Reading the checkpoint after a claim.
LEMMA LoadStep ==
    ASSUME LeaseInv, NEW e \in Executions, LoadCheckpoint(e)
    PROVE  LeaseInv'
<1> USE ConstantsAssumption, Phases
<1>1. task.cp \in Checkpoints /\ Valid(task.cp)
  BY DEF LeaseInv, TypeOK, TaskRows
<1>2. task.cp.rdb \in {"pending", "backfilling", "verified"}
  BY <1>1 DEF Checkpoints
<1>3. /\ pc'[e] \in {"begin", "backfill", "sync"}
      /\ pc' = [pc EXCEPT ![e] = pc'[e]]
      /\ pc'[e] = "begin" => task.cp.rdb = "pending"
      /\ pc'[e] = "backfill" => task.cp.rdb = "backfilling"
      /\ pc'[e] = "sync" => task.cp.rdb = "verified"
  BY <1>2 DEF LoadCheckpoint, Goto, LeaseInv, TypeOK
<1>4. TypeOK'
  BY <1>1, <1>3 DEF LeaseInv, TypeOK, LoadCheckpoint, tables, budget, Steps, Exposed
<1>5. Tokens'
  BY <1>3 DEF LeaseInv, Tokens, TypeOK, LoadCheckpoint, Running
<1>6. \A f \in Executions : Fits(f)' /\ Knows(f)'
  BY <1>1, <1>3 DEF LeaseInv, Fits, Knows, TypeOK, LoadCheckpoint, Running, Fenced, Owns
<1> QED
  BY <1>4, <1>5, <1>6 DEF LeaseInv

\* The part of TypeOK that is not about the row and the executions.
DataTyped ==
    /\ origin \in Origins /\ times \subseteq Threads
    /\ canonical \in Tables /\ staging \in Tables /\ indexed \in BOOLEAN
    /\ \A t \in {canonical, staging} : t.exists \/ t.rows = {}
    /\ copied \in [Executions -> 0..N]
    /\ faults \in Nat /\ stalls \in Nat

\* An execution that owns the row saves a checkpoint and goes on.
LEMMA SaveKeeps ==
    ASSUME LeaseInv, NEW e \in Executions, NEW c \in Checkpoints, Valid(c),
           NEW p \in Steps \ {"load"}, Running(e), pc[e] # "load", Save(e, c),
           pc' = [pc EXCEPT ![e] = p], UNCHANGED <<origin, mine>>, DataTyped', Fits(e)'
    PROVE  LeaseInv' /\ task.cp = cp[e] /\ task'.cp = c
<1>1. /\ task' \in TaskRows(Checkpoints) /\ task'.cp = c
      /\ task'.token = task.token /\ task'.state = task.state
  BY DEF LeaseInv, TypeOK, Save, Checkpointed, TaskRows
<1>2. TypeOK'
  BY <1>1 DEF LeaseInv, TypeOK, DataTyped, Save
<1>3. Tokens'
  BY <1>1 DEF LeaseInv, TypeOK, Tokens, Running
<1>4. ASSUME NEW f \in Executions PROVE Fits(f)' /\ Knows(f)'
  <2>1. CASE f = e
    BY <1>1, <2>1 DEF LeaseInv, TypeOK, Knows, Save
  <2>2. CASE f # e
    <3>1. Fits(f)'
      BY <2>2 DEF LeaseInv, TypeOK, Fits, Save
    <3>2. Running(f)' /\ Fenced(f)' => Running(f) /\ mine[f] = mine[e]
      BY <1>1, <2>2 DEF LeaseInv, TypeOK, Running, Fenced, Owns, Save
    <3> QED
      BY <2>2, <3>1, <3>2 DEF LeaseInv, Tokens, Knows
  <2> QED
    BY <2>1, <2>2
<1>5. task.cp = cp[e]
  BY DEF LeaseInv, Knows, Save
<1> QED
  BY <1>1, <1>2, <1>3, <1>4, <1>5 DEF LeaseInv

\* An execution goes on without a checkpoint; the row is at most renewed.
LEMMA MoveKeeps ==
    ASSUME LeaseInv, NEW e \in Executions, NEW p \in Steps \ {"load"},
           Running(e), p = "idle" \/ pc[e] # "load", task' \in {task, Renewed(task)},
           pc' = [pc EXCEPT ![e] = p], UNCHANGED <<origin, mine, cp>>, DataTyped', Fits(e)'
    PROVE  LeaseInv'
<1>1. /\ task' \in TaskRows(Checkpoints) /\ task'.cp = task.cp
      /\ task'.token = task.token /\ task'.state = task.state
  BY DEF LeaseInv, TypeOK, Renewed, TaskRows
<1>2. TypeOK'
  BY <1>1 DEF LeaseInv, TypeOK, DataTyped
<1>3. Tokens'
  BY <1>1 DEF LeaseInv, TypeOK, Tokens, Running
<1>4. ASSUME NEW f \in Executions PROVE Fits(f)' /\ Knows(f)'
  BY <1>1 DEF LeaseInv, TypeOK, Fits, Knows, Running, Fenced, Owns
<1> QED
  BY <1>2, <1>3, <1>4 DEF LeaseInv

\* The steps that save a checkpoint.
Checkpoint(rdb, last, vector, cleanup) ==
    [rdb |-> rdb, last |-> last, vector |-> vector, cleanup |-> cleanup]

\* The checkpoint each step saves, field by field.
LEMMA SavedBy ==
    ASSUME LeaseInv, NEW e \in Executions
    PROVE  /\ BeginBackfill(e) =>
                Save(e, Checkpoint("backfilling", 0, cp[e].vector, cp[e].cleanup))
           /\ SealBackfill(e) => Save(e, Checkpoint("verified", 0, cp[e].vector, cp[e].cleanup))
           /\ AdoptLegacy(e) =>
                Save(e, Checkpoint(cp[e].rdb, cp[e].last, origin, cp[e].cleanup))
           /\ MarkStaged(e) =>
                Save(e, Checkpoint(cp[e].rdb, cp[e].last, "staged", cp[e].cleanup))
           /\ MarkSwitching(e) =>
                Save(e, Checkpoint(cp[e].rdb, cp[e].last, "switching", cp[e].cleanup))
           /\ CommitCutover(e) =>
                Save(e, Checkpoint(cp[e].rdb, cp[e].last, "canonical_ready", cp[e].cleanup))
           /\ CommitIndexes(e) =>
                Save(e, Checkpoint(cp[e].rdb, cp[e].last, "indexes_verified", cp[e].cleanup))
           /\ AnnounceCleanup(e) =>
                Save(e, Checkpoint(cp[e].rdb, cp[e].last, cp[e].vector, TRUE))
           /\ CommitCleanup(e) => Save(e, Checkpoint(cp[e].rdb, cp[e].last, "migrated", FALSE))
           /\ BackfillBatch(e) => \E last \in Threads :
                /\ last > cp[e].last
                /\ Save(e, Checkpoint(cp[e].rdb, last, cp[e].vector, cp[e].cleanup))
                /\ times' = times \union Batch(cp[e].last, last)
<1>1. cp[e] \in Checkpoints
  BY DEF LeaseInv, TypeOK
<1>2. BeginBackfill(e) => Save(e, Checkpoint("backfilling", 0, cp[e].vector, cp[e].cleanup))
  <2>1. Checkpoint("backfilling", 0, cp[e].vector, cp[e].cleanup)
          = [cp[e] EXCEPT !.rdb = "backfilling", !.last = 0]
    BY <1>1, Edited, Zenon DEF Checkpoint
  <2> QED
    BY <2>1, Zenon DEF BeginBackfill
<1>3. SealBackfill(e) => Save(e, Checkpoint("verified", 0, cp[e].vector, cp[e].cleanup))
  <2>1. Checkpoint("verified", 0, cp[e].vector, cp[e].cleanup)
          = [cp[e] EXCEPT !.rdb = "verified", !.last = 0]
    BY <1>1, Edited, Zenon DEF Checkpoint
  <2> QED
    BY <2>1, Zenon DEF SealBackfill, Sealed
<1>4. AdoptLegacy(e) => Save(e, Checkpoint(cp[e].rdb, cp[e].last, origin, cp[e].cleanup))
  <2>1. Checkpoint(cp[e].rdb, cp[e].last, origin, cp[e].cleanup)
          = [cp[e] EXCEPT !.vector = origin]
    BY <1>1, Edited, Zenon DEF Checkpoint
  <2> QED
    BY <2>1, Zenon DEF AdoptLegacy
<1>5. MarkStaged(e) => Save(e, Checkpoint(cp[e].rdb, cp[e].last, "staged", cp[e].cleanup))
  <2>1. Checkpoint(cp[e].rdb, cp[e].last, "staged", cp[e].cleanup)
          = [cp[e] EXCEPT !.vector = "staged"]
    BY <1>1, Edited, Zenon DEF Checkpoint
  <2> QED
    BY <2>1, Zenon DEF MarkStaged
<1>6. MarkSwitching(e) => Save(e, Checkpoint(cp[e].rdb, cp[e].last, "switching", cp[e].cleanup))
  <2>1. Checkpoint(cp[e].rdb, cp[e].last, "switching", cp[e].cleanup)
          = [cp[e] EXCEPT !.vector = "switching"]
    BY <1>1, Edited, Zenon DEF Checkpoint
  <2> QED
    BY <2>1, Zenon DEF MarkSwitching
<1>7. CommitCutover(e) =>
    Save(e, Checkpoint(cp[e].rdb, cp[e].last, "canonical_ready", cp[e].cleanup))
  <2>1. Checkpoint(cp[e].rdb, cp[e].last, "canonical_ready", cp[e].cleanup)
          = [cp[e] EXCEPT !.vector = "canonical_ready"]
    BY <1>1, Edited, Zenon DEF Checkpoint
  <2> QED
    BY <2>1, Zenon DEF CommitCutover
<1>8. CommitIndexes(e) =>
    Save(e, Checkpoint(cp[e].rdb, cp[e].last, "indexes_verified", cp[e].cleanup))
  <2>1. Checkpoint(cp[e].rdb, cp[e].last, "indexes_verified", cp[e].cleanup)
          = [cp[e] EXCEPT !.vector = "indexes_verified"]
    BY <1>1, Edited, Zenon DEF Checkpoint
  <2> QED
    BY <2>1, Zenon DEF CommitIndexes
<1>9. AnnounceCleanup(e) => Save(e, Checkpoint(cp[e].rdb, cp[e].last, cp[e].vector, TRUE))
  <2>1. Checkpoint(cp[e].rdb, cp[e].last, cp[e].vector, TRUE) = [cp[e] EXCEPT !.cleanup = TRUE]
    BY <1>1, Edited, Zenon DEF Checkpoint
  <2> QED
    BY <2>1, Zenon DEF AnnounceCleanup
<1>10. CommitCleanup(e) => Save(e, Checkpoint(cp[e].rdb, cp[e].last, "migrated", FALSE))
  <2>1. Checkpoint(cp[e].rdb, cp[e].last, "migrated", FALSE)
          = [cp[e] EXCEPT !.vector = "migrated", !.cleanup = FALSE]
    BY <1>1, Edited, Zenon DEF Checkpoint
  <2> QED
    BY <2>1, Zenon DEF CommitCleanup
<1>11. ASSUME BackfillBatch(e)
     PROVE  \E last \in Threads :
              /\ last > cp[e].last
              /\ Save(e, Checkpoint(cp[e].rdb, last, cp[e].vector, cp[e].cleanup))
              /\ times' = times \union Batch(cp[e].last, last)
  <2>1. PICK last \in Threads : /\ last > cp[e].last
                                /\ Save(e, [cp[e] EXCEPT !.last = last])
                                /\ times' = times \union Batch(cp[e].last, last)
    BY <1>11 DEF BackfillBatch
  <2>2. Checkpoint(cp[e].rdb, last, cp[e].vector, cp[e].cleanup) = [cp[e] EXCEPT !.last = last]
    BY <1>1, Edited, Zenon DEF Checkpoint
  <2>3. Save(e, Checkpoint(cp[e].rdb, last, cp[e].vector, cp[e].cleanup))
    BY <2>1, <2>2, Zenon
  <2> QED
    BY <2>1, <2>3
<1> QED
  BY <1>2, <1>3, <1>4, <1>5, <1>6, <1>7, <1>8, <1>9, <1>10, <1>11

\* Where a phase stands in its order.
LEMMA PhaseOrder ==
    /\ IndexIn(RdbPhases, "pending") = 1 /\ IndexIn(RdbPhases, "backfilling") = 2
    /\ IndexIn(RdbPhases, "verified") = 3
    /\ IndexIn(VectorPhases, "pending") = 1 /\ IndexIn(VectorPhases, "not_required") = 2
    /\ IndexIn(VectorPhases, "staged") = 3 /\ IndexIn(VectorPhases, "switching") = 4
    /\ IndexIn(VectorPhases, "canonical_ready") = 5
    /\ IndexIn(VectorPhases, "indexes_verified") = 6
    /\ IndexIn(VectorPhases, "migrated") = 7 /\ IndexIn(VectorPhases, "unneeded") = 8
<1>1. DOMAIN RdbPhases = 1..3 /\ DOMAIN VectorPhases = 1..8
  BY DEF RdbPhases, VectorPhases
<1>2. \A i \in 1..3 : IndexIn(RdbPhases, RdbPhases[i]) = i
  BY <1>1 DEF IndexIn, RdbPhases
<1>3. \A i \in 1..8 : IndexIn(VectorPhases, VectorPhases[i]) = i
  BY <1>1 DEF IndexIn, VectorPhases
<1> QED
  BY <1>2, <1>3 DEF RdbPhases, VectorPhases

\* Not moving is not going back.
LEMMA AheadOfItself == \A c \in Checkpoints : Ahead(c, c)
  BY Phases, PhaseOrder, ConstantsAssumption DEF Ahead, Checkpoints

\* The steps that save a checkpoint keep the invariant and move it forward.
LEMMA SaveSteps ==
    ASSUME LeaseInv, NEW e \in Executions,
           \/ BeginBackfill(e) \/ SealBackfill(e) \/ AdoptLegacy(e) \/ MarkStaged(e)
           \/ MarkSwitching(e) \/ CommitCutover(e) \/ CommitIndexes(e)
           \/ AnnounceCleanup(e) \/ CommitCleanup(e)
    PROVE  LeaseInv' /\ Ahead(task.cp, task'.cp)
<1> USE ConstantsAssumption, Phases
<1>1. /\ cp[e] \in Checkpoints /\ Valid(cp[e]) /\ Fits(e)
      /\ Running(e) /\ pc[e] \in Steps
      /\ pc \in [Executions -> Steps] /\ cp \in [Executions -> Checkpoints]
  BY DEF LeaseInv, TypeOK, Running, BeginBackfill, SealBackfill, AdoptLegacy, MarkStaged,
         MarkSwitching, CommitCutover,
         CommitIndexes, AnnounceCleanup, CommitCleanup
<1>2. DataTyped'
  BY DEF LeaseInv, TypeOK, DataTyped, tables, budget, Opened, Tables,
         BeginBackfill, SealBackfill, AdoptLegacy, MarkStaged, MarkSwitching, CommitCutover,
         CommitIndexes, AnnounceCleanup, CommitCleanup
<1>3. CASE BeginBackfill(e)
  <2> DEFINE c == Checkpoint("backfilling", 0, cp[e].vector, cp[e].cleanup)
  <2>1. Save(e, c)
    BY <1>3, SavedBy
  <2>2. c \in Checkpoints /\ Valid(c)
    BY <1>1, <1>3 DEF Checkpoint, Checkpoints, Valid, BeginBackfill, Fits
  <2>3. Ahead(cp[e], c)
    BY <1>1, <1>3, PhaseOrder DEF Checkpoint, Checkpoints, Ahead, BeginBackfill, Fits
  <2>4. pc' = [pc EXCEPT ![e] = "backfill"] /\ UNCHANGED <<origin, mine>>
    BY <1>3 DEF BeginBackfill, Goto
  <2>5. Fits(e)'
    BY <1>1, <1>3, <2>1, <2>4 DEF Checkpoint, Fits, BeginBackfill, Save
  <2>6. ("backfill") \in Steps \ {"load"} /\ pc[e] # "load"
    BY <1>3 DEF Steps, InTransaction, BeginBackfill
  <2> HIDE DEF c
  <2> QED
    BY <1>1, <1>2, <2>1, <2>2, <2>3, <2>4, <2>5, <2>6, SaveKeeps
<1>4. CASE SealBackfill(e)
  <2> DEFINE c == Checkpoint("verified", 0, cp[e].vector, cp[e].cleanup)
  <2>1. Save(e, c)
    BY <1>4, SavedBy
  <2>2. c \in Checkpoints /\ Valid(c)
    BY <1>1, <1>4 DEF Checkpoint, Checkpoints, Valid, SealBackfill, Fits
  <2>3. Ahead(cp[e], c)
    BY <1>1, <1>4, PhaseOrder DEF Checkpoint, Checkpoints, Ahead, SealBackfill, Fits
  <2>4. pc' = [pc EXCEPT ![e] = "check"] /\ UNCHANGED <<origin, mine>>
    BY <1>4 DEF SealBackfill, Goto
  <2>5. Fits(e)'
    BY <1>1, <1>4, <2>1, <2>4 DEF Checkpoint, Fits, SealBackfill, Save
  <2>6. ("check") \in Steps \ {"load"} /\ pc[e] # "load"
    BY <1>4 DEF Steps, InTransaction, SealBackfill
  <2> HIDE DEF c
  <2> QED
    BY <1>1, <1>2, <2>1, <2>2, <2>3, <2>4, <2>5, <2>6, SaveKeeps
<1>5. CASE AdoptLegacy(e)
  <2> DEFINE c == Checkpoint(cp[e].rdb, cp[e].last, origin, cp[e].cleanup)
  <2>1. Save(e, c)
    BY <1>5, SavedBy
  <2>2. c \in Checkpoints /\ Valid(c)
    BY <1>1, <1>5 DEF Checkpoint, Checkpoints, Valid, AdoptLegacy, Fits
  <2>3. Ahead(cp[e], c)
    BY <1>1, <1>5, PhaseOrder DEF Checkpoint, Checkpoints, Ahead, AdoptLegacy, Fits
  <2>4. pc' = [pc EXCEPT ![e] = IF origin = "staged" THEN "switch" ELSE "cutover"]
        /\ UNCHANGED <<origin, mine>>
    BY <1>5 DEF AdoptLegacy, Goto
  <2>5. Fits(e)'
    BY <1>1, <1>5, <2>1, <2>4 DEF Checkpoint, Fits, AdoptLegacy, Save
  <2>6. (IF origin = "staged" THEN "switch" ELSE "cutover") \in Steps \ {"load"}
        /\ pc[e] # "load"
    BY <1>5 DEF Steps, InTransaction, AdoptLegacy
  <2> HIDE DEF c
  <2> QED
    BY <1>1, <1>2, <2>1, <2>2, <2>3, <2>4, <2>5, <2>6, SaveKeeps
<1>6. CASE MarkStaged(e)
  <2> DEFINE c == Checkpoint(cp[e].rdb, cp[e].last, "staged", cp[e].cleanup)
  <2>1. Save(e, c)
    BY <1>6, SavedBy
  <2>2. c \in Checkpoints /\ Valid(c)
    BY <1>1, <1>6 DEF Checkpoint, Checkpoints, Valid, MarkStaged, Fits
  <2>3. Ahead(cp[e], c)
    BY <1>1, <1>6, PhaseOrder DEF Checkpoint, Checkpoints, Ahead, MarkStaged, Fits
  <2>4. pc' = [pc EXCEPT ![e] = "switch"] /\ UNCHANGED <<origin, mine>>
    BY <1>6 DEF MarkStaged, Goto
  <2>5. Fits(e)'
    BY <1>1, <1>6, <2>1, <2>4 DEF Checkpoint, Fits, MarkStaged, Save
  <2>6. ("switch") \in Steps \ {"load"} /\ pc[e] # "load"
    BY <1>6 DEF Steps, InTransaction, MarkStaged
  <2> HIDE DEF c
  <2> QED
    BY <1>1, <1>2, <2>1, <2>2, <2>3, <2>4, <2>5, <2>6, SaveKeeps
<1>7. CASE MarkSwitching(e)
  <2> DEFINE c == Checkpoint(cp[e].rdb, cp[e].last, "switching", cp[e].cleanup)
  <2>1. Save(e, c)
    BY <1>7, SavedBy
  <2>2. c \in Checkpoints /\ Valid(c)
    BY <1>1, <1>7 DEF Checkpoint, Checkpoints, Valid, MarkSwitching, Fits
  <2>3. Ahead(cp[e], c)
    BY <1>1, <1>7, PhaseOrder DEF Checkpoint, Checkpoints, Ahead, MarkSwitching, Fits
  <2>4. pc' = [pc EXCEPT ![e] = "cutover"] /\ UNCHANGED <<origin, mine>>
    BY <1>7 DEF MarkSwitching, Goto
  <2>5. Fits(e)'
    BY <1>1, <1>7, <2>1, <2>4 DEF Checkpoint, Fits, MarkSwitching, Save
  <2>6. ("cutover") \in Steps \ {"load"} /\ pc[e] # "load"
    BY <1>7 DEF Steps, InTransaction, MarkSwitching
  <2> HIDE DEF c
  <2> QED
    BY <1>1, <1>2, <2>1, <2>2, <2>3, <2>4, <2>5, <2>6, SaveKeeps
<1>8. CASE CommitCutover(e)
  <2> DEFINE c == Checkpoint(cp[e].rdb, cp[e].last, "canonical_ready", cp[e].cleanup)
  <2>1. Save(e, c)
    BY <1>8, SavedBy
  <2>2. c \in Checkpoints /\ Valid(c)
    BY <1>1, <1>8 DEF Checkpoint, Checkpoints, Valid, CommitCutover, Fits
  <2>3. Ahead(cp[e], c)
    BY <1>1, <1>8, PhaseOrder DEF Checkpoint, Checkpoints, Ahead, CommitCutover, Fits
  <2>4. pc' = [pc EXCEPT ![e] = "index"] /\ UNCHANGED <<origin, mine>>
    BY <1>8 DEF CommitCutover, Goto
  <2>5. Fits(e)'
    BY <1>1, <1>8, <2>1, <2>4 DEF Checkpoint, Fits, CommitCutover, Save
  <2>6. ("index") \in Steps \ {"load"} /\ pc[e] # "load"
    BY <1>8 DEF Steps, InTransaction, CommitCutover
  <2> HIDE DEF c
  <2> QED
    BY <1>1, <1>2, <2>1, <2>2, <2>3, <2>4, <2>5, <2>6, SaveKeeps
<1>9. CASE CommitIndexes(e)
  <2> DEFINE c == Checkpoint(cp[e].rdb, cp[e].last, "indexes_verified", cp[e].cleanup)
  <2>1. Save(e, c)
    BY <1>9, SavedBy
  <2>2. c \in Checkpoints /\ Valid(c)
    BY <1>1, <1>9 DEF Checkpoint, Checkpoints, Valid, CommitIndexes, Fits
  <2>3. Ahead(cp[e], c)
    BY <1>1, <1>9, PhaseOrder DEF Checkpoint, Checkpoints, Ahead, CommitIndexes, Fits
  <2>4. pc' = [pc EXCEPT ![e] = "cleanup"] /\ UNCHANGED <<origin, mine>>
    BY <1>9 DEF CommitIndexes, Goto
  <2>5. Fits(e)'
    BY <1>1, <1>9, <2>1, <2>4 DEF Checkpoint, Fits, CommitIndexes, Save
  <2>6. ("cleanup") \in Steps \ {"load"} /\ pc[e] # "load"
    BY <1>9 DEF Steps, InTransaction, CommitIndexes
  <2> HIDE DEF c
  <2> QED
    BY <1>1, <1>2, <2>1, <2>2, <2>3, <2>4, <2>5, <2>6, SaveKeeps
<1>10. CASE AnnounceCleanup(e)
  <2> DEFINE c == Checkpoint(cp[e].rdb, cp[e].last, cp[e].vector, TRUE)
  <2>1. Save(e, c)
    BY <1>10, SavedBy
  <2>2. c \in Checkpoints /\ Valid(c)
    BY <1>1, <1>10 DEF Checkpoint, Checkpoints, Valid, AnnounceCleanup, Fits
  <2>3. Ahead(cp[e], c)
    BY <1>1, <1>10, PhaseOrder DEF Checkpoint, Checkpoints, Ahead, AnnounceCleanup, Fits
  <2>4. pc' = [pc EXCEPT ![e] = "purge"] /\ UNCHANGED <<origin, mine>>
    BY <1>10 DEF AnnounceCleanup, Goto
  <2>5. Fits(e)'
    BY <1>1, <1>10, <2>1, <2>4 DEF Checkpoint, Fits, AnnounceCleanup, Save
  <2>6. ("purge") \in Steps \ {"load"} /\ pc[e] # "load"
    BY <1>10 DEF Steps, InTransaction, AnnounceCleanup
  <2> HIDE DEF c
  <2> QED
    BY <1>1, <1>2, <2>1, <2>2, <2>3, <2>4, <2>5, <2>6, SaveKeeps
<1>11. CASE CommitCleanup(e)
  <2> DEFINE c == Checkpoint(cp[e].rdb, cp[e].last, "migrated", FALSE)
  <2>1. Save(e, c)
    BY <1>11, SavedBy
  <2>2. c \in Checkpoints /\ Valid(c)
    BY <1>1, <1>11 DEF Checkpoint, Checkpoints, Valid, CommitCleanup, Fits
  <2>3. Ahead(cp[e], c)
    BY <1>1, <1>11, PhaseOrder DEF Checkpoint, Checkpoints, Ahead, CommitCleanup, Fits
  <2>4. pc' = [pc EXCEPT ![e] = "verify"] /\ UNCHANGED <<origin, mine>>
    BY <1>11 DEF CommitCleanup, Goto
  <2>5. Fits(e)'
    BY <1>1, <1>11, <2>1, <2>4 DEF Checkpoint, Fits, CommitCleanup, Save
  <2>6. ("verify") \in Steps \ {"load"} /\ pc[e] # "load"
    BY <1>11 DEF Steps, InTransaction, CommitCleanup
  <2> HIDE DEF c
  <2> QED
    BY <1>1, <1>2, <2>1, <2>2, <2>3, <2>4, <2>5, <2>6, SaveKeeps
<1> QED
  BY <1>3, <1>4, <1>5, <1>6, <1>7, <1>8, <1>9, <1>10, <1>11

\* A batch of the back-fill saves the cursor.
LEMMA BatchStep ==
    ASSUME LeaseInv, NEW e \in Executions, BackfillBatch(e)
    PROVE  LeaseInv' /\ Ahead(task.cp, task'.cp)
<1> USE ConstantsAssumption, Phases
<1>1. /\ cp[e] \in Checkpoints /\ Valid(cp[e]) /\ Fits(e)
      /\ Running(e) /\ pc[e] = "backfill"
      /\ pc \in [Executions -> Steps] /\ cp \in [Executions -> Checkpoints]
  BY DEF LeaseInv, TypeOK, Running, BackfillBatch
<1>2. DataTyped'
  BY DEF LeaseInv, TypeOK, DataTyped, BackfillBatch, Batch, tables, budget
<1>3. PICK last \in Threads :
        /\ last > cp[e].last
        /\ Save(e, Checkpoint(cp[e].rdb, last, cp[e].vector, cp[e].cleanup))
  BY SavedBy
<1> DEFINE c == Checkpoint(cp[e].rdb, last, cp[e].vector, cp[e].cleanup)
<1>4. cp[e].rdb = "backfilling" /\ last \in 0..N
  BY <1>1 DEF Fits
<1>5. c \in Checkpoints /\ Valid(c)
  BY <1>1, <1>4 DEF Checkpoint, Checkpoints, Valid
<1>6. Ahead(cp[e], c)
  BY <1>1, <1>3, <1>4, PhaseOrder DEF Checkpoint, Checkpoints, Ahead
<1>7. pc' = [pc EXCEPT ![e] = "backfill"] /\ UNCHANGED <<origin, mine>>
  BY <1>1 DEF BackfillBatch
<1>8. Fits(e)'
  BY <1>1, <1>3, <1>7 DEF Checkpoint, Fits, Save
<1>9. Save(e, c) /\ "backfill" \in Steps \ {"load"}
  BY <1>3 DEF Steps
<1> HIDE DEF c
<1> QED
  BY <1>1, <1>2, <1>5, <1>6, <1>7, <1>8, <1>9, SaveKeeps

\* The two checkpoints of a store without vectors.
LEMMA SkipStep ==
    ASSUME LeaseInv, NEW e \in Executions, SkipVectors(e)
    PROVE  LeaseInv' /\ Ahead(task.cp, task'.cp)
<1> USE ConstantsAssumption, Phases
<1>1. /\ cp[e] \in Checkpoints /\ Valid(cp[e]) /\ Fits(e)
      /\ Running(e) /\ pc[e] \in Steps
      /\ pc \in [Executions -> Steps] /\ cp \in [Executions -> Checkpoints]
  BY DEF LeaseInv, TypeOK, Running, SkipVectors
<1>2. DataTyped'
  BY DEF LeaseInv, TypeOK, DataTyped, SkipVectors, tables, budget
<1>3. ASSUME NEW v \in {"not_required", "unneeded"}, NEW p \in {"skipped", "verify"},
             IF pc[e] = "skip" THEN v = "not_required" /\ p = "skipped"
                               ELSE v = "unneeded" /\ p = "verify",
             Save(e, [cp[e] EXCEPT !.vector = v]), pc' = [pc EXCEPT ![e] = p]
      PROVE  LeaseInv' /\ Ahead(task.cp, task'.cp)
  <2> DEFINE c == Checkpoint(cp[e].rdb, cp[e].last, v, cp[e].cleanup)
  <2>1. c = [cp[e] EXCEPT !.vector = v]
    BY <1>1, Edited, Zenon DEF Checkpoint
  <2>2. c \in Checkpoints /\ Valid(c)
    BY <1>1 DEF Checkpoint, Checkpoints, Valid, Fits, SkipVectors
  <2>3. Save(e, c)
    BY <1>3, <2>1, Zenon
  <2>4. Fits(e)'
    BY <1>1, <1>3, <2>3 DEF Checkpoint, Fits, Save, SkipVectors
  <2>5. p \in Steps \ {"load"} /\ pc[e] # "load" /\ UNCHANGED <<origin, mine>>
    BY DEF Steps, SkipVectors
  <2>6. Ahead(cp[e], c)
    BY <1>1, <1>3, PhaseOrder DEF Checkpoint, Checkpoints, Ahead, Fits, SkipVectors
  <2> HIDE DEF c
  <2> QED
    BY <1>1, <1>2, <1>3, <2>2, <2>3, <2>4, <2>5, <2>6, SaveKeeps
<1> QED
  <2>1. CASE pc[e] = "skip"
    BY <1>3, <2>1, Zenon DEF SkipVectors, Goto
  <2>2. CASE pc[e] # "skip"
    BY <1>3, <2>2, Zenon DEF SkipVectors, Goto
  <2> QED
    BY <2>1, <2>2

\* The steps that leave the checkpoint alone.
LEMMA MoveSteps ==
    ASSUME LeaseInv, NEW e \in Executions,
           \/ Verify(e) \/ EnterSync(e) \/ DropStaging(e) \/ CreateStaging(e)
           \/ RenewCopy(e) \/ CopyThread(e) \/ DropCanonical(e) \/ CreateCanonical(e)
           \/ AppendBatch(e) \/ BuildIndexes(e) \/ PurgeStaging(e)
    PROVE  LeaseInv'
<1> USE ConstantsAssumption, Phases
<1>1. /\ cp[e] \in Checkpoints /\ Valid(cp[e]) /\ Fits(e)
      /\ Running(e) /\ pc[e] \in Steps /\ pc[e] # "load"
      /\ pc \in [Executions -> Steps] /\ cp \in [Executions -> Checkpoints]
      /\ canonical \in Tables /\ staging \in Tables
      /\ \A t \in {canonical, staging} : t.exists \/ t.rows = {}
      /\ copied \in [Executions -> 0..N] /\ origin \in Origins /\ times \subseteq Threads
      /\ indexed \in BOOLEAN /\ faults \in Nat /\ stalls \in Nat
  BY DEF LeaseInv, TypeOK, Running, Verify, EnterSync, DropStaging, CreateStaging,
         RenewCopy, CopyThread, DropCanonical, CreateCanonical, AppendBatch,
         BuildIndexes, PurgeStaging
<1>0. /\ \A t \in Tables : Opened(t) \in Tables /\ Opened(t).exists
      /\ NoTable \in Tables /\ NoTable.rows = {}
  BY SomeTables DEF Opened, Tables, NoTable
<1>2. CASE Verify(e)
  <2>1. DataTyped'
    BY <1>0, <1>1, <1>2 DEF DataTyped, Verify, tables, budget
  <2>2. /\ pc' = [pc EXCEPT ![e] = IF pc[e] = "check" THEN "sync" ELSE "complete"]
        /\ task' \in {task, Renewed(task)} /\ UNCHANGED <<origin, mine, cp>>
    BY <1>1, <1>2 DEF Verify, Goto, Renew, execution
  <2>3. Fits(e)'
    BY <1>1, <1>2, <2>2 DEF Fits, Verify
  <2>4. (IF pc[e] = "check" THEN "sync" ELSE "complete") \in Steps \ {"load"}
    BY DEF Steps, InTransaction, Exposed
  <2> QED
    BY <1>1, <2>1, <2>2, <2>3, <2>4, MoveKeeps
<1>3. CASE DropStaging(e)
  <2>1. DataTyped'
    BY <1>0, <1>1, <1>3 DEF DataTyped, DropStaging, tables, budget
  <2>2. /\ pc' = [pc EXCEPT ![e] = "create"]
        /\ task' \in {task, Renewed(task)} /\ UNCHANGED <<origin, mine, cp>>
    BY <1>1, <1>3 DEF DropStaging, Goto, Renew, execution
  <2>3. Fits(e)'
    BY <1>1, <1>3, <2>2 DEF Fits, DropStaging
  <2>4. ("create") \in Steps \ {"load"}
    BY DEF Steps, InTransaction, Exposed
  <2> QED
    BY <1>1, <2>1, <2>2, <2>3, <2>4, MoveKeeps
<1>4. CASE CreateStaging(e)
  <2>1. DataTyped'
    BY <1>0, <1>1, <1>4 DEF DataTyped, CreateStaging, tables, budget
  <2>2. /\ pc' = [pc EXCEPT ![e] = "renew"]
        /\ task' \in {task, Renewed(task)} /\ UNCHANGED <<origin, mine, cp>>
    BY <1>1, <1>4 DEF CreateStaging, Goto, Renew, execution
  <2>3. Fits(e)'
    BY <1>1, <1>4, <2>2 DEF Fits, CreateStaging
  <2>4. ("renew") \in Steps \ {"load"}
    BY DEF Steps, InTransaction, Exposed
  <2> QED
    BY <1>1, <2>1, <2>2, <2>3, <2>4, MoveKeeps
<1>5. CASE RenewCopy(e)
  <2>1. DataTyped'
    BY <1>0, <1>1, <1>5 DEF DataTyped, RenewCopy, tables, budget
  <2>2. /\ pc' = [pc EXCEPT ![e] = "copy"]
        /\ task' \in {task, Renewed(task)} /\ UNCHANGED <<origin, mine, cp>>
    BY <1>1, <1>5 DEF RenewCopy, Goto, Renew, execution
  <2>3. Fits(e)'
    BY <1>1, <1>5, <2>2 DEF Fits, RenewCopy
  <2>4. ("copy") \in Steps \ {"load"}
    BY DEF Steps, InTransaction, Exposed
  <2> QED
    BY <1>1, <2>1, <2>2, <2>3, <2>4, MoveKeeps
<1>6. CASE DropCanonical(e)
  <2>1. DataTyped'
    BY <1>0, <1>1, <1>6 DEF DataTyped, DropCanonical, tables, budget
  <2>2. /\ pc' = [pc EXCEPT ![e] = "refill"]
        /\ task' \in {task, Renewed(task)} /\ UNCHANGED <<origin, mine, cp>>
    BY <1>1, <1>6 DEF DropCanonical, Goto, Renew, execution
  <2>3. Fits(e)'
    BY <1>1, <1>6, <2>2 DEF Fits, DropCanonical
  <2>4. ("refill") \in Steps \ {"load"}
    BY DEF Steps, InTransaction, Exposed
  <2> QED
    BY <1>1, <2>1, <2>2, <2>3, <2>4, MoveKeeps
<1>7. CASE CreateCanonical(e)
  <2>1. DataTyped'
    BY <1>0, <1>1, <1>7 DEF DataTyped, CreateCanonical, tables, budget
  <2>2. /\ pc' = [pc EXCEPT ![e] = "append"]
        /\ task' \in {task, Renewed(task)} /\ UNCHANGED <<origin, mine, cp>>
    BY <1>1, <1>7 DEF CreateCanonical, Goto, Renew, execution
  <2>3. Fits(e)'
    BY <1>1, <1>7, <2>2 DEF Fits, CreateCanonical
  <2>4. ("append") \in Steps \ {"load"}
    BY DEF Steps, InTransaction, Exposed
  <2> QED
    BY <1>1, <2>1, <2>2, <2>3, <2>4, MoveKeeps
<1>8. CASE BuildIndexes(e)
  <2>1. DataTyped'
    BY <1>0, <1>1, <1>8 DEF DataTyped, BuildIndexes, tables, budget
  <2>2. /\ pc' = [pc EXCEPT ![e] = "indexing"]
        /\ task' \in {task, Renewed(task)} /\ UNCHANGED <<origin, mine, cp>>
    BY <1>1, <1>8 DEF BuildIndexes, Goto, Renew, execution
  <2>3. Fits(e)'
    BY <1>1, <1>8, <2>2 DEF Fits, BuildIndexes
  <2>4. ("indexing") \in Steps \ {"load"}
    BY DEF Steps, InTransaction, Exposed
  <2> QED
    BY <1>1, <2>1, <2>2, <2>3, <2>4, MoveKeeps
<1>9. CASE PurgeStaging(e)
  <2>1. DataTyped'
    BY <1>0, <1>1, <1>9 DEF DataTyped, PurgeStaging, tables, budget
  <2>2. /\ pc' = [pc EXCEPT ![e] = "purged"]
        /\ task' \in {task, Renewed(task)} /\ UNCHANGED <<origin, mine, cp>>
    BY <1>1, <1>9 DEF PurgeStaging, Goto, Renew, execution
  <2>3. Fits(e)'
    BY <1>1, <1>9, <2>2 DEF Fits, PurgeStaging
  <2>4. ("purged") \in Steps \ {"load"}
    BY DEF Steps, InTransaction, Exposed
  <2> QED
    BY <1>1, <2>1, <2>2, <2>3, <2>4, MoveKeeps
<1>10. CASE EnterSync(e)
  <2>1. DataTyped'
    BY <1>0, <1>1, <1>10 DEF DataTyped, EnterSync, tables, budget
  <2>2. /\ pc' = [pc EXCEPT ![e] = Entry(cp[e])]
        /\ task' \in {task, Renewed(task)} /\ UNCHANGED <<origin, mine, cp>>
    BY <1>1, <1>10 DEF EnterSync, Goto, Renew, execution
  <2>3. Fits(e)'
    BY <1>1, <1>10, <2>2, Entries DEF Fits, EnterSync, Adoptable
  <2>4. (Entry(cp[e])) \in Steps \ {"load"}
    BY <1>10, Entries DEF Steps, InTransaction, Exposed, EnterSync
  <2> QED
    BY <1>1, <2>1, <2>2, <2>3, <2>4, MoveKeeps
<1>11. CASE CopyThread(e)
  <2>1. DataTyped'
    <3>1. PICK t \in Uncopied(e) :
            /\ staging' = Holding(staging.rows \union ({t} \cap Threads) \X {TRUE})
            /\ copied' = [copied EXCEPT ![e] = t]
      BY <1>11 DEF CopyThread
    <3>2. staging.rows \union ({t} \cap Threads) \X {TRUE} \in SUBSET Rows
      BY <1>1 DEF Tables, Rows
    <3>3. t \in 0..N
      BY <1>1 DEF Uncopied, Ids, Tables, Rows
    <3>4. staging' \in Tables /\ staging'.exists
      BY <3>1, <3>2, SomeTables DEF Holding
    <3> QED
      BY <1>1, <1>11, <3>1, <3>3, <3>4 DEF DataTyped, CopyThread, budget
  <2>2. /\ pc' = [pc EXCEPT ![e] = "renew"]
        /\ task' \in {task, Renewed(task)} /\ UNCHANGED <<origin, mine, cp>>
    BY <1>1, <1>11 DEF CopyThread, Goto, Renew, execution
  <2>3. Fits(e)'
    BY <1>1, <1>11, <2>2 DEF Fits, CopyThread
  <2>4. ("renew") \in Steps \ {"load"}
    BY DEF Steps, InTransaction, Exposed
  <2> QED
    BY <1>1, <2>1, <2>2, <2>3, <2>4, MoveKeeps
<1>12. CASE AppendBatch(e)
  <2>1. DataTyped'
    <3>1. PICK batch \in SUBSET (staging.rows \ canonical.rows) :
            canonical' = Holding(canonical.rows \union batch)
      BY <1>12 DEF AppendBatch
    <3>2. canonical.rows \union batch \in SUBSET Rows
      BY <1>1 DEF Tables
    <3>3. canonical' \in Tables /\ canonical'.exists
      BY <3>1, <3>2, SomeTables DEF Holding
    <3> QED
      BY <1>1, <1>12, <3>1, <3>3 DEF DataTyped, AppendBatch, execution, budget
  <2>2. /\ pc' = [pc EXCEPT ![e] = "append"]
        /\ task' \in {task, Renewed(task)} /\ UNCHANGED <<origin, mine, cp>>
    BY <1>1, <1>12 DEF AppendBatch, Goto, Renew, execution
  <2>3. Fits(e)'
    BY <1>1, <1>12, <2>2 DEF Fits, AppendBatch
  <2>4. ("append") \in Steps \ {"load"}
    BY DEF Steps, InTransaction, Exposed
  <2> QED
    BY <1>1, <2>1, <2>2, <2>3, <2>4, MoveKeeps
<1> QED
  BY <1>2, <1>3, <1>4, <1>5, <1>6, <1>7, <1>8, <1>9, <1>10, <1>11, <1>12

\* The row after a claim, field by field.
LEMMA ClaimedRow ==
    ASSUME NEW row \in TaskRows(Checkpoints)
    PROVE  /\ Claimed(row) \in TaskRows(Checkpoints) /\ Claimed(row).cp = row.cp
           /\ Claimed(row).token = row.token + 1 /\ row.token \in Nat
<1>1. row.token \in Nat /\ row.token + 1 \in Nat
  BY DEF TaskRows
<1>2. ASSUME NEW n \in Nat
      PROVE  LET r == [row EXCEPT !.state = "running", !.token = n, !.live = TRUE] IN
             r \in TaskRows(Checkpoints) /\ r.cp = row.cp /\ r.token = n
  BY DEF TaskRows, TaskStates
<1>3. Claimed(row) = [row EXCEPT !.state = "running", !.token = row.token + 1, !.live = TRUE]
  BY Zenon DEF Claimed, TaskRows
<1> HIDE DEF Claimed
<1> QED
  BY <1>1, <1>2, <1>3

\* The steps that change the row itself, and those that end an execution.
LEMMA RowSteps ==
    ASSUME LeaseInv, NEW e \in Executions,
           Claim(e) \/ Complete(e) \/ Failing(e) \/ Stall(e) \/ LoseLease(e) \/ Killed(e),
           UNCHANGED <<origin, times, tables, copied>>, faults' \in Nat, stalls' \in Nat
    PROVE  LeaseInv'
<1>1. DataTyped'
  BY DEF LeaseInv, TypeOK, DataTyped, tables
<1>2. CASE Claim(e)
  <2>1. /\ task' \in TaskRows(Checkpoints) /\ task'.cp = task.cp
        /\ task'.token = task.token + 1 /\ task.token \in Nat
    BY <1>2, ClaimedRow DEF LeaseInv, TypeOK, Claim
  <2>2. TypeOK'
    BY <1>1, <1>2, <2>1 DEF LeaseInv, TypeOK, DataTyped, Claim, Goto, Steps, Exposed
  <2>3. Tokens'
    BY <1>2, <2>1 DEF LeaseInv, TypeOK, Tokens, Claim, Goto, Running
  <2>4. ASSUME NEW f \in Executions PROVE Fits(f)' /\ Knows(f)'
    <3>1. Fits(f)'
      BY <1>2 DEF LeaseInv, TypeOK, Fits, Claim, Goto
    <3>2. f # e => ~Fenced(f)'
      BY <1>2, <2>1 DEF LeaseInv, TypeOK, Tokens, Fenced, Owns, Claim
    <3> QED
      BY <1>2, <3>1, <3>2 DEF Knows, Claim, Goto, LeaseInv, TypeOK
  <2> QED
    BY <2>2, <2>3, <2>4 DEF LeaseInv
<1>3. CASE Complete(e)
  <2>1. /\ task' \in TaskRows(Checkpoints) /\ task'.cp = task.cp /\ task'.state = "completed"
        /\ task'.token = task.token
    BY <1>3 DEF LeaseInv, TypeOK, Complete, CompletedTask, TaskRows, TaskStates
  <2>2. TypeOK'
    BY <1>1, <1>3, <2>1 DEF LeaseInv, TypeOK, DataTyped, Complete, Goto, Steps
  <2>3. Tokens'
    BY <1>3, <2>1 DEF LeaseInv, TypeOK, Tokens, Complete, Goto, Running
  <2>4. ASSUME NEW f \in Executions PROVE Fits(f)' /\ Knows(f)'
    BY <1>3, <2>1 DEF LeaseInv, TypeOK, Fits, Knows, Fenced, Owns, Complete, Goto
  <2> QED
    BY <2>2, <2>3, <2>4 DEF LeaseInv
<1>4. CASE Failing(e)
  <2>1. /\ task' \in TaskRows(Checkpoints) /\ task'.cp = task.cp
        /\ task'.token = task.token /\ task'.state \in {task.state, "failed"}
    BY <1>4 DEF LeaseInv, TypeOK, Failing, FailedTask, TaskRows, TaskStates
  <2>2. TypeOK'
    BY <1>1, <1>4, <2>1 DEF LeaseInv, TypeOK, DataTyped, Failing, Goto, Steps
  <2>3. Tokens'
    BY <1>4, <2>1 DEF LeaseInv, TypeOK, Tokens, Failing, Goto, Running
  <2>4. ASSUME NEW f \in Executions PROVE Fits(f)' /\ Knows(f)'
    BY <1>4, <2>1 DEF LeaseInv, TypeOK, Fits, Knows, Fenced, Owns, Running, Failing, Goto
  <2> QED
    BY <2>2, <2>3, <2>4 DEF LeaseInv
<1>5. CASE Stall(e)
  <2>1. /\ task' \in TaskRows(Checkpoints) /\ task'.cp = task.cp
        /\ task'.token = task.token /\ task'.state = task.state
    BY <1>5 DEF LeaseInv, TypeOK, Stall, TaskRows
  <2> QED
    BY <1>1, <1>5, <2>1 DEF LeaseInv, TypeOK, DataTyped, Tokens, Fits, Knows, Fenced, Owns,
                            Running, Stall, execution
<1>6. CASE LoseLease(e) \/ Killed(e)
  <2>1. pc' = [pc EXCEPT ![e] = "idle"] /\ UNCHANGED <<origin, mine, cp>>
        /\ task' = task /\ Running(e)
    BY <1>6 DEF LoseLease, Killed, Goto
  <2>2. Fits(e)'
    BY <2>1 DEF LeaseInv, TypeOK, Fits
  <2> QED
    BY <1>1, <2>1, <2>2, MoveKeeps DEF Steps
<1> QED
  BY <1>2, <1>3, <1>4, <1>5, <1>6

\* The lease of a dead execution runs out.
LEMMA ExpireStep ==
    ASSUME LeaseInv, Expire
    PROVE  LeaseInv'
<1>1. /\ task' \in TaskRows(Checkpoints) /\ task'.cp = task.cp
      /\ task'.token = task.token /\ task'.state = task.state
  BY DEF LeaseInv, TypeOK, Expire, TaskRows
<1> QED
  BY <1>1 DEF LeaseInv, TypeOK, Tokens, Fits, Knows, Fenced, Owns, Running, Expire,
              execution, tables, budget

\* Every step keeps tokens, checkpoints and steps in agreement.
LEMMA LeaseStep == LeaseInv /\ [Next]_vars => LeaseInv'
<1> SUFFICES ASSUME LeaseInv, [Next]_vars PROVE LeaseInv'
  OBVIOUS
<1>1. ASSUME NEW e \in Executions, Advance(e) PROVE LeaseInv'
  <2>1. CASE Complete(e) \/ LoseLease(e)
    BY <2>1, RowSteps DEF Complete, LoseLease, budget, LeaseInv, TypeOK
  <2>2. CASE Refuse(e)
    BY <2>2, RowSteps DEF Refuse, Failing, budget, LeaseInv, TypeOK
  <2> QED
    BY <1>1, <2>1, <2>2, LoadStep, SaveSteps, BatchStep, SkipStep, MoveSteps DEF Advance
<1>2. ASSUME NEW e \in Executions, Claim(e) \/ Fail(e) \/ Killed(e) \/ Stall(e) PROVE LeaseInv'
  <2>1. faults' \in Nat /\ stalls' \in Nat
    BY <1>2 DEF Claim, Fail, Killed, Stall, budget, LeaseInv, TypeOK
  <2>2. UNCHANGED <<origin, times, tables, copied>>
    BY <1>2 DEF Claim, Fail, Failing, Killed, Stall, execution
  <2> QED
    BY <1>2, <2>1, <2>2, RowSteps DEF Fail
<1>3. CASE UNCHANGED vars
  BY <1>3 DEF vars, LeaseInv, TypeOK, Tokens, Fits, Knows, Fenced, Running
<1> QED
  BY <1>1, <1>2, <1>3, ExpireStep DEF Next

\* Types, for any number of executions and any bounds; every checkpoint is one
\* that Checkpoint::validate accepts, so no execution refuses what another one
\* stored.
THEOREM TypeCorrect == Spec => []TypeOK
<1>1. LeaseInv => TypeOK
  BY DEF LeaseInv
<1> QED
  BY <1>1, LeaseInit, LeaseStep, PTL DEF Spec

-----------------------------------------------------------------------------
(* The checkpoint never goes back.                                         *)

\* Every step leaves the stored checkpoint where it is or moves it forward.
LEMMA AheadStep == LeaseInv /\ [Next]_vars => Ahead(task.cp, task'.cp)
<1> SUFFICES ASSUME LeaseInv, [Next]_vars PROVE Ahead(task.cp, task'.cp)
  OBVIOUS
<1>1. task.cp \in Checkpoints
  BY DEF LeaseInv, TypeOK, TaskRows
<1>2. ASSUME NEW e \in Executions, Advance(e) PROVE Ahead(task.cp, task'.cp)
  <2>1. CASE \/ LoadCheckpoint(e) \/ Verify(e) \/ EnterSync(e) \/ DropStaging(e)
             \/ CreateStaging(e) \/ RenewCopy(e) \/ CopyThread(e) \/ DropCanonical(e)
             \/ CreateCanonical(e) \/ AppendBatch(e) \/ BuildIndexes(e) \/ PurgeStaging(e)
             \/ Complete(e) \/ LoseLease(e) \/ Refuse(e)
    <3>1. task'.cp = task.cp
      BY <2>1 DEF LoadCheckpoint, Verify, EnterSync, DropStaging, CreateStaging, RenewCopy,
                  CopyThread, DropCanonical, CreateCanonical, AppendBatch, BuildIndexes,
                  PurgeStaging, Complete, LoseLease, Refuse, Failing, Renew, Renewed,
                  CompletedTask, FailedTask, LeaseInv, TypeOK, TaskRows
    <3> QED
      BY <1>1, <3>1, AheadOfItself
  <2> QED
    BY <1>2, <2>1, SaveSteps, BatchStep, SkipStep DEF Advance
<1>3. ASSUME NEW e \in Executions, Claim(e) \/ Fail(e) \/ Killed(e) \/ Stall(e)
      PROVE  Ahead(task.cp, task'.cp)
  <2>1. task'.cp = task.cp
    BY <1>3, ClaimedRow DEF Claim, Fail, Failing, FailedTask, Killed, Stall, LeaseInv,
           TypeOK, TaskRows
  <2> QED
    BY <1>1, <2>1, AheadOfItself
<1>4. CASE Expire \/ UNCHANGED vars
  <2>1. task'.cp = task.cp
    BY <1>4 DEF Expire, vars, LeaseInv, TypeOK, TaskRows
  <2> QED
    BY <1>1, <2>1, AheadOfItself
<1> QED
  BY <1>2, <1>3, <1>4 DEF Next

\* The stored checkpoint never goes back, whatever executions are overtaken,
\* fail or are killed, and wherever they outlive their lease: who passes the
\* condition on the token in state.rs still knows the checkpoint in the row.
THEOREM CheckpointNeverGoesBack == Spec => NeverBackwards
<1>1. LeaseInv /\ [Next]_vars => [Ahead(task.cp, task'.cp)]_vars
  BY AheadStep
<1> QED
  BY <1>1, LeaseInit, LeaseStep, PTL DEF Spec, NeverBackwards

-----------------------------------------------------------------------------
(* The lease, for executions that are punctual.                             *)

HoldsInv == \A e \in Executions : Holds(e)

\* At most one execution under way owns the row.
LEMMA OneOwner ==
    ASSUME LeaseInv, NEW e \in Executions, NEW f \in Executions,
           Running(e), Running(f), Fenced(e), Fenced(f)
    PROVE  e = f
  BY DEF LeaseInv, Tokens, Fenced, Owns

\* What an execution does leaves the others what they hold: the row changes
\* only by its owner.
LEMMA OthersHold ==
    ASSUME LeaseInv, HoldsInv, NEW e \in Executions, NEW p, pc' = [pc EXCEPT ![e] = p],
           UNCHANGED mine, task' = task \/ (Running(e) /\ Fenced(e)),
           NEW f \in Executions, f # e
    PROVE  Holds(f)'
<1>1. /\ pc'[f] = pc[f] /\ pc \in [Executions -> Steps] /\ Holds(f)
      /\ pc[f] \in Exposed \cup InTransaction => Running(f)
  BY DEF LeaseInv, TypeOK, HoldsInv, Exposed, InTransaction, Running
<1>2. pc[f] \in Exposed \cup InTransaction => task' = task
  BY <1>1, OneOwner DEF Holds
<1> QED
  BY <1>1, <1>2 DEF Holds, Fenced

\* The steps into and out of the ones that rely on the lease.
LEMMA HoldsAdvance ==
    ASSUME LeaseInv, HoldsInv, NEW e \in Executions, Advance(e)
    PROVE  HoldsInv'
<1> USE DEF Exposed, InTransaction
<1>1. /\ Running(e) /\ Holds(e) /\ pc \in [Executions -> Steps]
      /\ pc' \in [Executions -> Steps]
      /\ pc' = [pc EXCEPT ![e] = pc'[e]] /\ UNCHANGED mine
  <2>1. Running(e) /\ UNCHANGED mine /\ \E p : pc' = [pc EXCEPT ![e] = p]
    <3>1. CASE BackfillBatch(e) \/ AppendBatch(e)
      <4>1. pc' = [pc EXCEPT ![e] = pc[e]]
        BY <3>1 DEF LeaseInv, TypeOK, BackfillBatch, AppendBatch, execution
      <4> QED
        BY <3>1, <4>1 DEF BackfillBatch, AppendBatch, execution, Running
    <3> QED
      BY <3>1 DEF Advance, LoadCheckpoint, BeginBackfill, SealBackfill, Verify, EnterSync,
             SkipVectors, AdoptLegacy, DropStaging, CreateStaging, RenewCopy, CopyThread,
             MarkStaged, MarkSwitching, DropCanonical, CreateCanonical, CommitCutover,
             BuildIndexes, CommitIndexes, AnnounceCleanup, PurgeStaging, CommitCleanup,
             Complete, LoseLease, Refuse, Failing, Unsound, Goto, Running
  <2>2. pc' \in [Executions -> Steps]
    BY LeaseStep DEF Next, LeaseInv, TypeOK
  <2> QED
    BY <2>1, <2>2 DEF LeaseInv, TypeOK, HoldsInv
<1>2. task' = task \/ Fenced(e)
  BY DEF Advance, LoadCheckpoint, BeginBackfill, BackfillBatch, SealBackfill, Verify,
         EnterSync, SkipVectors, AdoptLegacy, DropStaging, CreateStaging, RenewCopy,
         CopyThread, MarkStaged, MarkSwitching, DropCanonical, CreateCanonical, AppendBatch,
         CommitCutover, BuildIndexes, CommitIndexes, AnnounceCleanup, PurgeStaging,
         CommitCleanup, Complete, LoseLease, Refuse, Failing, Save, Renew
<1>3. Holds(e)'
  <2>1. CASE LoadCheckpoint(e) \/ EnterSync(e) \/ DropStaging(e)
    BY <1>1, <2>1 DEF Holds, LoadCheckpoint, EnterSync, DropStaging, Fenced, LeaseInv, TypeOK
  <2>2. CASE CreateCanonical(e) \/ AppendBatch(e)
    BY <1>1, <2>2 DEF Holds, CreateCanonical, AppendBatch, Fenced, Goto, LeaseInv, TypeOK,
           execution
  <2>3. CASE DropCanonical(e) \/ BuildIndexes(e) \/ PurgeStaging(e)
    BY <1>1, <2>3 DEF Holds, DropCanonical, BuildIndexes, PurgeStaging, Fenced, Goto,
           LeaseInv, TypeOK
  <2>4. CASE Verify(e) \/ RenewCopy(e)
    BY <1>1, <2>4 DEF Holds, Verify, RenewCopy, Renew, Renewed, Fenced, Owns, Goto,
           LeaseInv, TypeOK, TaskRows
  <2>5. CASE AnnounceCleanup(e)
    BY <1>1, <2>5 DEF Holds, AnnounceCleanup, Save, Checkpointed, Fenced, Owns, Goto,
           LeaseInv, TypeOK, TaskRows
  <2>6. CASE \/ BeginBackfill(e) \/ BackfillBatch(e) \/ SealBackfill(e) \/ SkipVectors(e)
             \/ AdoptLegacy(e) \/ CreateStaging(e) \/ CopyThread(e) \/ MarkStaged(e)
             \/ MarkSwitching(e) \/ CommitCutover(e) \/ CommitIndexes(e)
             \/ CommitCleanup(e) \/ Complete(e) \/ LoseLease(e) \/ Refuse(e)
    <3>1. pc'[e] \notin Exposed \cup InTransaction
      BY <1>1, <2>6 DEF BeginBackfill, BackfillBatch, SealBackfill, SkipVectors,
             AdoptLegacy, CreateStaging, CopyThread, MarkStaged, MarkSwitching,
             CommitCutover, CommitIndexes, CommitCleanup, Complete, LoseLease, Refuse,
             Failing, Goto, LeaseInv, TypeOK
    <3> QED
      BY <3>1 DEF Holds
  <2> QED
    BY <2>1, <2>2, <2>3, <2>4, <2>5, <2>6 DEF Advance
<1> QED
  BY <1>1, <1>2, <1>3, OthersHold DEF HoldsInv

\* A punctual execution keeps what it relies on, whatever the others do.
LEMMA HoldsStep ==
    ASSUME Punctual
    PROVE  LeaseInv /\ HoldsInv /\ [Next]_vars => HoldsInv'
<1> SUFFICES ASSUME LeaseInv, HoldsInv, [Next]_vars PROVE HoldsInv'
  OBVIOUS
<1>1. ASSUME NEW e \in Executions, Claim(e) PROVE HoldsInv'
  <2>1. task' = Claimed(task) /\ mine' = [mine EXCEPT ![e] = task.token + 1]
        /\ pc' = [pc EXCEPT ![e] = "load"] /\ Unlocked /\ ~Leased(task)
    BY <1>1 DEF Claim, Goto, Claimable
  <2>2. task'.token = task.token + 1 /\ task'.state = "running" /\ task'.live
    BY <2>1, ClaimedRow DEF LeaseInv, TypeOK, Claimed, TaskRows
  <2>3. ASSUME NEW f \in Executions, f # e PROVE pc[f] \notin Exposed \cup InTransaction
    BY <2>1 DEF HoldsInv, Holds, Unlocked, Leased, Fenced, Owns
  <2> QED
    BY <2>1, <2>2, <2>3 DEF HoldsInv, Holds, Fenced, Owns, LeaseInv, TypeOK, Exposed,
           InTransaction
<1>2. ASSUME NEW e \in Executions, Fail(e) \/ Killed(e) PROVE HoldsInv'
  <2>1. /\ pc' = [pc EXCEPT ![e] = "idle"] /\ UNCHANGED mine
        /\ task' = task \/ (Running(e) /\ Fenced(e))
    BY <1>2 DEF Fail, Killed, Failing, Goto
  <2>2. Holds(e)'
    BY <2>1 DEF Holds, Exposed, InTransaction, LeaseInv, TypeOK
  <2> QED
    BY <2>1, <2>2, OthersHold DEF HoldsInv
<1>3. ASSUME NEW e \in Executions, Stall(e) PROVE HoldsInv'
  <2>1. /\ pc[e] \notin Exposed /\ Running(e) /\ Fenced(e) /\ UNCHANGED execution
        /\ task' = [task EXCEPT !.live = FALSE]
    BY <1>3 DEF Stall, Punctual
  <2>2. ASSUME NEW f \in Executions PROVE pc[f] \notin Exposed
    BY <2>1, OneOwner DEF HoldsInv, Holds, Running, Exposed
  <2> QED
    BY <2>1, <2>2 DEF HoldsInv, Holds, Fenced, Owns, execution, LeaseInv, TypeOK, TaskRows
<1>4. CASE Expire
  <2>1. ASSUME NEW f \in Executions PROVE pc[f] \notin Exposed \cup InTransaction
    BY <1>4 DEF HoldsInv, Holds, Expire, Running, Exposed, InTransaction
  <2> QED
    BY <1>4, <2>1 DEF HoldsInv, Holds, Expire, execution
<1>5. CASE UNCHANGED vars
  BY <1>5 DEF vars, HoldsInv, Holds, Fenced
<1> QED
  BY <1>1, <1>2, <1>3, <1>4, <1>5, HoldsAdvance DEF Next

\* At first nobody relies on anything.
LEMMA HoldsInit == Init => HoldsInv
  BY DEF Init, HoldsInv, Holds, Exposed, InTransaction

\* Whoever changes times or tables owns the row.
LEMMA OwnersWrite ==
    ASSUME LeaseInv, HoldsInv, NEW e \in Executions, Advance(e),
           <<times, tables>>' # <<times, tables>>
    PROVE  Running(e) /\ Fenced(e)
  BY DEF Advance, LoadCheckpoint, BeginBackfill, BackfillBatch, SealBackfill, Verify,
         EnterSync, SkipVectors, AdoptLegacy, DropStaging, CreateStaging, RenewCopy,
         CopyThread, MarkStaged, MarkSwitching, DropCanonical, CreateCanonical, AppendBatch,
         CommitCutover, BuildIndexes, CommitIndexes, AnnounceCleanup, PurgeStaging,
         CommitCleanup, Complete, LoseLease, Refuse, Failing, Save, Running, HoldsInv, Holds,
         Exposed, InTransaction, tables

\* Only the owner of the row touches what the task migrates, for any number of
\* commands run at the same time; in particular, no execution is overtaken
\* inside a cutover.
THEOREM OwnersOnly == ASSUME Punctual PROVE Spec => OnlyTheHolder
<1>1. LeaseInv /\ HoldsInv /\ [Next]_vars =>
        [ <<times, canonical, staging>>' # <<times, canonical, staging>> =>
            \E e \in Executions : Fenced(e) /\ Advance(e) ]_vars
  <2> SUFFICES ASSUME LeaseInv, HoldsInv, Next,
                      <<times, canonical, staging>>' # <<times, canonical, staging>>
               PROVE  \E e \in Executions : Fenced(e) /\ Advance(e)
    OBVIOUS
  <2>1. PICK e \in Executions : Advance(e)
    BY DEF Next, Claim, Fail, Failing, Killed, Stall, Expire, tables
  <2> QED
    BY <2>1, OwnersWrite DEF tables
<1> QED
  BY <1>1, LeaseInit, LeaseStep, HoldsInit, HoldsStep, PTL DEF Spec, OnlyTheHolder

-----------------------------------------------------------------------------
(* The tables and the checkpoint.                                         *)

\* A new checkpoint says nothing.
LEMMA DataInit == Init => DataInv
<1> SUFFICES ASSUME Init PROVE DataInv
  OBVIOUS
<1>1. task = NewTask(NewCheckpoint) /\ task.cp = NewCheckpoint /\ task.state = "pending"
  BY DEF Init, NewTask
<1>2. CheckpointHolds
  BY <1>1 DEF CheckpointHolds, NewCheckpoint
<1>3. Tabled
  BY <1>1 DEF Tabled, NewCheckpoint, Init
<1>4. \A e \in Executions : Made(e)
  BY DEF Init, Made
<1> QED
  BY <1>2, <1>3, <1>4, LeaseInit, HoldsInit DEF DataInv, HoldsInv

\* What the row of an owner says, and what a save makes of it.
LEMMA OwnRow ==
    ASSUME DataInv, NEW e \in Executions, Running(e), Fenced(e), pc[e] # "load"
    PROVE  /\ task.cp = cp[e] /\ task.state = "running" /\ cp[e] \in Checkpoints
           /\ Fits(e) /\ Made(e) /\ Tabled /\ CheckpointHolds
           /\ task \in TaskRows(Checkpoints)
           /\ pc \in [Executions -> Steps] /\ copied \in [Executions -> 0..N]
           /\ \A c : Save(e, c) => /\ task'.cp = c /\ task'.state = "running"
                                   /\ task'.token = task.token
  BY DEF DataInv, LeaseInv, Knows, TypeOK, Fenced, Owns, Save, Checkpointed, TaskRows

\* Where an execution is in a step that changes nothing but itself and, in the
\* row, at most lease and state.
LEMMA Quiet ==
    ASSUME DataInv, UNCHANGED <<origin, times, canonical, staging, indexed>>,
           task'.cp = task.cp, task'.state = "completed" => task.state = "completed"
    PROVE  Tabled' /\ CheckpointHolds'
  BY DEF DataInv, Tabled, CheckpointHolds

\* The other executions are not disturbed: they do not own the row.
LEMMA OthersMade ==
    ASSUME DataInv, NEW e \in Executions, NEW p, pc' = [pc EXCEPT ![e] = p],
           NEW f \in Executions, f # e, Fenced(f)' => Fenced(f),
           UNCHANGED <<origin, canonical, staging, indexed, copied>>
             \/ (Running(e) /\ Fenced(e) /\ UNCHANGED origin)
    PROVE  Made(f)'
<1>1. pc'[f] = pc[f] /\ Made(f) /\ Holds(f)
  BY DEF DataInv, LeaseInv, TypeOK
<1>2. CASE UNCHANGED <<origin, canonical, staging, indexed, copied>>
  BY <1>1, <1>2 DEF Made, Copied
<1>3. CASE Running(e) /\ Fenced(e) /\ UNCHANGED origin
  <2>1. Running(f) => ~Fenced(f)
    BY <1>3, OneOwner DEF DataInv
  <2>2. pc[f] \notin {"create", "copy", "drop", "refill", "append", "indexing", "purged"}
    BY <1>1, <2>1 DEF Holds, Running, Exposed, InTransaction
  <2> QED
    BY <1>1, <1>3, <2>1, <2>2 DEF Made, Running
<1> QED
  BY <1>2, <1>3

\* Consecutive batches cover the threads.
LEMMA Batches ==
    ASSUME NEW k \in 0..N, NEW l \in Threads
    PROVE  /\ Batch(0, 0) = {}
           /\ Batch(0, l) \subseteq Batch(0, k) \union Batch(k, l)
           /\ (\A t \in Threads : t <= k) => Batch(0, k) = Threads
<1>1. N \in Nat /\ \A t \in Threads : t \in 1..N
  BY ConstantsAssumption
<1>2. \A t \in Threads : t \in Nat /\ t >= 1
  BY <1>1
<1> QED
  BY <1>1, <1>2 DEF Batch

\* The backfill of the RDB.
LEMMA BackfillSound ==
    ASSUME DataInv, NEW e \in Executions,
           BeginBackfill(e) \/ BackfillBatch(e) \/ SealBackfill(e)
    PROVE  Tabled' /\ CheckpointHolds' /\ Made(e)'
<1>1. /\ Running(e) /\ Fenced(e) /\ pc[e] # "load"
      /\ UNCHANGED <<origin, canonical, staging, indexed>>
  BY DEF BeginBackfill, BackfillBatch, SealBackfill, Running, Save, tables
<1>2. /\ task.cp = cp[e] /\ task.state = "running" /\ cp[e] \in Checkpoints
      /\ Fits(e) /\ Made(e) /\ Tabled /\ CheckpointHolds /\ pc \in [Executions -> Steps]
      /\ \A c : Save(e, c) => task'.cp = c /\ task'.state = "running"
  BY <1>1, OwnRow
<1>3. LeaseInv /\ cp[e].last \in 0..N /\ times \subseteq Threads /\ times' \subseteq Threads
  BY <1>2, ConstantsAssumption DEF DataInv, LeaseInv, TypeOK, Checkpoints, BeginBackfill,
         BackfillBatch, SealBackfill, Batch
<1>4. CASE BeginBackfill(e)
  <2>1. Save(e, Checkpoint("backfilling", 0, cp[e].vector, cp[e].cleanup))
    BY <1>3, <1>4, SavedBy
  <2>2. /\ task'.cp = Checkpoint("backfilling", 0, cp[e].vector, cp[e].cleanup)
        /\ task'.state = "running" /\ UNCHANGED times /\ pc'[e] = "backfill"
    BY <1>2, <1>4, <2>1 DEF BeginBackfill, Goto
  <2>3. Batch(0, 0) = {}
    <3>1. N \in Nat /\ \A t \in Threads : t \in 1..N
      BY ConstantsAssumption
    <3> QED
      BY <3>1 DEF Batch
  <2> QED
    BY <1>1, <1>2, <2>2, <2>3 DEF Tabled, CheckpointHolds, Made, Checkpoint
<1>5. CASE BackfillBatch(e)
  <2>1. PICK last \in Threads :
          /\ Save(e, Checkpoint(cp[e].rdb, last, cp[e].vector, cp[e].cleanup))
          /\ times' = times \union Batch(cp[e].last, last)
    BY <1>3, <1>5, SavedBy
  <2>2. /\ task'.cp = Checkpoint(cp[e].rdb, last, cp[e].vector, cp[e].cleanup)
        /\ task'.state = "running" /\ cp[e].rdb = "backfilling" /\ pc'[e] = "backfill"
    BY <1>2, <1>5, <2>1 DEF BackfillBatch, Fits
  <2>3. Batch(0, last) \subseteq times'
    BY <1>2, <1>3, <2>1, <2>2, Batches DEF CheckpointHolds
  <2> QED
    BY <1>1, <1>2, <2>2, <2>3 DEF Tabled, CheckpointHolds, Made, Checkpoint
<1>6. CASE SealBackfill(e)
  <2>1. Save(e, Checkpoint("verified", 0, cp[e].vector, cp[e].cleanup))
    BY <1>3, <1>6, SavedBy
  <2>2. /\ task'.cp = Checkpoint("verified", 0, cp[e].vector, cp[e].cleanup)
        /\ task'.state = "running" /\ cp[e].rdb = "backfilling" /\ pc'[e] = "check"
        /\ UNCHANGED times /\ \A t \in Threads : t <= cp[e].last
    BY <1>2, <1>6, <2>1 DEF SealBackfill, Fits, Goto
  <2>3. Threads \subseteq times
    <3>1. Batch(0, cp[e].last) = Threads
      BY <1>3, <2>2, ConstantsAssumption DEF Batch
    <3> QED
      BY <1>2, <2>2, <3>1 DEF CheckpointHolds
  <2> QED
    BY <1>1, <1>2, <1>3, <2>2, <2>3 DEF Tabled, CheckpointHolds, Made, Checkpoint
<1> QED
  BY <1>4, <1>5, <1>6

\* A store without a vector table.
LEMMA SkipSound ==
    ASSUME DataInv, NEW e \in Executions, SkipVectors(e)
    PROVE  Tabled' /\ CheckpointHolds' /\ Made(e)'
<1>1. /\ Running(e) /\ Fenced(e) /\ pc[e] # "load" /\ pc[e] \in {"skip", "skipped"}
      /\ UNCHANGED <<origin, times, canonical, staging, indexed>>
      /\ pc'[e] \in {"skipped", "verify"}
  BY DEF SkipVectors, Running, Save, tables, Goto, DataInv, LeaseInv, TypeOK
<1>2. /\ task.cp = cp[e] /\ cp[e] \in Checkpoints
      /\ Fits(e) /\ Made(e) /\ Tabled /\ CheckpointHolds
      /\ \A c : Save(e, c) => task'.cp = c /\ task'.state = "running"
  BY <1>1, OwnRow
<1>3. PICK v \in {"not_required", "unneeded"} : Save(e, [cp[e] EXCEPT !.vector = v])
  BY DEF SkipVectors
<1>4. [cp[e] EXCEPT !.vector = v] = Checkpoint(cp[e].rdb, cp[e].last, v, cp[e].cleanup)
  BY <1>2, Edited, Zenon DEF Checkpoint
<1>5. task'.cp = Checkpoint(cp[e].rdb, cp[e].last, v, cp[e].cleanup) /\ task'.state = "running"
  <2>1. Save(e, Checkpoint(cp[e].rdb, cp[e].last, v, cp[e].cleanup))
    BY <1>3, <1>4, Zenon
  <2> QED
    BY <1>2, <2>1
<1>6. origin = "none"
  BY <1>1, <1>2 DEF Made
<1> QED
  BY <1>1, <1>2, <1>5, <1>6 DEF Tabled, CheckpointHolds, Made, Checkpoint

\* What the tables are when the copy is complete.
LEMMA CopiedAll ==
    ASSUME NEW e \in Executions, copied \in [Executions -> 0..N],
           canonical = Holding(OldRows), Uncopied(e) = {}
    PROVE  Copied(e) = NewRows
<1>1. canonical.rows = Indexed \X {FALSE}
  BY DEF Holding, OldRows
<1>2. \A t \in Indexed : t <= copied[e]
  <2>1. \A t \in Indexed : <<t, FALSE>> \in canonical.rows /\ <<t, FALSE>>[1] = t
    BY <1>1
  <2>2. Indexed \subseteq Ids(canonical)
    BY <2>1 DEF Ids
  <2>3. N \in Nat /\ \A t \in Indexed : t \in 1..N
    BY ConstantsAssumption
  <2> QED
    BY <2>2, <2>3 DEF Uncopied
<1> QED
  BY <1>2 DEF Copied, NewRows

\* The saves after the backfill.
LEMMA SyncSound ==
    ASSUME DataInv, NEW e \in Executions,
           \/ AdoptLegacy(e) \/ MarkStaged(e) \/ MarkSwitching(e) \/ CommitCutover(e)
           \/ CommitIndexes(e) \/ AnnounceCleanup(e) \/ CommitCleanup(e)
    PROVE  Tabled' /\ CheckpointHolds' /\ Made(e)'
<1>1. /\ Running(e) /\ Fenced(e) /\ pc[e] # "load"
      /\ UNCHANGED <<origin, times, canonical, indexed>>
  BY DEF AdoptLegacy, MarkStaged, MarkSwitching, CommitCutover, CommitIndexes,
         AnnounceCleanup, CommitCleanup, Running, Save, tables
<1>2. /\ task.cp = cp[e] /\ cp[e] \in Checkpoints
      /\ Fits(e) /\ Made(e) /\ Tabled /\ CheckpointHolds /\ pc \in [Executions -> Steps]
      /\ copied \in [Executions -> 0..N]
      /\ \A c : Save(e, c) => task'.cp = c /\ task'.state = "running"
  BY <1>1, OwnRow
<1>3. LeaseInv /\ canonical \in Tables /\ staging \in Tables /\ origin \in Origins
      /\ \A t \in {canonical, staging} : t.exists \/ t.rows = {}
  BY DEF DataInv, LeaseInv, TypeOK
<1>4. CASE AdoptLegacy(e)
  <2>1. /\ Save(e, Checkpoint(cp[e].rdb, cp[e].last, origin, cp[e].cleanup))
        /\ pc'[e] \in {"switch", "cutover"} /\ UNCHANGED staging
    BY <1>2, <1>3, <1>4, SavedBy DEF AdoptLegacy, Goto, tables
  <2>2. cp[e].vector = "pending" /\ cp[e].rdb = "verified" /\ origin \in {"staged", "switching"}
    BY <1>2, <1>4 DEF AdoptLegacy, Fits
  <2>3. staging = Holding(NewRows)
    BY <1>2, <2>2 DEF Tabled
  <2>4. task'.cp = Checkpoint(cp[e].rdb, cp[e].last, origin, cp[e].cleanup)
        /\ task'.state = "running"
    BY <1>2, <2>1
  <2> QED
    BY <1>1, <1>2, <2>1, <2>2, <2>3, <2>4 DEF Tabled, CheckpointHolds, Made, Checkpoint
<1>5. CASE MarkStaged(e)
  <2>1. /\ Save(e, Checkpoint(cp[e].rdb, cp[e].last, "staged", cp[e].cleanup))
        /\ pc'[e] = "switch" /\ UNCHANGED staging
    BY <1>2, <1>3, <1>5, SavedBy DEF MarkStaged, Goto, tables
  <2>2. cp[e].vector = "pending" /\ cp[e].rdb = "verified" /\ origin = "table"
    BY <1>2, <1>5 DEF MarkStaged, Fits, Made
  <2>3. staging = Holding(NewRows)
    <3>1. canonical = Holding(OldRows) /\ staging = Holding(Copied(e))
      BY <1>1, <1>2, <1>5, <2>2 DEF Tabled, Made, MarkStaged
    <3> QED
      BY <1>2, <1>5, <3>1, CopiedAll DEF MarkStaged
  <2>4. task'.cp = Checkpoint(cp[e].rdb, cp[e].last, "staged", cp[e].cleanup)
        /\ task'.state = "running"
    BY <1>2, <2>1
  <2> QED
    BY <1>1, <1>2, <2>1, <2>2, <2>3, <2>4 DEF Tabled, CheckpointHolds, Made, Checkpoint
<1>6. CASE MarkSwitching(e)
  <2>1. /\ Save(e, Checkpoint(cp[e].rdb, cp[e].last, "switching", cp[e].cleanup))
        /\ pc'[e] = "cutover" /\ staging' = Opened(staging)
    BY <1>2, <1>3, <1>6, SavedBy DEF MarkSwitching, Goto
  <2>2. cp[e].vector = "staged" /\ cp[e].rdb = "verified"
    BY <1>2, <1>6 DEF MarkSwitching, Fits
  <2>3. staging = Holding(NewRows) /\ origin # "none"
    BY <1>2, <2>2 DEF CheckpointHolds, Tabled, Holding, NoTable
  <2>4. staging' = Holding(NewRows)
    BY <2>1, <2>3 DEF Opened, Holding
  <2>5. task'.cp = Checkpoint(cp[e].rdb, cp[e].last, "switching", cp[e].cleanup)
        /\ task'.state = "running"
    BY <1>2, <2>1
  <2> QED
    BY <1>1, <1>2, <2>1, <2>2, <2>3, <2>4, <2>5 DEF Tabled, CheckpointHolds, Made, Checkpoint
<1>7. CASE CommitCutover(e)
  <2>1. /\ Save(e, Checkpoint(cp[e].rdb, cp[e].last, "canonical_ready", cp[e].cleanup))
        /\ pc'[e] = "index" /\ UNCHANGED staging
    BY <1>2, <1>3, <1>7, SavedBy DEF CommitCutover, Goto, tables
  <2>2. cp[e].vector = "switching" /\ cp[e].rdb = "verified" /\ canonical.exists
    BY <1>2, <1>7 DEF CommitCutover, Fits, Made
  <2>3. staging = Holding(NewRows) /\ origin # "none"
    BY <1>2, <2>2 DEF CheckpointHolds, Tabled, Holding, NoTable
  <2>4. canonical = Holding(NewRows)
    BY <1>3, <1>7, <2>2, <2>3 DEF CommitCutover, Holding, Tables
  <2>5. task'.cp = Checkpoint(cp[e].rdb, cp[e].last, "canonical_ready", cp[e].cleanup)
        /\ task'.state = "running"
    BY <1>2, <2>1
  <2> QED
    BY <1>1, <1>2, <2>1, <2>2, <2>3, <2>4, <2>5 DEF Tabled, CheckpointHolds, Made, Checkpoint
<1>8. CASE CommitIndexes(e)
  <2>1. /\ Save(e, Checkpoint(cp[e].rdb, cp[e].last, "indexes_verified", cp[e].cleanup))
        /\ pc'[e] = "cleanup" /\ UNCHANGED staging
    BY <1>2, <1>3, <1>8, SavedBy DEF CommitIndexes, Goto, tables
  <2>2. cp[e].vector = "canonical_ready" /\ cp[e].rdb = "verified" /\ indexed
    BY <1>2, <1>8 DEF CommitIndexes, Fits, Made
  <2>3. task'.cp = Checkpoint(cp[e].rdb, cp[e].last, "indexes_verified", cp[e].cleanup)
        /\ task'.state = "running"
    BY <1>2, <2>1
  <2> QED
    BY <1>1, <1>2, <2>1, <2>2, <2>3 DEF Tabled, CheckpointHolds, Made, Checkpoint
<1>9. CASE AnnounceCleanup(e)
  <2>1. /\ Save(e, Checkpoint(cp[e].rdb, cp[e].last, cp[e].vector, TRUE))
        /\ pc'[e] = "purge" /\ UNCHANGED staging
    BY <1>2, <1>3, <1>9, SavedBy DEF AnnounceCleanup, Goto, tables
  <2>2. cp[e].vector = "indexes_verified" /\ cp[e].rdb = "verified"
    BY <1>2, <1>9 DEF AnnounceCleanup, Fits
  <2>3. task'.cp = Checkpoint(cp[e].rdb, cp[e].last, cp[e].vector, TRUE)
        /\ task'.state = "running"
    BY <1>2, <2>1
  <2> QED
    BY <1>1, <1>2, <2>1, <2>2, <2>3 DEF Tabled, CheckpointHolds, Made, Checkpoint
<1>10. CASE CommitCleanup(e)
  <2>1. /\ Save(e, Checkpoint(cp[e].rdb, cp[e].last, "migrated", FALSE))
        /\ pc'[e] = "verify" /\ UNCHANGED staging
    BY <1>2, <1>3, <1>10, SavedBy DEF CommitCleanup, Goto, tables
  <2>2. cp[e].vector = "indexes_verified" /\ cp[e].rdb = "verified" /\ staging = NoTable
    BY <1>2, <1>10 DEF CommitCleanup, Fits, Made
  <2>3. task'.cp = Checkpoint(cp[e].rdb, cp[e].last, "migrated", FALSE)
        /\ task'.state = "running"
    BY <1>2, <2>1
  <2> QED
    BY <1>1, <1>2, <2>1, <2>2, <2>3 DEF Tabled, CheckpointHolds, Made, Checkpoint
<1> QED
  BY <1>4, <1>5, <1>6, <1>7, <1>8, <1>9, <1>10

\* Opening a table changes nothing of one that is there.
LEMMA OpeningKeeps ==
    /\ Opened(NoTable) = Holding({})
    /\ \A rows : Opened(Holding(rows)) = Holding(rows)
<1>1. ASSUME NEW a, NEW b, NEW rows
      PROVE  [[exists |-> a, rows |-> rows] EXCEPT !.exists = b] = [exists |-> b, rows |-> rows]
  OBVIOUS
<1>2. \A rows : [Holding(rows) EXCEPT !.exists = TRUE] = Holding(rows)
  BY <1>1, Zenon DEF Holding
<1>3. [NoTable EXCEPT !.exists = TRUE] = Holding({})
  <2> DEFINE t == [NoTable EXCEPT !.exists = TRUE]
  <2>1. t \in [exists : BOOLEAN, rows : SUBSET {}] /\ t.exists = TRUE /\ t.rows = {}
    BY DEF NoTable
  <2>2. ASSUME NEW u \in [exists : BOOLEAN, rows : SUBSET {}], u.exists = TRUE, u.rows = {}
        PROVE  u = Holding({})
    BY <2>2 DEF Holding
  <2> QED
    BY <2>1, <2>2, Zenon
<1> QED
  BY <1>2, <1>3, Zenon DEF Opened

\* The steps that change the tables.
LEMMA TableSound ==
    ASSUME DataInv, NEW e \in Executions,
           \/ DropStaging(e) \/ CreateStaging(e) \/ CopyThread(e) \/ DropCanonical(e)
           \/ CreateCanonical(e) \/ AppendBatch(e) \/ BuildIndexes(e) \/ PurgeStaging(e)
    PROVE  Tabled' /\ CheckpointHolds' /\ Made(e)'
<1>1. /\ Running(e) /\ Fenced(e) /\ pc[e] # "load" /\ UNCHANGED <<origin, task, times>>
      /\ Fenced(e)'
  BY DEF DropStaging, CreateStaging, CopyThread, DropCanonical, CreateCanonical, AppendBatch,
         BuildIndexes, PurgeStaging, Running, DataInv, Holds, Exposed, InTransaction, Fenced,
         execution
<1>2. /\ task.cp = cp[e] /\ task.state = "running" /\ Fits(e) /\ Made(e) /\ Tabled
      /\ CheckpointHolds /\ pc \in [Executions -> Steps] /\ copied \in [Executions -> 0..N]
  BY <1>1, OwnRow
<1>3. /\ canonical \in Tables /\ staging \in Tables /\ origin \in Origins
      /\ \A t \in {canonical, staging} : t.exists \/ t.rows = {}
  BY DEF DataInv, LeaseInv, TypeOK
<1>4. CASE DropStaging(e)
  <2>1. cp[e].vector = "pending" /\ origin = "table" /\ pc'[e] = "create"
        /\ staging' = NoTable /\ UNCHANGED <<canonical, indexed>>
    BY <1>2, <1>4 DEF DropStaging, Fits, Made, Goto
  <2> QED
    BY <1>1, <1>2, <2>1 DEF Tabled, CheckpointHolds, Made
<1>5. CASE CreateStaging(e)
  <2>1. /\ cp[e].vector = "pending" /\ origin = "table" /\ pc'[e] = "renew"
        /\ staging = NoTable /\ canonical = Holding(OldRows) /\ copied'[e] = 0
        /\ UNCHANGED indexed
    BY <1>2, <1>5 DEF CreateStaging, Fits, Made, Tabled, Goto
  <2>2. staging' = Holding({}) /\ canonical' = canonical
    BY <1>5, <2>1, OpeningKeeps DEF CreateStaging
  <2>3. Copied(e)' = {}
    <3>1. N \in Nat /\ \A t \in Threads : t \in 1..N
      BY ConstantsAssumption
    <3>2. {t \in Indexed \cap Threads : t <= 0} = {}
      BY <3>1
    <3> QED
      BY <2>1, <3>2 DEF Copied
  <2> QED
    BY <1>1, <1>2, <2>1, <2>2, <2>3 DEF Tabled, CheckpointHolds, Made
<1>6. CASE CopyThread(e)
  <2>1. /\ cp[e].vector = "pending" /\ origin = "table" /\ pc'[e] = "renew"
        /\ staging = Holding(Copied(e)) /\ canonical = Holding(OldRows)
        /\ UNCHANGED <<canonical, indexed>>
    BY <1>1, <1>2, <1>6 DEF CopyThread, Fits, Made, Tabled, Goto
  <2>2. PICK t \in Uncopied(e) :
          /\ \A u \in Uncopied(e) : t <= u
          /\ staging' = Holding(staging.rows \union ({t} \cap Threads) \X {TRUE})
          /\ copied' = [copied EXCEPT ![e] = t]
    BY <1>6 DEF CopyThread
  <2>3. Ids(canonical) = Indexed
    <3>1. canonical.rows = Indexed \X {FALSE}
      BY <2>1 DEF Holding, OldRows
    <3>2. \A u \in Indexed : <<u, FALSE>> \in canonical.rows /\ <<u, FALSE>>[1] = u
      BY <3>1
    <3>3. \A row \in canonical.rows : row[1] \in Indexed
      BY <3>1
    <3> QED
      BY <3>2, <3>3 DEF Ids
  <2>4. t \in Indexed /\ t > copied[e] /\ \A u \in Indexed : u > copied[e] => t <= u
    BY <2>2, <2>3 DEF Uncopied
  <2>5. {u \in Indexed \cap Threads : u <= t}
          = {u \in Indexed \cap Threads : u <= copied[e]} \union ({t} \cap Threads)
    <3>1. N \in Nat /\ (\A u \in Indexed : u \in 1..N) /\ copied[e] \in 0..N
      BY <1>2, ConstantsAssumption
    <3> QED
      BY <2>4, <3>1
  <2>6. Copied(e)' = Copied(e) \union ({t} \cap Threads) \X {TRUE}
    <3>1. copied'[e] = t
      BY <1>2, <2>2
    <3> QED
      BY <2>5, <3>1 DEF Copied
  <2>7. staging' = Holding(Copied(e)')
    BY <2>1, <2>2, <2>6 DEF Holding
  <2> QED
    BY <1>1, <1>2, <2>1, <2>7 DEF Tabled, CheckpointHolds, Made
<1>7. CASE DropCanonical(e)
  <2>1. /\ cp[e].vector = "switching" /\ pc'[e] = "refill" /\ canonical' = NoTable
        /\ staging = Holding(NewRows)
    BY <1>2, <1>7 DEF DropCanonical, Fits, Goto, CheckpointHolds
  <2>2. staging' = staging /\ origin # "none"
    BY <1>2, <1>7, <2>1, OpeningKeeps DEF DropCanonical, Holding, Tabled, NoTable
  <2> QED
    BY <1>1, <1>2, <2>1, <2>2 DEF Tabled, CheckpointHolds, Made
<1>8. CASE CreateCanonical(e)
  <2>1. /\ cp[e].vector = "switching" /\ pc'[e] = "append" /\ canonical' = Opened(NoTable)
        /\ staging = Holding(NewRows) /\ UNCHANGED <<staging, indexed>>
    BY <1>2, <1>8 DEF CreateCanonical, Fits, Made, Goto, CheckpointHolds
  <2>2. canonical'.exists /\ canonical'.rows = {} /\ origin # "none"
    BY <1>2, <2>1 DEF Opened, Holding, Tabled, NoTable
  <2> QED
    BY <1>1, <1>2, <2>1, <2>2 DEF Tabled, CheckpointHolds, Made
<1>9. CASE AppendBatch(e)
  <2>1. /\ cp[e].vector = "switching" /\ pc'[e] = "append"
        /\ staging = Holding(NewRows) /\ UNCHANGED <<staging, indexed>>
        /\ canonical.rows \subseteq NewRows
    BY <1>2, <1>9 DEF AppendBatch, Fits, Made, execution, CheckpointHolds
  <2>2. canonical'.exists /\ canonical'.rows \subseteq NewRows /\ origin # "none"
    BY <1>2, <1>9, <2>1 DEF AppendBatch, Holding, Tabled, NoTable
  <2> QED
    BY <1>1, <1>2, <2>1, <2>2 DEF Tabled, CheckpointHolds, Made
<1>10. CASE BuildIndexes(e)
  <2>1. /\ cp[e].vector = "canonical_ready" /\ pc'[e] = "indexing" /\ indexed' = TRUE
        /\ canonical = Holding(NewRows)
    BY <1>2, <1>10 DEF BuildIndexes, Fits, Goto, CheckpointHolds
  <2>2. canonical' = canonical /\ origin # "none"
    BY <1>2, <1>10, <2>1, OpeningKeeps DEF BuildIndexes, Holding, Tabled, NoTable
  <2> QED
    BY <1>1, <1>2, <2>1, <2>2 DEF Tabled, CheckpointHolds, Made
<1>11. CASE PurgeStaging(e)
  <2>1. /\ cp[e].vector = "indexes_verified" /\ pc'[e] = "purged" /\ staging' = NoTable
        /\ UNCHANGED <<canonical, indexed>>
    BY <1>2, <1>11 DEF PurgeStaging, Fits, Goto
  <2> QED
    BY <1>1, <1>2, <2>1 DEF Tabled, CheckpointHolds, Made
<1> QED
  BY <1>4, <1>5, <1>6, <1>7, <1>8, <1>9, <1>10, <1>11

\* The steps that change neither, among them the choice of where to continue.
LEMMA QuietSound ==
    ASSUME DataInv, NEW e \in Executions,
           \/ LoadCheckpoint(e) \/ Verify(e) \/ EnterSync(e) \/ RenewCopy(e)
           \/ LoseLease(e) \/ Failing(e) \/ Killed(e) \/ Stall(e) \/ Claim(e) \/ Complete(e)
    PROVE  Tabled' /\ CheckpointHolds' /\ Made(e)'
<1>1. UNCHANGED <<origin, times, canonical, staging, indexed, copied>>
  BY DEF LoadCheckpoint, Verify, EnterSync, RenewCopy, LoseLease, Failing, Killed, Stall,
         Claim, Complete, tables, execution
<1>2. pc \in [Executions -> Steps] /\ task \in TaskRows(Checkpoints) /\ Fits(e) /\ Made(e)
      /\ Tabled /\ CheckpointHolds
  BY DEF DataInv, LeaseInv, TypeOK
<1>3. CASE Complete(e)
  <2>1. Running(e) /\ Fenced(e) /\ pc[e] = "complete" /\ pc'[e] = "idle"
    BY <1>2, <1>3 DEF Complete, Running, Goto
  <2>2. task.cp.rdb = "verified" /\ task.cp.vector \in {"migrated", "unneeded"}
    BY <1>2, <2>1, OwnRow DEF Fits
  <2>3. task'.cp = task.cp
    BY <1>2, <1>3 DEF Complete, CompletedTask, TaskRows
  <2> QED
    BY <1>1, <1>2, <2>1, <2>2, <2>3 DEF Tabled, CheckpointHolds, Made
<1>4. CASE Claim(e)
  <2>1. task'.cp = task.cp /\ task'.state = "running" /\ pc'[e] = "load"
    BY <1>2, <1>4, ClaimedRow DEF Claim, Claimed, Goto, TaskRows
  <2> QED
    BY <1>1, <2>1, Quiet DEF Made
<1>5. CASE Failing(e) \/ LoseLease(e) \/ Killed(e)
  <2>1. task'.cp = task.cp /\ (task'.state = "completed" => task.state = "completed")
        /\ pc'[e] = "idle"
    BY <1>2, <1>5 DEF Failing, LoseLease, Killed, FailedTask, Goto, TaskRows
  <2> QED
    BY <1>1, <2>1, Quiet DEF Made
<1>6. CASE Stall(e)
  <2>1. task'.cp = task.cp /\ task'.state = task.state /\ UNCHANGED pc
        /\ task'.token = task.token
        /\ UNCHANGED mine
    BY <1>2, <1>6 DEF Stall, execution, TaskRows
  <2> QED
    BY <1>1, <1>2, <2>1, Quiet DEF Made, Copied, Fenced, Owns
<1>7. CASE LoadCheckpoint(e)
  <2>1. UNCHANGED task /\ pc'[e] \in {"begin", "backfill", "sync"}
    <3>1. task.cp.rdb \in {"pending", "backfilling", "verified"}
      BY <1>2, Phases DEF TaskRows, Checkpoints
    <3> QED
      BY <1>2, <1>7, <3>1 DEF LoadCheckpoint, Goto
  <2> QED
    BY <1>1, <2>1, Quiet DEF Made
<1>8. CASE Verify(e) \/ RenewCopy(e)
  <2>1. task'.cp = task.cp /\ task'.state = task.state /\ task'.token = task.token
        /\ UNCHANGED mine /\ pc'[e] \in {"sync", "complete", "copy"}
        /\ (pc'[e] = "copy" => pc[e] = "renew" /\ Fenced(e))
    BY <1>2, <1>8 DEF Verify, RenewCopy, Renew, Renewed, Goto, TaskRows
  <2> QED
    BY <1>1, <1>2, <2>1, Quiet DEF Made, Copied, Fenced, Owns
<1>9. CASE EnterSync(e)
  <2>1. /\ pc[e] = "sync" /\ Running(e) /\ Fenced(e) /\ UNCHANGED task
        /\ pc'[e] = Entry(cp[e]) /\ Entry(cp[e]) # "refused"
    BY <1>2, <1>9 DEF EnterSync, Goto, Running, DataInv, Holds, Exposed
  <2>2. task.cp = cp[e]
    BY <2>1, OwnRow
  <2>3. Entry(cp[e]) = "skip" => origin = "none"
    <3>1. ASSUME Entry(cp[e]) = "skip" PROVE origin = "none"
      <4>1. /\ cp[e].vector \in {"pending", "not_required"}
            /\ ~Adoptable(cp[e]) /\ ~canonical.exists
        BY <3>1, Entries
      <4>2. CASE cp[e].vector = "not_required"
        BY <1>2, <2>2, <4>2 DEF CheckpointHolds
      <4>3. CASE cp[e].vector = "pending"
        BY <1>2, <2>2, <4>1, <4>3 DEF Adoptable, Tabled, Holding, DataInv, LeaseInv, TypeOK,
               Origins
      <4> QED
        BY <4>1, <4>2, <4>3
    <3> QED
      BY <3>1
  <2>4. Entry(cp[e]) = "drop" => origin = "table"
    <3>1. ASSUME Entry(cp[e]) = "drop" PROVE origin = "table"
      <4>1. cp[e].vector = "pending" /\ ~Adoptable(cp[e]) /\ canonical.exists
        BY <3>1, Entries
      <4> QED
        BY <1>2, <4>1 DEF Adoptable, Tabled, NoTable, DataInv, LeaseInv, TypeOK, Origins
    <3> QED
      BY <3>1
  <2>5. Entry(cp[e]) \in {"verify", "adopt", "skip", "drop", "switch", "cutover",
                          "index", "cleanup", "refused"}
    BY Entries
  <2>6. Tabled' /\ CheckpointHolds'
    BY <1>1, <2>1, Quiet
  <2> QED
    BY <1>1, <2>1, <2>3, <2>4, <2>5, <2>6 DEF Made
<1> QED
  BY <1>3, <1>4, <1>5, <1>6, <1>7, <1>8, <1>9

\* Every step keeps tables, times and checkpoint in agreement.
LEMMA DataStep ==
    ASSUME Punctual
    PROVE  DataInv /\ [Next]_vars => DataInv'
<1> SUFFICES ASSUME DataInv, [Next]_vars PROVE DataInv'
  OBVIOUS
<1>1. LeaseInv' /\ HoldsInv' /\ LeaseInv /\ HoldsInv
  BY LeaseStep, HoldsStep DEF DataInv, HoldsInv
<1>2. SUFFICES Tabled' /\ CheckpointHolds' /\ \A e \in Executions : Made(e)'
  BY <1>1 DEF DataInv, HoldsInv
<1>3. ASSUME NEW e \in Executions,
             Claim(e) \/ Advance(e) \/ Fail(e) \/ Killed(e) \/ Stall(e)
      PROVE  Tabled' /\ CheckpointHolds' /\ Made(e)'
  BY <1>3, BackfillSound, SkipSound, SyncSound, TableSound, QuietSound
     DEF Advance, Fail, Refuse
<1>4. ASSUME NEW e \in Executions,
             Claim(e) \/ Advance(e) \/ Fail(e) \/ Killed(e) \/ Stall(e),
             NEW f \in Executions, f # e
      PROVE  Made(f)'
  <2>1. task \in TaskRows(Checkpoints) /\ pc \in [Executions -> Steps]
        /\ mine \in [Executions -> Nat]
        /\ pc' \in [Executions -> Steps] /\ mine[f] <= task.token
    BY <1>1 DEF LeaseInv, TypeOK, Tokens
  <2>2. pc' = [pc EXCEPT ![e] = pc'[e]]
    <3>1. \E p : pc' = [pc EXCEPT ![e] = p]
      <4>1. CASE Stall(e) \/ BackfillBatch(e) \/ AppendBatch(e)
        <5>1. pc' = [pc EXCEPT ![e] = pc[e]]
          BY <2>1, <4>1 DEF BackfillBatch, AppendBatch, Stall, execution
        <5> QED
          BY <5>1
      <4> QED
        BY <1>4, <4>1 DEF Advance, LoadCheckpoint, BeginBackfill, SealBackfill, Verify,
               EnterSync, SkipVectors, AdoptLegacy, DropStaging, CreateStaging, RenewCopy,
               CopyThread, MarkStaged, MarkSwitching, DropCanonical, CreateCanonical,
               CommitCutover, BuildIndexes, CommitIndexes, AnnounceCleanup, PurgeStaging,
               CommitCleanup, Complete, LoseLease, Refuse, Failing, Goto, Claim, Fail, Killed
    <3> QED
      BY <2>1, <3>1
  <2>3. Fenced(f)' => Fenced(f)
    <3>1. mine'[f] = mine[f]
      BY <1>4, <2>1 DEF Advance, LoadCheckpoint, BeginBackfill, BackfillBatch, SealBackfill,
             Verify, EnterSync, SkipVectors, AdoptLegacy, DropStaging, CreateStaging,
             RenewCopy, CopyThread, MarkStaged, MarkSwitching, DropCanonical,
             CreateCanonical, AppendBatch, CommitCutover, BuildIndexes, CommitIndexes,
             AnnounceCleanup, PurgeStaging, CommitCleanup, Complete, LoseLease, Refuse,
             Failing, Claim, Fail, Killed, Stall, execution
    <3>2. CASE Claim(e)
      <4>1. task'.token = task.token + 1 /\ task.token \in Nat
        BY <2>1, <3>2, ClaimedRow DEF Claim, TaskRows
      <4> QED
        BY <2>1, <3>1, <4>1 DEF Fenced, Owns
    <3>3. CASE ~Claim(e)
      <4>1. task'.token = task.token
            /\ (task'.state = "running" => task.state = "running")
        BY <1>4, <2>1, <3>3 DEF Advance, LoadCheckpoint, BeginBackfill, BackfillBatch,
               SealBackfill, Verify, EnterSync, SkipVectors, AdoptLegacy, DropStaging,
               CreateStaging, RenewCopy, CopyThread, MarkStaged, MarkSwitching,
               DropCanonical, CreateCanonical, AppendBatch, CommitCutover, BuildIndexes,
               CommitIndexes, AnnounceCleanup, PurgeStaging, CommitCleanup, Complete,
               LoseLease, Refuse, Failing, Fail, Killed, Stall, Save, Renew, Renewed,
               Checkpointed, CompletedTask, FailedTask, TaskRows
      <4> QED
        BY <3>1, <4>1 DEF Fenced, Owns
    <3> QED
      BY <3>2, <3>3
  <2>4. \/ UNCHANGED <<origin, canonical, staging, indexed, copied>>
        \/ Running(e) /\ Fenced(e) /\ UNCHANGED origin
    BY <1>4, <1>1 DEF Advance, LoadCheckpoint, BeginBackfill, BackfillBatch, SealBackfill,
           Verify, EnterSync, SkipVectors, AdoptLegacy, DropStaging, CreateStaging,
           RenewCopy, CopyThread, MarkStaged, MarkSwitching, DropCanonical,
           CreateCanonical, AppendBatch, CommitCutover, BuildIndexes, CommitIndexes,
           AnnounceCleanup, PurgeStaging, CommitCleanup, Complete, LoseLease, Refuse,
           Failing, Claim, Fail, Killed, Stall, execution, tables, Save, Running, HoldsInv,
           Holds, Exposed, InTransaction
  <2> QED
    BY <1>4, <2>2, <2>3, <2>4, OthersMade
<1>5. CASE Expire \/ UNCHANGED vars
  <2>1. /\ UNCHANGED <<origin, times, canonical, staging, indexed, copied, pc, mine>>
        /\ task'.cp = task.cp /\ task'.state = task.state /\ task'.token = task.token
    BY <1>1, <1>5 DEF Expire, vars, tables, execution, LeaseInv, TypeOK, TaskRows
  <2>2. Tabled' /\ CheckpointHolds'
    BY <2>1, Quiet
  <2>3. \A e \in Executions : Made(e)'
    BY <2>1 DEF DataInv, Made, Copied, Fenced, Owns
  <2> QED
    BY <2>2, <2>3
<1>6. CASE \E e \in Executions : Claim(e) \/ Advance(e) \/ Fail(e) \/ Killed(e) \/ Stall(e)
  <2>1. PICK e \in Executions : Claim(e) \/ Advance(e) \/ Fail(e) \/ Killed(e) \/ Stall(e)
    BY <1>6
  <2>2. \A f \in Executions : Made(f)'
    BY <1>3, <1>4, <2>1
  <2> QED
    BY <1>3, <2>1, <2>2
<1> QED
  BY <1>5, <1>6 DEF Next

-----------------------------------------------------------------------------
(* What the checkpoint, the tables and the task promise.                   *)

\* All the next execution goes by is true, after any sequence of errors, kills
\* and takeovers.
THEOREM CheckpointIsTrue == ASSUME Punctual PROVE Spec => []CheckpointHolds
<1>1. DataInv => CheckpointHolds
  BY DEF DataInv
<1> QED
  BY <1>1, DataInit, DataStep, PTL DEF Spec

\* The threads of the old and of the new table.
LEMMA IdsOf ==
    /\ Ids(Holding(OldRows)) = Indexed
    /\ Ids(Holding(NewRows)) = Indexed \cap Threads
<1>1. ASSUME NEW S, NEW b PROVE Ids(Holding(S \X {b})) = S
  <2>1. Holding(S \X {b}).rows = S \X {b}
    BY DEF Holding
  <2>2. \A u \in S : <<u, b>> \in S \X {b} /\ <<u, b>>[1] = u
    OBVIOUS
  <2>3. \A row \in S \X {b} : row[1] \in S
    OBVIOUS
  <2> QED
    BY <2>1, <2>2, <2>3 DEF Ids
<1> QED
  BY <1>1, Zenon DEF OldRows, NewRows

\* The checkpoint's phase is one of VectorPhases.
LEMMA PhaseOf ==
    ASSUME DataInv
    PROVE  /\ task.cp.vector \in {"pending", "not_required", "staged", "switching",
                "canonical_ready", "indexes_verified", "migrated", "unneeded"}
           /\ origin \in {"none", "table", "staged", "switching"}
  BY Phases DEF DataInv, LeaseInv, TypeOK, TaskRows, Checkpoints, Origins

\* No row of a thread that still exists is ever without a copy.
THEOREM RowsSurvive == ASSUME Punctual PROVE Spec => []NothingLost
<1>1. DataInv => NothingLost
  <2> SUFFICES ASSUME DataInv, origin # "none" PROVE NothingLost
    BY DEF NothingLost
  <2>1. CheckpointHolds /\ Tabled
    BY DEF DataInv
  <2> QED
    BY <2>1, PhaseOf, IdsOf DEF CheckpointHolds, Tabled, NothingLost
<1> QED
  BY <1>1, DataInit, DataStep, PTL DEF Spec

\* A task reported as completed has done all it was for.
THEOREM CompletedMeansWhole == ASSUME Punctual PROVE Spec => []CompletedIsWhole
<1>1. DataInv => CompletedIsWhole
  BY PhaseOf DEF DataInv, CheckpointHolds, Tabled, CompletedIsWhole
<1> QED
  BY <1>1, DataInit, DataStep, PTL DEF Spec

-----------------------------------------------------------------------------
(* The task implements the exchange of a table.                            *)

\* What the readers see, from origin and table.
LEMMA ContentIs ==
    /\ origin = "none" \/ canonical = Holding(NewRows) => content = "new"
    /\ origin # "none" /\ canonical # Holding(NewRows) /\ canonical # Holding(OldRows)
         => content = "partial"
    /\ content \in {"old", "partial", "new"}
  BY Zenon DEF content

\* The same after a step.
LEMMA ContentNext ==
    /\ origin' = "none" \/ canonical' = Holding(NewRows) => content' = "new"
    /\ origin' # "none" /\ canonical' # Holding(NewRows) /\ canonical' # Holding(OldRows)
         => content' = "partial"
  BY Zenon DEF content

\* A table that holds some of the new rows is not the old one, unless there
\* are no rows at all.
LEMMA NewIsNotOld ==
    ASSUME NEW table, table.rows \subseteq NewRows, table = Holding(OldRows)
    PROVE  table = Holding(NewRows)
<1>1. OldRows \subseteq NewRows
  BY DEF Holding
<1>2. Indexed = {}
  <2>1. ASSUME NEW t \in Indexed PROVE FALSE
    <3>1. <<t, FALSE>> \in NewRows
      BY <1>1, <2>1 DEF OldRows
    <3> QED
      BY <3>1 DEF NewRows
  <2> QED
    BY <2>1
<1> QED
  BY <1>2 DEF OldRows, NewRows

\* A step of the task is a step of the exchange, or none.
LEMMA ExchangeStep ==
    DataInv /\ DataInv' /\ [Next]_vars => [Exchange!Next]_(Exchange!vars)
<1> SUFFICES ASSUME DataInv, DataInv', [Next]_vars
             PROVE  Exchange!Next \/ UNCHANGED <<content, task.state = "completed">>
  BY DEF Exchange!vars
<1>1. ASSUME UNCHANGED <<origin, canonical>> PROVE UNCHANGED content
  BY <1>1, Zenon DEF content
<1>2. task \in TaskRows(Checkpoints) /\ pc \in [Executions -> Steps]
  BY DEF DataInv, LeaseInv, TypeOK
<1>3. ASSUME NEW e \in Executions,
             \/ CreateStaging(e) \/ DropCanonical(e) \/ CreateCanonical(e)
             \/ AppendBatch(e) \/ BuildIndexes(e)
      PROVE  Exchange!Next \/ UNCHANGED <<content, task.state = "completed">>
  <2>1. /\ Running(e) /\ Fenced(e) /\ pc[e] # "load" /\ UNCHANGED <<origin, task>>
    BY <1>3 DEF CreateStaging, DropCanonical, CreateCanonical, AppendBatch,
           BuildIndexes, Running, DataInv, Holds, Exposed, InTransaction
  <2>2. /\ task.cp = cp[e] /\ task.state = "running" /\ Fits(e) /\ Made(e) /\ Tabled
        /\ CheckpointHolds
    BY <2>1, OwnRow
  <2>3. ASSUME cp[e].vector = "switching" PROVE origin # "none"
    BY <2>2, <2>3 DEF CheckpointHolds, Tabled, Holding, NoTable
  <2>4. CASE CreateStaging(e)
    <3>1. canonical = Holding(OldRows)
      BY <2>2, <2>4 DEF CreateStaging, Fits, Made, Tabled
    <3> QED
      BY <1>1, <2>1, <2>4, <3>1, OpeningKeeps DEF CreateStaging
  <2>5. CASE BuildIndexes(e)
    <3>1. canonical = Holding(NewRows)
      BY <2>2, <2>5 DEF BuildIndexes, Fits, CheckpointHolds
    <3> QED
      BY <1>1, <2>1, <2>5, <3>1, OpeningKeeps DEF BuildIndexes
  <2>6. CASE DropCanonical(e)
    <3>1. origin' # "none" /\ canonical' = NoTable
      BY <2>1, <2>2, <2>3, <2>6 DEF DropCanonical, Fits
    <3>2. content' = "partial"
      BY <3>1, ContentNext DEF NoTable, Holding
    <3> QED
      BY <2>1, <2>2, <3>2 DEF Exchange!Next, Exchange!Begin
  <2>7. CASE CreateCanonical(e) \/ AppendBatch(e)
    <3>1. origin' = origin /\ origin # "none"
      BY <2>1, <2>2, <2>3, <2>7 DEF CreateCanonical, AppendBatch, Fits
    <3>2. canonical.rows \subseteq NewRows /\ canonical'.rows \subseteq NewRows
      <4>1. CASE CreateCanonical(e)
        <5>1. canonical = NoTable /\ canonical' = Holding({})
          BY <2>2, <4>1, OpeningKeeps DEF CreateCanonical, Made
        <5>2. NoTable.rows = {} /\ Holding({}).rows = {}
          BY DEF NoTable, Holding
        <5>3. canonical.rows = {} /\ canonical'.rows = {}
          BY <5>1, <5>2
        <5> QED
          BY <5>3
      <4>2. CASE AppendBatch(e)
        <5>1. staging = Holding(NewRows)
          BY <2>2, <4>2 DEF AppendBatch, Fits, CheckpointHolds
        <5> QED
          BY <2>2, <4>2, <5>1 DEF AppendBatch, Made, Holding
      <4> QED
        BY <2>7, <4>1, <4>2
    <3>3. canonical' = Holding(NewRows) \/ canonical' # Holding(OldRows)
      BY <3>2, NewIsNotOld
    <3>4. canonical = Holding(NewRows) \/ canonical # Holding(OldRows)
      BY <3>2, NewIsNotOld
    <3>5. content \in {"partial", "new"} /\ content' \in {"partial", "new"}
      BY <3>1, <3>3, <3>4, ContentIs, ContentNext
    <3> QED
      BY <2>1, <2>2, <3>5 DEF Exchange!Next, Exchange!Begin, Exchange!Finish
  <2> QED
    BY <1>3, <2>4, <2>5, <2>6, <2>7
<1>4. ASSUME NEW e \in Executions, Complete(e)
      PROVE  Exchange!Next
  <2>1. Running(e) /\ Fenced(e) /\ pc[e] = "complete" /\ UNCHANGED <<origin, canonical>>
    BY <1>4 DEF Complete, Running, tables
  <2>2. task.cp.vector \in {"migrated", "unneeded"} /\ CheckpointHolds
    BY <2>1, OwnRow DEF Fits
  <2>3. content = "new"
    BY <2>2, ContentIs DEF CheckpointHolds
  <2>4. task'.state = "completed"
    BY <1>2, <1>4 DEF Complete, CompletedTask, TaskRows
  <2> QED
    BY <1>1, <2>1, <2>3, <2>4 DEF Exchange!Next, Exchange!Settle
<1>5. ASSUME NEW e \in Executions,
             \/ Claim(e) \/ Advance(e) \/ Fail(e) \/ Killed(e) \/ Stall(e),
             ~Complete(e), ~CreateStaging(e), ~DropCanonical(e), ~CreateCanonical(e),
             ~AppendBatch(e), ~BuildIndexes(e)
      PROVE  UNCHANGED <<content, task.state = "completed">>
  <2>1. UNCHANGED <<origin, canonical>>
    BY <1>5 DEF Advance, LoadCheckpoint, BeginBackfill, BackfillBatch, SealBackfill,
           Verify, EnterSync, SkipVectors, AdoptLegacy, DropStaging, RenewCopy,
           CopyThread, MarkStaged, MarkSwitching, CommitCutover, CommitIndexes,
           AnnounceCleanup, PurgeStaging, CommitCleanup, LoseLease, Refuse, Failing,
           Claim, Fail, Killed, Stall, tables
  <2>2. (task'.state = "completed") <=> (task.state = "completed")
    <3>1. CASE Claim(e)
      BY <1>2, <3>1 DEF Claim, Claimable, Claimed, TaskRows
    <3>2. CASE ~Claim(e)
      BY <1>2, <1>5, <3>2 DEF Advance, LoadCheckpoint, BeginBackfill, BackfillBatch,
             SealBackfill, Verify, EnterSync, SkipVectors, AdoptLegacy, DropStaging,
             RenewCopy, CopyThread, MarkStaged, MarkSwitching, CommitCutover,
             CommitIndexes, AnnounceCleanup, PurgeStaging, CommitCleanup, LoseLease,
             Refuse, Failing, Fail, Killed, Stall, Save, Renew, Renewed, Checkpointed,
             FailedTask, Fenced, Owns, TaskRows
    <3> QED
      BY <3>1, <3>2
  <2> QED
    BY <1>1, <2>1, <2>2
<1>6. CASE Expire \/ UNCHANGED vars
  <2>1. UNCHANGED <<origin, canonical>> /\ task'.state = task.state
    BY <1>2, <1>6 DEF Expire, vars, tables, TaskRows
  <2> QED
    BY <1>1, <2>1
<1> QED
  BY <1>3, <1>4, <1>5, <1>6 DEF Next

\* Readers of the vector table see an exchange that starts from the old rows,
\* never returns to them and is complete when the task says so, for any number
\* of rows, commands, errors, kills and takeovers.
THEOREM TaskIsAnExchange == ASSUME Punctual PROVE Spec => Exchanges
<1>1. Init => Exchange!Init
  BY ContentIs DEF Init, NewTask, Exchange!Init
<1> QED
  BY <1>1, DataInit, DataStep, ExchangeStep, PTL DEF Spec, Exchanges, Exchange!Spec

=============================================================================
