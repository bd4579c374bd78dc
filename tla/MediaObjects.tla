----------------------------- MODULE MediaObjects -----------------------------
(***************************************************************************)
(* Reference-counted media of memory-store: the media_object rows, the     *)
(* objects in storage behind them and the memories that refer to them.     *)
(*                                                                         *)
(* A row and its object live in two stores, so every operation is a series *)
(* of steps: a conditional UPDATE that claims a row, a storage call, and a *)
(* conditional UPDATE or DELETE that settles it.  Requests (upload,        *)
(* register, delete, changes of memories), the attachment migration and    *)
(* the deferred sweep interleave between the steps, and each may stop      *)
(* after any of them.                                                      *)
(*                                                                         *)
(* One managed backend (s3 or file) is modelled.  Temporary keys belong to *)
(* one upload each and are left out, as are url and inline rows, which own *)
(* no object in storage.                                                   *)
(***************************************************************************)
EXTENDS Integers, FiniteSets

CONSTANTS
    Shas,         \* contents: the sha256 of a body, UNIQUE among the rows
    Memories,     \* memories that may refer to media
    Requests,     \* request handlers of the server
    Migrators,    \* runs of migrate-attachment-to-media
    Sweepers,     \* runs of cleanup-orphan-media
    GraceCovers,  \* no operation takes longer than the grace period
    MaxRows,      \* bound on rows ever inserted for one content
    MaxFailures,  \* bound on storage calls that fail
    MaxStops,     \* bound on operations that end half-way
    MaxPuts,      \* bound on objects put by clients for Register
    None          \* no row, reference or key

ASSUME MediaAssumption ==
    /\ MaxRows \in Nat
    /\ MaxFailures \in Nat
    /\ MaxStops \in Nat
    /\ MaxPuts \in Nat
    /\ GraceCovers \in BOOLEAN
    /\ None \notin Memories
    /\ Requests \cap (Migrators \cup Sweepers) = {}
    /\ Migrators \cap Sweepers = {}

Workers == Requests \cup Migrators \cup Sweepers

Ids == 1 .. MaxRows

GcStates == {"active", "orphan", "deleted_failed", "unresolvable",
             "promoting", "deleting"}

\* The key derived from the sha256, and one a client chose for Register.
Keys == {"final", "external"}

\* A media_object row; the id is unique among the rows of its content.
MediaRows == [id: Ids, gc_state: GcStates, storage_uri: Keys \cup {None}, ref_count: Nat]

\* What memory.media_object_id holds.
References == [sha: Shas, id: Ids]

\* What stands for an absent thing is nothing else, and memories are finitely
\* many.
ASSUME ValuesAssumption ==
    /\ None \notin MediaRows
    /\ None \notin References
    /\ None \notin Keys
    /\ IsFiniteSet(Memories)

VARIABLES
    row,     \* the row of each content
    made,    \* how many rows were inserted for it
    object,  \* the keys that hold its bytes in storage
    link,    \* the media_object_id of each memory
    task,    \* what each worker has under way
    phase,   \* the class each sweep is working on
    todo,    \* the rows it listed and has not taken up
    page,    \* the memories a migration read without media; None before
    failures,
    stops,
    puts

vars == <<row, made, object, link, task, phase, todo, page, failures, stops, puts>>

-----------------------------------------------------------------------------
(* The next step of a worker and what it remembers: the row by sha and id, *)
(* a key read from a snapshot of the row, and for some steps the state or  *)
(* the count to write, the count it expects, and the memory to link.       *)

Steps == {"idle", "copy", "confirm", "claim", "recopy", "reread", "promote",
          "register", "register_promote", "claim_delete", "erase", "drop",
          "insert", "link", "reclaim", "drop_reservation", "recover",
          "revert_promoting", "revert_deleting", "reclaim_failed",
          "reconcile", "refetch"}

Tasks == [step: Steps, sha: Shas \cup {None}, id: Ids \cup {0},
          uri: Keys \cup {None}, gc_state: GcStates \cup {None},
          expected: Nat, actual: Nat, memory: Memories \cup {None}]

Idle == [step |-> "idle", sha |-> None, id |-> 0, uri |-> None, gc_state |-> None,
         expected |-> 0, actual |-> 0, memory |-> None]

\* A task on the row of s, with the row's storage_uri as it is now.
TaskOn(step, s) ==
    [Idle EXCEPT !.step = step, !.sha = s, !.id = row[s].id, !.uri = row[s].storage_uri]

Present(s, id) == row[s] # None /\ row[s].id = id

\* The row a task is about still exists.
Mine(w) == Present(task[w].sha, task[w].id)

MyRow(w) == row[task[w].sha]

At(w, step) == task[w].step = step

Goto(w, step) == task' = [task EXCEPT ![w].step = step]

Finish(w) == task' = [task EXCEPT ![w] = Idle]

SetRow(w, r) == row' = [row EXCEPT ![task[w].sha] = r]

Referring(s, id) == {m \in Memories : link[m] = [sha |-> s, id |-> id]}

Actual(s) == Cardinality(Referring(s, row[s].id))

\* gc_state of a body that becomes available: the count decides.
Settled(count) == IF count > 0 THEN "active" ELSE "orphan"

\* Mutant: the id of the row before is given out again.
FreshRowOldId(s, gc, uri) ==
    [id |-> made[s], gc_state |-> gc, storage_uri |-> uri, ref_count |-> 0]

FreshRow(s, gc, uri) ==
    [id |-> made[s] + 1, gc_state |-> gc, storage_uri |-> uri, ref_count |-> 0]

Insert(s, r) ==
    /\ made[s] < MaxRows
    /\ row' = [row EXCEPT ![s] = r]
    /\ made' = [made EXCEPT ![s] = @ + 1]

Init ==
    /\ row = [s \in Shas |-> None]
    /\ made = [s \in Shas |-> 0]
    /\ object = [s \in Shas |-> {}]
    /\ link = [m \in Memories |-> None]
    /\ task = [w \in Workers |-> Idle]
    /\ phase = [g \in Sweepers |-> "desync"]
    /\ todo = [g \in Sweepers |-> {}]
    /\ page = [w \in Migrators |-> None]
    /\ failures = 0
    /\ stops = 0
    /\ puts = 0

-----------------------------------------------------------------------------
(* Upload, after its temporary object is written and hashed. *)

\* Insert the reservation, or on conflict take the branch of the row found.
\* A confirmed row is a dedup hit and a reservation, promotion or deletion in
\* progress is answered with ABORTED; both change nothing.
Upload(w, s) ==
    /\ At(w, "idle")
    /\ \/ /\ row[s] = None
          /\ Insert(s, FreshRow(s, "orphan", None))
          /\ task' = [task EXCEPT ![w] = [Idle EXCEPT !.step = "copy", !.sha = s,
                                                      !.id = made[s] + 1]]
       \/ /\ row[s] # None
          /\ row[s].gc_state \in {"deleted_failed", "unresolvable"}
          /\ task' = [task EXCEPT ![w] = TaskOn("claim", s)]
          /\ UNCHANGED <<row, made>>
    /\ UNCHANGED <<object, link, phase, todo, failures, stops, puts, page>>

\* Copy the temporary object to the final key.
CopyFinal(w, after) ==
    /\ object' = [object EXCEPT ![task[w].sha] = @ \cup {"final"}]
    /\ Goto(w, after)
    /\ UNCHANGED <<row, made, link, phase, todo, failures, stops, puts, page>>

CopyFresh(w) == At(w, "copy") /\ CopyFinal(w, "confirm")

\* DELETE_IF_UNREFERENCED, by id.
Deletable(w) ==
    /\ Mine(w)
    /\ MyRow(w).ref_count = 0
    /\ MyRow(w).gc_state \in {"active", "orphan", "deleting"}

\* The copy fails, having written the object or not: the reservation is rolled
\* back.  (A copy that fails in a promotion ends the request: Stops.)
CopyFails(w) ==
    /\ At(w, "copy")
    /\ failures < MaxFailures
    /\ failures' = failures + 1
    /\ \/ UNCHANGED object
       \/ object' = [object EXCEPT ![task[w].sha] = @ \cup {"final"}]
    /\ IF Deletable(w) THEN SetRow(w, None) ELSE UNCHANGED row
    /\ Finish(w)
    /\ UNCHANGED <<made, link, phase, todo, stops, puts, page>>

\* UPDATE_CONFIRM_RESERVATION leaves gc_state and ref_count as they are.
Confirm(w) ==
    /\ At(w, "confirm")
    /\ IF Mine(w) /\ MyRow(w).gc_state = "orphan" /\ MyRow(w).storage_uri = None
       THEN SetRow(w, [MyRow(w) EXCEPT !.storage_uri = "final"])
       ELSE UNCHANGED row
    /\ Finish(w)
    /\ UNCHANGED <<made, object, link, phase, todo, failures, stops, puts, page>>

Promotable(w) ==
    Mine(w) /\ MyRow(w).gc_state \in {"deleted_failed", "unresolvable"}

\* UPDATE_CLAIM_PROMOTE.
ClaimPromote(w) ==
    /\ At(w, "claim")
    /\ Promotable(w)
    /\ SetRow(w, [MyRow(w) EXCEPT !.gc_state = "promoting"])
    /\ Goto(w, "recopy")
    /\ UNCHANGED <<made, object, link, phase, todo, failures, stops, puts, page>>

\* The claim was lost: the row read again is no longer to be promoted.  (If
\* it is promotable again, the claim is simply tried again.)
LoseClaim(w) ==
    /\ At(w, "claim")
    /\ ~Promotable(w)
    /\ Finish(w)
    /\ UNCHANGED <<row, made, object, link, phase, todo, failures, stops, puts, page>>

CopyPromoted(w) == At(w, "recopy") /\ CopyFinal(w, "reread")

\* The row is read after the copy, outside the transaction that confirms.
Reread(w) ==
    /\ At(w, "reread")
    /\ IF Mine(w)
       THEN task' = [task EXCEPT ![w].step = "promote",
                                 ![w].gc_state = Settled(MyRow(w).ref_count)]
       ELSE Finish(w)
    /\ UNCHANGED <<row, made, object, link, phase, todo, failures, stops, puts, page>>

\* UPDATE_PROMOTE.
Promote(w) ==
    /\ At(w, "promote")
    /\ IF Mine(w) /\ MyRow(w).gc_state = "promoting"
       THEN SetRow(w, [MyRow(w) EXCEPT !.storage_uri = "final",
                                       !.gc_state = task[w].gc_state])
       ELSE UNCHANGED row
    /\ Finish(w)
    /\ UNCHANGED <<made, object, link, phase, todo, failures, stops, puts, page>>

-----------------------------------------------------------------------------
(* Register: the object was put by the client. *)

\* A client puts the bytes under a key of its own.
ClientPut(s) ==
    /\ puts < MaxPuts
    /\ puts' = puts + 1
    /\ object' = [object EXCEPT ![s] = @ \cup {"external"}]
    /\ UNCHANGED <<row, made, link, task, phase, todo, failures, stops, page>>

\* The HEAD request finds the object.
Head(w, s) ==
    /\ At(w, "idle")
    /\ "external" \in object[s]
    /\ task' = [task EXCEPT ![w] = [Idle EXCEPT !.step = "register", !.sha = s]]
    /\ UNCHANGED <<row, made, object, link, phase, todo, failures, stops, puts, page>>

\* Insert a row confirmed in the same transaction, or read the one that is
\* there: only a row without usable bytes is promoted, in a second statement.
Register(w) ==
    LET s == task[w].sha IN
    /\ At(w, "register")
    /\ \/ /\ row[s] = None
          /\ Insert(s, FreshRow(s, "orphan", "external"))
          /\ Finish(w)
       \/ /\ row[s] # None
          /\ row[s].gc_state \in {"deleted_failed", "unresolvable"}
          /\ task' = [task EXCEPT ![w].step = "register_promote", ![w].id = row[s].id,
                                  ![w].gc_state = Settled(row[s].ref_count)]
          /\ UNCHANGED <<row, made>>
       \/ /\ row[s] # None
          /\ row[s].gc_state \notin {"deleted_failed", "unresolvable"}
          /\ Finish(w)
          /\ UNCHANGED <<row, made>>
    /\ UNCHANGED <<object, link, phase, todo, failures, stops, puts, page>>

\* UPDATE_REGISTER_PROMOTE.
RegisterPromote(w) ==
    /\ At(w, "register_promote")
    /\ IF Promotable(w)
       THEN SetRow(w, [MyRow(w) EXCEPT !.storage_uri = "external",
                                       !.gc_state = task[w].gc_state])
       ELSE UNCHANGED row
    /\ Finish(w)
    /\ UNCHANGED <<made, object, link, phase, todo, failures, stops, puts, page>>

-----------------------------------------------------------------------------
(* Memories gain, lose and change their reference. *)

\* Mutant: a row that is being deleted may be referred to.
ReferableDeleting(r) == r.gc_state # "deleted_failed"

\* REFCOUNT_INCR.
Referable(r) == r.gc_state \notin {"deleted_failed", "deleting"}

Incr(r) ==
    [r EXCEPT !.ref_count = @ + 1,
              !.gc_state = IF @ = "orphan" /\ r.storage_uri # None THEN "active" ELSE @]

\* REFCOUNT_DECR, then the claim when the count reached zero.
LastReference(r) == r.ref_count = 1 /\ r.gc_state \in {"active", "orphan"}

Decr(r) ==
    [r EXCEPT !.ref_count = @ - 1,
              !.gc_state = IF LastReference(r) THEN "deleting" ELSE @]

\* Create a memory with media, or give one its first media.
Attach(m, s) ==
    /\ link[m] = None
    /\ row[s] # None
    /\ Referable(row[s])
    /\ row' = [row EXCEPT ![s] = Incr(@)]
    /\ link' = [link EXCEPT ![m] = [sha |-> s, id |-> row[s].id]]
    /\ UNCHANGED <<made, object, task, phase, todo, failures, stops, puts, page>>

\* The handler that drops the last reference goes on to delete the object
\* once its transaction is committed.
DutyAfter(w, a) ==
    IF Present(a.sha, a.id) /\ LastReference(row[a.sha])
    THEN task' = [task EXCEPT ![w] = TaskOn("erase", a.sha)]
    ELSE UNCHANGED task

\* A row already at zero is an error that rolls the transaction back; a row
\* that is gone is not.
Droppable(a) == Present(a.sha, a.id) => row[a.sha].ref_count > 0

\* Delete a memory (alone or with its thread), or take its media away.
Detach(w, m) ==
    LET a == link[m] IN
    /\ At(w, "idle")
    /\ a # None
    /\ Droppable(a)
    /\ IF Present(a.sha, a.id) THEN row' = [row EXCEPT ![a.sha] = Decr(@)]
                               ELSE UNCHANGED row
    /\ DutyAfter(w, a)
    /\ link' = [link EXCEPT ![m] = None]
    /\ UNCHANGED <<made, object, phase, todo, failures, stops, puts, page>>

\* The rows once the reference a is given up for one to the row of s.
Exchanged(a, s) ==
    [x \in Shas |-> IF x = s THEN Incr(row[x])
                    ELSE IF x = a.sha /\ Present(a.sha, a.id) THEN Decr(row[x])
                    ELSE row[x]]

\* Exchange the media of a memory in one transaction.
Swap(w, m, s) ==
    LET a == link[m] IN
    /\ At(w, "idle")
    /\ a # None
    /\ row[s] # None
    /\ a # [sha |-> s, id |-> row[s].id]
    /\ Droppable(a)
    /\ Referable(row[s])
    /\ row' = Exchanged(a, s)
    /\ DutyAfter(w, a)
    /\ link' = [link EXCEPT ![m] = [sha |-> s, id |-> row[s].id]]
    /\ UNCHANGED <<made, object, phase, todo, failures, stops, puts, page>>

-----------------------------------------------------------------------------
(* migrate-attachment-to-media. *)

\* A page of memories is read; those without media are converted one by one,
\* as they were read.
MigrateScan(w) ==
    /\ page[w] = None
    /\ page' = [page EXCEPT ![w] = {m \in Memories : link[m] = None}]
    /\ UNCHANGED <<row, made, object, link, task, phase, todo, failures, stops, puts>>

MigrateMemory(w, m) ==
    /\ At(w, "idle")
    /\ page[w] # None
    /\ m \in page[w]
    /\ task' = [task EXCEPT ![w] = [Idle EXCEPT !.step = "insert", !.memory = m]]
    /\ page' = [page EXCEPT ![w] = @ \ {m}]
    /\ UNCHANGED <<row, made, object, link, phase, todo, failures, stops, puts>>

\* An elided attachment gets an unresolvable row, or the row its content has.
MigrateInsert(w, s) ==
    /\ At(w, "insert")
    /\ \/ /\ row[s] = None
          /\ Insert(s, FreshRow(s, "unresolvable", None))
          /\ task' = [task EXCEPT ![w].step = "link", ![w].sha = s, ![w].id = made[s] + 1]
       \/ /\ row[s] # None
          /\ task' = [task EXCEPT ![w].step = "link", ![w].sha = s, ![w].id = row[s].id]
          /\ UNCHANGED <<row, made>>
    /\ UNCHANGED <<object, link, phase, todo, failures, stops, puts, page>>

\* The memory is written as it was read, plus the reference; a row that may
\* not be referred to ends the run.
MigrateLink(w) ==
    /\ At(w, "link")
    /\ IF Mine(w) /\ Referable(MyRow(w))
       THEN /\ SetRow(w, Incr(MyRow(w)))
            /\ link' = [link EXCEPT ![task[w].memory] =
                            [sha |-> task[w].sha, id |-> task[w].id]]
            /\ UNCHANGED page
       ELSE /\ page' = [page EXCEPT ![w] = {}]
            /\ UNCHANGED <<row, link>>
    /\ Finish(w)
    /\ UNCHANGED <<made, object, phase, todo, failures, stops, puts>>

-----------------------------------------------------------------------------
(* Deletion: claim the row, delete the object, delete the row. *)

\* The Delete request reads the row before it claims it.
Delete(w, s) ==
    /\ At(w, "idle")
    /\ row[s] # None
    /\ row[s].ref_count = 0
    /\ row[s].gc_state \notin {"unresolvable", "promoting"}
    /\ task' = [task EXCEPT ![w] = TaskOn("claim_delete", s)]
    /\ UNCHANGED <<row, made, object, link, phase, todo, failures, stops, puts, page>>

\* Take the duty to delete an unreferenced row that is in one of the states.
Claim(w, step, states) ==
    /\ At(w, step)
    /\ IF Mine(w) /\ MyRow(w).ref_count = 0 /\ MyRow(w).gc_state \in states
       THEN /\ SetRow(w, [MyRow(w) EXCEPT !.gc_state = "deleting"])
            /\ Goto(w, "erase")
       ELSE /\ Finish(w)
            /\ UNCHANGED row
    /\ UNCHANGED <<made, object, link, phase, todo, failures, stops, puts, page>>

\* UPDATE_CLAIM_DELETING.
ClaimDelete(w) == Claim(w, "claim_delete", {"active", "orphan"})

\* finish_delete: the key is the one in the snapshot of the row.
Erase(w) ==
    /\ At(w, "erase")
    /\ object' = [object EXCEPT ![task[w].sha] = @ \ {task[w].uri}]
    /\ Goto(w, "drop")
    /\ UNCHANGED <<row, made, link, phase, todo, failures, stops, puts, page>>

\* UPDATE_MARK_DELETE_FAILED.
MarkDeleteFailed(w) ==
    IF Mine(w) /\ MyRow(w).gc_state = "deleting"
    THEN SetRow(w, [MyRow(w) EXCEPT !.gc_state = "deleted_failed"])
    ELSE UNCHANGED row

\* The storage call fails, having deleted the object or not.
EraseFails(w) ==
    /\ At(w, "erase")
    /\ task[w].uri # None
    /\ failures < MaxFailures
    /\ failures' = failures + 1
    /\ \/ UNCHANGED object
       \/ object' = [object EXCEPT ![task[w].sha] = @ \ {task[w].uri}]
    /\ MarkDeleteFailed(w)
    /\ Finish(w)
    /\ UNCHANGED <<made, link, phase, todo, stops, puts, page>>

Drop(w) ==
    /\ At(w, "drop")
    /\ IF Deletable(w) THEN SetRow(w, None) ELSE MarkDeleteFailed(w)
    /\ Finish(w)
    /\ UNCHANGED <<made, object, link, phase, todo, failures, stops, puts, page>>

-----------------------------------------------------------------------------
(* cleanup-orphan-media: one class of rows after the other.                *)

Phases == {"orphans", "reservations", "promoting", "deleting", "failed", "desync"}

NextPhase ==
    [orphans |-> "reservations", reservations |-> "promoting", promoting |-> "deleting",
     deleting |-> "failed", failed |-> "desync", desync |-> "orphans"]

FirstStep ==
    [orphans |-> "claim_delete", reservations |-> "reclaim", promoting |-> "recover",
     deleting |-> "revert_deleting", failed |-> "reclaim_failed", desync |-> "reconcile"]

\* SELECT_ORPHAN_RESERVATION.
Unconfirmed(r) ==
    r.gc_state = "orphan" /\ r.storage_uri = None /\ r.ref_count = 0

\* The WHERE clause of each scan, without its age condition.
InClass(p, r, actual) ==
    CASE p = "orphans" -> r.gc_state = "orphan" /\ r.storage_uri # None
      [] p = "reservations" -> Unconfirmed(r)
      [] p = "promoting" -> r.gc_state = "promoting" /\ r.storage_uri = None
      [] p = "deleting" -> r.gc_state = "deleting" /\ r.storage_uri # None
      [] p = "failed" -> r.gc_state = "deleted_failed" /\ r.storage_uri # None
      [] p = "desync" -> /\ r.storage_uri # None
                         /\ r.ref_count # actual
                         /\ r.gc_state \in {"active", "orphan"}

Listed(p) == {s \in Shas : row[s] # None /\ InClass(p, row[s], Actual(s))}

\* A worker that holds the row of s: it inserted the reservation, or claimed
\* the promotion or the deletion, and is still at it.
Duties == {"copy", "confirm", "recopy", "reread", "promote", "erase", "drop"}

Held(s) ==
    \E w \in Workers : task[w].step \in Duties /\ task[w].sha = s /\ Mine(w)

\* The rows of the class that are older than the grace period.
StaleChoices(p) ==
    IF p \in {"failed", "desync"}
    THEN {Listed(p)}
    ELSE SUBSET {s \in Listed(p) : GraceCovers => ~Held(s)}

SweepTask(p, s) ==
    [TaskOn(FirstStep[p], s) EXCEPT
        !.expected = IF p = "desync" THEN row[s].ref_count ELSE 0,
        !.actual = IF p = "desync" THEN Actual(s) ELSE 0]

SweepList(g, stale) ==
    LET p == NextPhase[phase[g]] IN
    /\ At(g, "idle")
    /\ todo[g] = {}
    /\ stale \in StaleChoices(p)
    /\ phase' = [phase EXCEPT ![g] = p]
    /\ todo' = [todo EXCEPT ![g] = {SweepTask(p, s) : s \in stale}]
    /\ UNCHANGED <<row, made, object, link, task, failures, stops, puts, page>>

SweepRow(g, t) ==
    /\ At(g, "idle")
    /\ t \in todo[g]
    /\ task' = [task EXCEPT ![g] = t]
    /\ todo' = [todo EXCEPT ![g] = @ \ {t}]
    /\ UNCHANGED <<row, made, object, link, phase, failures, stops, puts, page>>

\* Delete what a crashed copy may have left at the final key; a failure is
\* only logged.
DeleteFinal(w, after) ==
    /\ \/ /\ object' = [object EXCEPT ![task[w].sha] = @ \ {"final"}]
          /\ UNCHANGED failures
       \/ /\ failures < MaxFailures
          /\ failures' = failures + 1
          /\ UNCHANGED object
    /\ Goto(w, after)
    /\ UNCHANGED <<row, made, link, phase, todo, stops, puts, page>>

ReclaimReservation(g) == At(g, "reclaim") /\ DeleteFinal(g, "drop_reservation")

DropReservation(g) ==
    /\ At(g, "drop_reservation")
    /\ IF Deletable(g) THEN SetRow(g, None) ELSE UNCHANGED row
    /\ Finish(g)
    /\ UNCHANGED <<made, object, link, phase, todo, failures, stops, puts, page>>

RecoverPromoting(g) == At(g, "recover") /\ DeleteFinal(g, "revert_promoting")

\* Move a row from one state to another if it is still there.
Revert(g, step, from, to) ==
    /\ At(g, step)
    /\ IF Mine(g) /\ MyRow(g).gc_state = from
       THEN SetRow(g, [MyRow(g) EXCEPT !.gc_state = to])
       ELSE UNCHANGED row
    /\ Finish(g)
    /\ UNCHANGED <<made, object, link, phase, todo, failures, stops, puts, page>>

\* UPDATE_REVERT_PROMOTING.
RevertPromoting(g) == Revert(g, "revert_promoting", "promoting", "unresolvable")

\* Mutant: the condition of the statement above is kept.
RevertDeletingIfPromoting(g) == Revert(g, "revert_deleting", "promoting", "orphan")

\* UPDATE_REVERT_DELETING.
RevertDeleting(g) == Revert(g, "revert_deleting", "deleting", "orphan")

\* Mutant: a row another worker is deleting is reclaimed too.
ReclaimFailedOrDeleting(g) == Claim(g, "reclaim_failed", {"deleted_failed", "deleting"})

\* UPDATE_RECLAIM_DELETED_FAILED, then finish_delete with the listed row.
ReclaimFailed(g) == Claim(g, "reclaim_failed", {"deleted_failed"})

\* Mutant: the count is written whatever it has become since the scan.
ReconcileAnyway(g) ==
    /\ At(g, "reconcile")
    /\ IF Mine(g) /\ MyRow(g).gc_state \in {"active", "orphan"}
       THEN /\ SetRow(g, [MyRow(g) EXCEPT !.ref_count = task[g].actual])
            /\ IF task[g].actual = 0 THEN Goto(g, "refetch") ELSE Finish(g)
       ELSE /\ Finish(g)
            /\ UNCHANGED row
    /\ UNCHANGED <<made, object, link, phase, todo, failures, stops, puts, page>>

\* UPDATE_RECONCILE_REF_COUNT.
Reconcile(g) ==
    /\ At(g, "reconcile")
    /\ IF /\ Mine(g)
          /\ MyRow(g).ref_count = task[g].expected
          /\ MyRow(g).gc_state \in {"active", "orphan"}
       THEN /\ SetRow(g, [MyRow(g) EXCEPT !.ref_count = task[g].actual])
            /\ IF task[g].actual = 0 THEN Goto(g, "refetch") ELSE Finish(g)
       ELSE /\ Finish(g)
            /\ UNCHANGED row
    /\ UNCHANGED <<made, object, link, phase, todo, failures, stops, puts, page>>

Refetch(g) ==
    /\ At(g, "refetch")
    /\ IF Mine(g) THEN task' = [task EXCEPT ![g] = TaskOn("claim_delete", task[g].sha)]
                  ELSE Finish(g)
    /\ UNCHANGED <<row, made, object, link, phase, todo, failures, stops, puts, page>>

-----------------------------------------------------------------------------
\* A statement or a storage call fails, the client goes away or the process
\* dies: the operation ends where it is.
Stops(w) ==
    /\ ~At(w, "idle")
    /\ stops < MaxStops
    /\ stops' = stops + 1
    /\ Finish(w)
    /\ UNCHANGED <<row, made, object, link, phase, todo, failures, puts, page>>

\* A sweep logs an error of a deletion and goes on with its next row.
SweepSkips(g) ==
    /\ task[g].step \in {"claim_delete", "erase", "drop"}
    /\ Stops(g)

\* An error or a crash ends a migration run.
MigrateStops(w) ==
    /\ ~At(w, "idle")
    /\ stops < MaxStops
    /\ stops' = stops + 1
    /\ Finish(w)
    /\ page' = [page EXCEPT ![w] = {}]
    /\ UNCHANGED <<row, made, object, link, phase, todo, failures, puts>>

\* A sweep ends early; the next one starts with the first class.
SweepStops(g) ==
    /\ ~At(g, "idle") \/ todo[g] # {}
    /\ stops < MaxStops
    /\ stops' = stops + 1
    /\ Finish(g)
    /\ phase' = [phase EXCEPT ![g] = "desync"]
    /\ todo' = [todo EXCEPT ![g] = {}]
    /\ UNCHANGED <<row, made, object, link, failures, puts, page>>

UploadStep(w) ==
    \/ CopyFresh(w) \/ Confirm(w) \/ ClaimPromote(w) \/ LoseClaim(w)
    \/ CopyPromoted(w) \/ Reread(w) \/ Promote(w)

DeleteStep(w) == ClaimDelete(w) \/ Erase(w) \/ EraseFails(w) \/ Drop(w)

SweepStep(g) ==
    \/ \E t \in todo[g] : SweepRow(g, t)
    \/ ReclaimReservation(g) \/ DropReservation(g)
    \/ RecoverPromoting(g) \/ RevertPromoting(g) \/ RevertDeleting(g)
    \/ ReclaimFailed(g) \/ Reconcile(g) \/ Refetch(g)

Next ==
    \/ \E w \in Requests, s \in Shas : Upload(w, s) \/ Head(w, s) \/ Delete(w, s)
    \/ \E w \in Requests : UploadStep(w) \/ CopyFails(w) \/ Register(w) \/ RegisterPromote(w)
    \/ \E s \in Shas : ClientPut(s)
    \/ \E m \in Memories, s \in Shas : Attach(m, s)
    \/ \E w \in Requests, m \in Memories : Detach(w, m)
    \/ \E w \in Requests, m \in Memories, s \in Shas : Swap(w, m, s)
    \/ \E w \in Migrators : MigrateScan(w) \/ MigrateLink(w) \/ MigrateStops(w)
    \/ \E w \in Migrators, m \in Memories : MigrateMemory(w, m)
    \/ \E w \in Migrators, s \in Shas : MigrateInsert(w, s)
    \/ \E w \in Requests \cup Sweepers : DeleteStep(w)
    \/ \E g \in Sweepers : \E stale \in SUBSET Shas : SweepList(g, stale)
    \/ \E g \in Sweepers : SweepStep(g) \/ SweepSkips(g) \/ SweepStops(g)
    \/ \E w \in Requests : Stops(w)

Spec == Init /\ [][Next]_vars

\* A pass over class p that finds every row of it old enough.
SweepAll(g, p) ==
    /\ NextPhase[phase[g]] = p
    /\ \E stale \in SUBSET Shas :
        /\ \A other \in StaleChoices(p) : other \subseteq stale
        /\ SweepList(g, stale)

\* Handlers go on once they have started, and the sweep is run over and over;
\* time passes, so no row stays younger than the grace period.
Fairness ==
    /\ \A w \in Requests : WF_vars(UploadStep(w) \/ Register(w) \/ RegisterPromote(w)
                                   \/ DeleteStep(w))
    /\ \A g \in Sweepers : WF_vars(SweepStep(g) \/ DeleteStep(g))
    /\ \A g \in Sweepers, p \in Phases : SF_vars(SweepAll(g, p))

FairSpec == Spec /\ Fairness

-----------------------------------------------------------------------------
(* Properties. *)

TypeOK ==
    /\ row \in [Shas -> MediaRows \cup {None}]
    /\ made \in [Shas -> 0 .. MaxRows]
    /\ object \in [Shas -> SUBSET Keys]
    /\ link \in [Memories -> References \cup {None}]
    /\ task \in [Workers -> Tasks]
    /\ phase \in [Sweepers -> Phases]
    /\ todo \in [Sweepers -> SUBSET Tasks]
    /\ page \in [Migrators -> (SUBSET Memories) \cup {None}]
    /\ failures \in 0 .. MaxFailures
    /\ stops \in 0 .. MaxStops
    /\ puts \in 0 .. MaxPuts

\* "A memory could end up pointing at media whose bytes are gone": a row that
\* a memory refers to exists, is not given up for deletion, and if it is
\* served (Resolve hands out a URL for it) its key holds the bytes.
BytesBehindReferences ==
    \A m \in Memories : LET a == link[m] IN a # None =>
        /\ Present(a.sha, a.id)
        /\ Referable(row[a.sha])
        /\ (row[a.sha].storage_uri # None /\ row[a.sha].gc_state \in {"active", "orphan"}) =>
                row[a.sha].storage_uri \in object[a.sha]

\* While finish_delete deletes an object and then its row, the deletion is
\* still its own: nobody refers to the row again, reverts the claim, or takes
\* the row away ("a re-reference cannot race the delete").
DutyHeld ==
    \A w \in Workers : task[w].step \in {"erase", "drop"} /\ task[w].uri # None =>
        /\ Mine(w)
        /\ MyRow(w).gc_state = "deleting"
        /\ MyRow(w).ref_count = 0

\* ref_count never falls short of the memories that refer to the row, so that
\* a count of zero may be taken for "unreferenced".
CountCovers == \A s \in Shas : row[s] # None => row[s].ref_count >= Actual(s)

\* The sweep deletes an object at its derived key only for rows without a
\* storage_uri ("a confirmed row is never routed through the sha256->final
\* recompute path reserved for unconfirmed reservations").
ConfirmedKeepsFinal ==
    \A g \in Sweepers : task[g].step \in {"reclaim", "recover"} =>
        ~(Mine(g) /\ MyRow(g).storage_uri # None)

\* What a deletion or a sweep removes from the storage is its to remove, from
\* its claim to the last step, however many others work on the row.
RemovalsOwned == DutyHeld /\ ConfirmedKeepsFinal

\* A confirmed row without references that a deletion or the deferred sweep is
\* in charge of does not stay: it is deleted, referred to again, or recovered.
Discarded(s, id) ==
    /\ Present(s, id)
    /\ row[s].storage_uri # None
    /\ row[s].ref_count = 0
    /\ row[s].gc_state \in {"orphan", "deleting", "deleted_failed"}

DiscardedAreReclaimed ==
    \A s \in Shas, id \in Ids : Discarded(s, id) ~> ~Discarded(s, id)

=============================================================================
