# A TLA+ verification of memory-store

memory-store keeps the conversations of LLM applications in a relational
database (RDB: SQLite by default, PostgreSQL as a build option), their
embeddings in LanceDB tables, and lets an external job system (jobworkerp)
compute those embeddings. The RDB is the source of truth. Everything derived
from it (vector rows, index entries, backups of the vector stores, blobs of
media objects) is written in separate steps with no transaction around them, by
processes that may stop at any point. That is what this project is about.

Run a check with `tlc -workers 2 -config <run>.cfg <module>` and a proof with
`tlapm <module>.tla`. `PROJECT.json` lists the runs, maps every definition to
the source lines it stands for, and lists the hazards the properties are for.

## Inventory

| Component | State | Operations | What is hard | What makes it correct | Module |
|---|---|---|---|---|---|
| Embedding write protocol (`infra/embedding_index`, `app/memory_vector.rs`, `app/thread_vector.rs`) | vector rows, index entries | success callback, failure callback, vector cascade of a delete | callbacks are concurrent and may be late, repeated or lost; rows and entry are separate commits | a target called complete has the rows of its current input; nothing of another space or attempt lands | `EmbeddingIndex` |
| Reconciliation and rebuild (`app/embedding_reconcile.rs`, `embedding_index/scan.rs`) | a running task, its page | scan, dispatch, orphan removal | acts on three reads made at different moments | every target comes to rest | `EmbeddingIndex` |
| Dispatch (`memory_vector/dispatcher.rs`, `embedding_space/token.rs`) | tokens in the job queue | issue a token | best effort, the job may be lost | a token identifies space, attempt and input | `EmbeddingIndex` |
| Embedding space migration (`memories_db_migrate embedding ...`) and startup (`embedding_space/startup.rs`, `bootstrap.rs`) | attempt record, a marker per table, the backup, the tables | switch, resume, abandon, finalize, restore; server start | a crash between any two writes; a server starting in the middle | the source rows survive, a server serves whole sets of tables, no attempt gets stuck | `EmbeddingMigration` |
| Media objects and GC (`media_object/rdb.rs`, `app/media.rs`, `app/memory.rs`, `cleanup_orphan_media.rs`, `migrate_attachment_to_media.rs`) | rows with a reference count and `gc_state`, objects in storage, references of memories | upload, register, delete, change a reference, migrate, sweep | row and object are in two stores; any handler may stop between them; the sweep races handlers | a referenced row has its bytes, a deletion is never overtaken, a discarded row is reclaimed | `MediaObjects` |
| Data-migration tasks (`db_migrate/state.rs`, `thread_message_times_v1.rs`) | task rows with state, fencing token, lease and checkpoint; the RDB's times; the vector table and its staging copy | claim, renew, checkpoint, complete; back-fill, stage, cut over, index, clean up | a slow holder outlives its lease; a crash in the middle of replacing a table | only the holder changes data, the checkpoint is true and never goes back, no row is lost | `TaskLease`, `ThreadTimes` |
| Local SQLite migration (`db_migrate/local`) | database, WAL and resource, stashes, journal, attempt record, backups | apply, restore | a crash in the middle of a swap of several files | what a server opens belongs together, and nothing but a whole backup or the original comes out of a restore | `LocalMigration` |
| Search-index maintenance (`search_index_maintenance.rs`) | running tasks, the permit, the records of outcomes, the reconciliation's flag and cursor | request, run, record, reconcile | decisions taken before an await; a handler dropped where it waits | one change at a time; the permit always comes back; indexes are kept up | `SearchMaintenance` |
| Thread groups (`app/thread_group`) | evidence and its associations, relations, memberships, groups and redirects, deletion markers | import, late reconciliation, the operator's decisions, merge, split, attach, purge, delete | evidence in any order; transactions that trust what an earlier one read | relations form a forest, every member is in an active group, the operator's word stands | `ThreadGroups` |
| Conversation importer (`agent-chat-import`: `importer.rs`, `client.rs`, `plain.rs`, `prune.rs`) | nothing that survives a run; on the server the thread of a session, its memories, parents, labels, observations, the deletion marker | read a source, send batches, rewire parents, record observations, label, prune | many RPCs per session with anything in between; retries; overlapping and stopped runs | success means the session is whole, a forbidden re-import never happens, repeated runs complete what was left | `Importer` |
| Threads, memories, ratings, reflection, search, gRPC | rows of single RDB transactions, caches | CRUD and queries | little beyond the database's own isolation | | only what changes an embedding target (`EmbeddingIndex`) or a thread's home (`ThreadGroups`) |

How they interact: an edit commits to the RDB and then *dispatches* a job with
a token; the worker calls back; the callback compares the token with the RDB
and the process-wide space and attempt, and then writes index and rows. The
reconciliation compares RDB, rows and entries, and dispatches what is missing.
The migration commands replace the tables underneath all of this while no
writer runs; the server that starts afterwards learns from the tables' markers
which attempt it serves, and that attempt becomes part of every token. The data
migrations run in the same maintenance windows, from the same command-line
program. Groups are computed by the transactions of imports and of the
operator; they share rows with threads and their deletion, and nothing with the
vector stores. The importer is a client of the thread service: its batches create
threads and memories, its observations are the evidence groups are made of, and
the deletion marker a policy delete leaves decides whether it may come back.

## `EmbeddingIndex`: the write protocol

State: `source` (the version of the input the RDB prescribes for each target,
`NotTarget` or `Deleted`), `rows` (the origin of each chunk row), `entry` (the
index entry), the process's `space`, `attempt` and `legacy` flags (set at
startup), `job`/`answered` (the external queue), `pc`/`seen` (each callback's
position and what it has read), `wiping` (the cascade of a delete), `scan` (the
reconciliation task). Every action is one RDB transaction, one LanceDB commit
or one read, so any two handlers interleave wherever the code awaits.

* Success callback: `Guard`/`Reject` (read the source version and check the
  token), `BeforeRows` (drop the entry), `DeleteRows`, `InsertRows`,
  `AfterRows`; `ClearEntry` is the variant without records. Requests without a
  token have three shapes (`rows` of several kinds, `clear`, the older `items`).
* Failure callback: `FailureCheck` ... `FailureRecord`, seven steps.
* Edits: with a dispatch, without one, detaching an image, deleting.
* Reconciliation: `ScanPage`, `ScanRows`, `ScanEntries`, then one item at a time.
* Faults, bounded by `MaxFaults`: lost and repeated jobs, failing storage
  calls, a failing cascade, a failing scan, a restart.
* Space: `SwitchSpace` and `FinalizeSwitch` are the migration seen from here,
  where it is atomic; `EmbeddingMigration` models its steps.

`tainted` is a history variable: it marks a target on which writers of
*different* inputs overlapped. The code accepts that such a target may be called
complete over old rows and offers the forced rebuild as the remedy
(`embedding_reconcile.rs:36`), so `CompleteIsTruthful` excludes those targets
and nothing else. A lone later writer clears the mark.

Data abstraction: a source version stands for the digest of an input, and
`ChunkCount` gives the chunks the runner yields for it; vectors, texts and
models are left out. An input of zero chunks is allowed by the assumptions and
by the proofs; such a target is dispatched again by every reconciliation (a
listed hazard), so the liveness run gives every input at least one chunk.

### Runs

| Run | Bounds | Result |
|---|---|---|
| `settle` | 1 target, 2 jobs, versions of one and two chunks, 2 spaces, 2 edits of which one may be a switch, 1 fault, with fairness | `TypeOK`, `CompleteIsTruthful`, `NoForeignRows`, `KeepsSettling` hold |

Two jobs suffice for every overlap of two handlers; versions of one and two
chunks let the rows of one complete the chunk range of the other; two edits
supersede an input once and then again. One switch leaves results of the old
space in flight; for any number of switches and attempts `NoForeignRows` is a
theorem (below).

Two things the comments promise do not hold, and the properties allow for them.
A result may land although its input has changed, because the check of the token
and the write are separate (`memory_vector.rs:531`); that heals by itself, and
`KeepsSettling` holds all the same. A write without a token that replaces rows
of several kinds removes the entry of the first kind only, so that the second
stays "complete" over rows of unknown version (`write.rs:36`, a listed hazard).

Deadlock is not checked here: with the edit budget used up and nothing in
flight the protocol is at rest unless a reconciliation is started.

Fairness in `settle`: handlers of a running server go on (`WF` of each callback
and cascade), jobworkerp delivers what it holds and drops what was answered, and
the reconciliation is started again and again (`ScanPage` is part of
`WF(ScanStep)`; operators run it on a schedule, and it is the code's own answer
to lost jobs). Edits, faults and migrations have no fairness.

### Proofs (`EmbeddingIndexProofs`)

For every number of targets, jobs, spaces, attempts and chunks, and for any
bound on edits, faults and switches:

* `TypeCorrect`: `Spec => []TypeOK`. `TypeOK` alone is not inductive, since a
  callback reads fields of a request that must exist and have the right shape;
  `WellFormed(j)` adds that (`TypeInv`).
* `ForeignRowsNeverLand`: `Spec => []NoForeignRows`. Strengthened by `Fenced(j)`:
  a callback under way belongs to the space and attempt being served. It holds
  because a switch stops the process and with it every callback, and a callback
  that starts later is checked.
* `CompleteTargetsAreTruthful`: `Spec => []CompleteIsTruthful`. Strengthened by
  `Coherent(t)` for untainted targets: a success entry describes the rows
  present; the writers of a target agree on its origin; the ones past
  `before_rows` have left no entry of another origin, and the ones past the
  delete no row of another origin. This is the reason for the order
  entry, rows, entry in `write.rs`.

`StepKinds` splits `Next` once by what each step may change, so that the two
safety inductions treat all steps that leave rows, entries and writers alone in
one case. The assumptions are `ChunksAssumption`, `BoundsAssumption` and
`ValuesAssumption` (the special values are not ordinary ones), all evaluated by
TLC in the runs.

## `EmbeddingMigration`: changing the embedding space

State: `table` (per vector table: absent, or its space record, marker and rows),
`rec` (the attempt record), `backup`, `cmd` (the command holding the operation
lock and its position), `server`, `edition` (the RDB's state, as a counter) and
`source` (history: what normal operation last left in each table). Every durable
write of a command is an action: saving the record, marking a table, dropping,
creating, labelling and sealing a table in `replace_with_empty`, beginning and
completing the backup, exchanging a directory. `Interrupted` ends a command
between any two. `EffectiveStage` is `effective_stage` of `stage.rs`; `CanResume`,
`CanAbandon`, `CanFinalize` and `CanRestore` are the columns of its stage table;
`Decide` is the rule table of `startup.rs`.

`WriterLock` selects the build. On PostgreSQL writers and commands exclude each
other by an advisory lock; on SQLite a command looks for writers when it starts
(and `switch` once more after marking).

| Run | Bounds | Result |
|---|---|---|
| `migrate` | 3 tables in 2 directories (as deployed: memories and reflections share one), 2 spaces, 2 attempts, 2 editions, 2 interruptions, writer lock | `TypeOK`, `ServesWhole`, `RowsAccountedFor` (`SourceKept` and `CommitVerified`), `MarkersAccountedFor` and, with fairness, `NeverStuck` hold; no deadlock |

Two interruptions let the recovery itself be interrupted; three tables in two
directories give a table that is replaced, one half-way and one untouched, and a
restore between two directories; two attempts let one attempt meet what another
left behind.

With `WriterLock = FALSE` (the SQLite build) TLC finds `CommitVerified`
violated: a server started after `finalize` has looked for writers serves in
rebuild mode and takes edits while the `committing` markers are being written.
The tables committed are then not those verified, and the resumed commit does
not verify again. The operator's promise to keep writers stopped is what
prevents it (a listed hazard).

Fairness in `migrate`: a command runs to its end unless interrupted, the server
is stopped at some point, and the operator keeps running commands the stage
table accepts (`SF(Continue)`: they are only enabled while no server runs).

With a single configured table `ServesWhole` does not hold: a crash inside
`replace_with_empty` leaves no marker anywhere, and a server that starts then
serves in normal mode although the attempt is at its replace stage. No comment
promises otherwise; it is listed as a hazard and the runs use several tables.

Left out of this model: the chunking settings pinned by a rebuild, tables older
than space records (startup rule 8), dimensions and schema checks, storage
identifiers, `finalize --accept-failed`, the reset of the index tables (they
follow the rows, and are part of `EmbeddingIndex`), the orphan clean-up at the
end of a restore, other backups seen by the retention, the guard against a
pending `local apply`, and platforms without an atomic exchange of directories.
A server opens its tables and decides in one step.

### Proofs (`EmbeddingMigrationProofs`)

For any number of tables and directories in any layout, and any number of
spaces, attempts, edits and interruptions:

| Theorem | States | Assumes |
|---|---|---|
| `TypeCorrect` | `TypeOK` | |
| `EveryMarkerHasAWayOut` | `MarkersAccountedFor` | |
| `RowsAreKept` | `RowsAccountedFor` | `WriterLock`, more than one table |
| `ServersServeOneSpace` | `ServesOneSpace` | `WriterLock`, more than one table |
| `ServersServeWhole` | `ServesWhole` | the same, and no discard passes over a table |

`TypeOK` is not inductive by itself: `Mine` is a record only where there is an
attempt, and a restore reads the backup it copies. `Base` adds that a marker
belongs to the recorded attempt, that a command has an attempt to work for, and
that a restore has a usable backup. With that alone `MarkersAccountedFor`
follows: the stage an attempt is at when it has a marker always has a column in
the stage table.

The rows need to know where everything is. `Inv` is the conjunction of

- `RecordShape`: which fields of the record go together (a cancelled attempt has
  no replacement ahead, a discard has no backup, ...);
- `MarkersFit`: which markers may be on the tables at each stage of the record.
  This is `effective_stage` read backwards: what `stage.rs` concludes from the
  markers it finds is what the command really reached;
- `TablesFit`: rows are of the space their table is recorded for, a *pending*
  table is recorded for the target space, and a table marked *discarding* under
  an abandoned record is empty;
- `BackupFits` and `SourceIs`: the source rows are in the tables before the first
  replacement and after the attempt has ended, and in the backup from the first
  replacement to the commit or the end of a restore;
- `CommandAt`: for each position in each command, which tables it has dealt with
  (`Passed`) and which are still to come (`Later`), and what marks both;
- `ServerAt`: what a server relies on while it opens and labels tables.

`StepsChange` splits the steps of a command into those that write the record,
those that write a table and those that only move on, so that each conjunct is
proved against the steps that can disturb it. `SkipDiscarding`, interruptions and
the server's steps have lemmas of their own.

Assumptions on the constants: `LayoutAssumption` (tables and directories are
numbered from 1, each table is in one directory), `MigrationBounds`,
`DistinctValues` and `NothingAssumption` (`None` and `Empty` are no records). The two hypotheses of
the theorems about rows are conditions on the deployment: `WriterLock` is the
PostgreSQL build; without it TLC refutes `CommitVerified` (above). With one
table, a crash inside `replace_with_empty` removes the only marker there was; the
code configures up to three (`observe.rs`).

The condition on `ServersServeWhole` came out of the proof. `run_abandon` marks
the tables of a no-backup attempt *discarding* before it empties them, and passes
over one that it cannot open (`embedding_migrate.rs:718`, the step
`SkipDiscarding`). If an interrupted replacement had left that table unmarked,
and the discard is interrupted inside the replacement of the only table it did
mark, no marker is left and a server starts in normal mode, although the attempt
is still to be discarded. That takes three faults, one more than `migrate`
allows. `ServersServeOneSpace` covers this case too: what is served is then
still of one space and mode, and the only attempt that can be half done is a
discard. `DiscardAt` is the invariant `ServersServeWhole` adds to `Inv`. TLC has
checked all conjuncts of `Inv` on two tables with three interruptions before
they were proved.

## `MediaObjects`: reference-counted media

State: `row` (the `media_object` row of each content: `gc_state`, `storage_uri`,
`ref_count`; ids count the rows inserted for a content), `object` (the keys that
hold its bytes), `link` (the `media_object_id` of each memory), `task` (what each
handler, migration or sweep has under way, with what it read), `phase`/`todo`
(the sweep's class and the rows it listed), `page` (the memories a migration
read). Every action is one transaction or one storage call; the conditions are
the `WHERE` clauses of `media_object/rdb.rs`.

* Upload: `Upload` (reservation or conflict), `CopyFresh`/`CopyFails`, `Confirm`;
  to promote a row without usable bytes `ClaimPromote`/`LoseClaim`,
  `CopyPromoted`, `Reread`, `Promote`.
* Register: `ClientPut` (external), `Head`, `Register`, `RegisterPromote`.
* Memories: `Attach`, `Detach`, `Swap`, each one transaction with its counts;
  who drops the last reference goes on as a deletion.
* Deletion: `Delete`, `ClaimDelete`, `Erase`/`EraseFails`, `Drop`.
* Attachment migration: `MigrateScan`, `MigrateMemory`, `MigrateInsert`, `MigrateLink`.
* Sweep: `SweepList` reads one class after the other, `SweepRow` takes up a row,
  and each class has its steps (`ReclaimReservation` ... `Refetch`).
* Faults: storage calls that fail (`MaxFailures`) with or without effect;
  operations that end where they are (`Stops`, `SweepSkips`, `SweepStops`,
  `MigrateStops`, together `MaxStops`).

Time is abstracted by `GraceCovers`: when it holds, a row somebody is working on
(`Held`) is never older than the grace period, which is an hour by default. The
scans without an age condition (deleted-failed, desync) are never held back.

### Runs

| Run | Bounds | Result |
|---|---|---|
| `media` | 2 contents, 2 memories, 2 requests, a migration, a sweep; 1 row per content, 1 failure | `TypeOK`, `BytesBehindReferences` hold |
| `media_crash` | 1 content, 1 memory, 2 requests, a migration, a sweep; 2 rows, 1 failure, 2 stops, 1 client object | `RemovalsOwned` (`DutyHeld` and `ConfirmedKeepsFinal`), `CountCovers` hold |
| `media_reclaim` | 1 content, 1 memory, 1 request, a sweep; 2 rows, 1 failure, 2 stops; with fairness | `DiscardedAreReclaimed` holds |
| `media_half_deleted` | 1 request, a sweep, 1 stop | **violated**: a stop between object and row, and the row is handed out again |

Two contents and two memories give exchanges while both media are being
uploaded, deleted and swept, and counts between zero and all; two rows per
content let a row be deleted and its content be uploaded anew while somebody
still holds the old one; a second stop interrupts the recovery from the first.

`BytesBehindReferences` is the promise of the module comment of `rdb.rs`. It
holds for every interleaving of uploads, deletions, reference changes, a
migration and a sweep, with failing storage calls (`media`). It does not survive
an operation that stops half-way through a deletion (`media_half_deleted`), nor
a `Register` whose HEAD request precedes the deletion of the row that its insert
follows (a listed hazard). That is why `media` has neither, and `media_crash`,
which has both, checks the discipline itself: while a deletion is under way the
row stays `deleting` and unreferenced.

`CountCovers` is an inequality because the migration writes a memory back as it
read it and may overwrite a reference set meanwhile; the old media then counts
one too many until the desync sweep corrects it. It assumes one sweep at a time:
the correction is guarded by the count alone, and with two sweeps the count can
come back to the value a stale correction expects.

`ConfirmedKeepsFinal` assumes `GraceCovers`. With `FALSE` (an upload slower than
the grace period, or `--grace-sec 0`) a row listed as a reservation may be
confirmed before the sweep deletes its derived key.

`DiscardedAreReclaimed` speaks of confirmed rows that a deletion or the sweep is
in charge of. What no scan lists stays: a stopped promotion of a row that keeps
its `storage_uri` (`rdb.rs:396`, a listed hazard), an active row without
references, a reservation with references, a reservation that became `deleting`.
A promotion that finishes may write `active` from a count that it read outside
its transaction (`media.rs:381`, the step `Reread`) and so leave an active row
whose last reference went in between.

Fairness in `media_reclaim`: a started handler goes on (`WF`), a started sweep
goes on (`WF`), and for each class a listing that finds every row old enough is
taken again and again (`SF(SweepAll)`): the batch is run on a schedule and rows
do not stay young. New requests, failures and stops have no fairness.

Deadlock is not an issue: memories, uploads and the sweep can always start
something.

Left out: url and inline rows (they own no object in storage), temporary keys
and their sweep, dry runs, the inline and url branches of the attachment
migration (uploads and registrations), a thread delete that releases several
media at once, alt texts and dimensions.

### Proofs (`MediaObjectsProofs`)

For any contents, memories, handlers, migrations, rows, failures, stops and
client objects:

| Theorem | States | Assumes |
|---|---|---|
| `TypeCorrect` | `TypeOK` | |
| `CountsCoverReferences` | `CountCovers` | `OneSweep` |
| `NoReferenceDangles` | a referenced row exists and is not given up for deletion | `OneSweep` |
| `RemovalsAreOwned` | `RemovalsOwned` | `OneSweep`, `GraceCovers` |
| `BytesAreBehindReferences` | `BytesBehindReferences` | `OneSweep`, `GraceCovers`, no step `BytesLost` |

`OneSweep` and `GraceCovers` are conditions on the operation: the batch runs one
at a time, and its grace period exceeds what an upload or deletion takes. On the
constants `MediaAssumption` and `ValuesAssumption` (`None` is no row, reference
or key; the memories are finitely many, or nothing could be counted).

The inductive invariant has four parts, each proved with the ones before it:

- `Base`: the types; ids are counted up, so a task or reference that remembers an
  id never meets a later row of the same content by accident; each kind of task
  belongs to the workers that may have it, and a sweep holds one task per
  content.
- `Counted`: `CountCovers`, a row given up has count zero, no reference is to a
  row that is gone. A correction of the desync sweep (`Covers`) carries the
  distance between the count it read and the references it counted; that
  distance only grows until the correction is written, which is why a stale one
  is harmless, and why another sweep's correction in between is not.
- `Owned`: uploading, promoting and deleting a row (`Reserving`, `Promoting`,
  `Deleting`) have at most one worker each (`Apart`), and the row is as that
  worker left it (`Fits`). The listing of a sweep is where `GraceCovers` is
  needed: without it a sweep takes over what an upload still works on.
- `Stored`: the key of an active or orphan row holds its bytes, that of a
  deleting row does until its deletion has removed them, and a worker about to
  write the derived key into a row has written the object.

`Stored` is left by three steps, and by no others: the proof goes through all
steps. They are `BytesLost`:

- `HalfDeleted`: a deletion stops after its object and before its row
  (`media_half_deleted` shows the consequence). This includes a stop while a row
  reclaimed from *deleted-failed*, whose object is already gone, is to be erased:
  the sweep reverts it to *orphan* all the same.
- `StaleHead`: a registration writes its row after the object it looked at was
  deleted (`media.rs:482`).
- `Overtaken`: a sweep deletes the derived key of a row that is not there any
  more. `cleanup_orphan_media.rs:288` deletes by content, without looking whether
  the listed reservation still exists; if a request has deleted it and the
  content was uploaded anew since the listing, the bytes of the new row go. This
  needs a stopped upload and a second row, so it is outside the bounds of
  `media`; the listed hazard at `cleanup_orphan_media.rs:107` includes it.

`StepIs` sorts the steps into a few forms (`Effective`: a worker and its own
row; `Started`; `InsertedBy`; `Relinks`: a reference and its counts; the sweep's
listings), and each part of the invariant is proved against the forms. TLC had
checked `Counted`, `Owned` and, without the three steps, `Stored` with two
requests, a migration, a sweep, two rows, failures and stops before they were
proved. `DiscardedAreReclaimed` is a liveness property and stays with TLC.

## `TaskLease`, `ThreadTimes` and `Replacement`: a data migration under a lease

`TaskLease` holds the row every data-migration task shares (`state.rs`) and its
transitions as operators on that row: who may claim it (`Claimable`), what a
claim, a renewal, a checkpoint, a completion and a failure make of it, and the
condition under which their statements take effect (`Owns`: running, and with
the caller's fencing token). The clock is reduced to `live`, whether the expiry
in the row is still ahead.

`ThreadTimes` is the task `thread-message-times-v1` on top of it. State:
`task` (the row), `times` (the threads filled in the RDB), `canonical` and
`staging` (the vector table and its copy; a row is a thread and whether it
carries its times), `indexed`, `origin` (what was there before: no table, a
table, or what the task's predecessor had staged or was switching), and for each
running command its step `pc`, token `mine`, copy `cp` of the checkpoint, and
`copied`. One action per RDB transaction or LanceDB commit:

* `Claim`, `LoadCheckpoint`; the back-fill `BeginBackfill`, `BackfillBatch`,
  `SealBackfill`, `Verify`;
* `EnterSync` (the decision `Entry` over checkpoint and tables), `SkipVectors`,
  `AdoptLegacy`; staging `DropStaging`, `CreateStaging`, `RenewCopy`,
  `CopyThread`, `MarkStaged`;
* cutover `MarkSwitching`, `DropCanonical`, `CreateCanonical`, `AppendBatch`,
  `CommitCutover`, inside one transaction that holds the row's lock;
* `BuildIndexes`, `CommitIndexes`; `AnnounceCleanup`, `PurgeStaging`,
  `CommitCleanup`; `Complete`;
* `LoseLease` (the token no longer matches), `Refuse` (a verification fails),
  `Fail`, `Killed`, `Expire`, and `Stall`: a lease that expires under a live
  execution.

| Run | Bounds | Result |
|---|---|---|
| `times` | threads 1 and 3 of 3, rows of all three (2 was deleted), all four origins, 2 executions, 4 claims, 2 faults, 1 stall, with fairness | `TypeOK`, `NothingLost`, `CheckpointHolds`, `CompletedIsWhole`, `NeverBackwards`, `OnlyTheHolder`, `FinishesUnlessLost`, `Exchanges` hold |

Two executions and a stall are what it takes for an old holder to meet a new
one; two faults interrupt the recovery from the first; the row of a deleted
thread must not survive the copy, and the gap in the ids makes batches of
different sizes. Deadlock is not checked: a completed task is at rest, and so is
one whose four claims are used up.

`Replacement` says what the exchange of the table promises its readers: old
content, an exchange in progress, new content, in this order, and "settled" only
when the new content is whole. `Exchanges` is `Replacement!Spec` under the
mapping `content`/`settled` of `ThreadTimes`.

Fairness: an execution that is neither killed nor failing goes on (`WF` of
`Advance(e)`), time passes (`WF(Expire)`), and the operator runs the command
again (`WF` of a claim). Faults and stalls have none.

Two disagreements with the comments, both listed as hazards:

* `state.rs:317-318` says that a renewal fences a superseded execution. The
  staging table is dropped, created and filled without asking in the same step
  (`Exposed`). With `StallsAnywhere = TRUE`, where the lease may also expire in
  those steps, TLC finds `NothingLost` violated: the old holder drops the staging
  table after the new one has dropped the canonical table. `times` has
  `StallsAnywhere = FALSE`.
* A crash between the drop of the staging table and the commit of the cleanup
  leaves a task that every retry refuses (`thread_message_times_v1.rs:640-641`,
  against l. 681-682). `FinishesUnlessLost` excepts this case (`CleanupLost`) and
  nothing else.

Left out: the tasks that are one transaction (`thread_groups_user_ids`), the
assignment of canonical keys, page sizes, duplicate vector rows.

### Proofs (`ThreadTimesProofs`)

For any number of threads, rows and executions, and without a bound on claims,
faults and stalls (`ConstantsAssumption` is all that is assumed of them):

* `TypeCorrect` and `CheckpointNeverGoesBack`, without a word about time. The
  invariant is `LeaseInv`: no token is larger than the row's and no two
  executions under way share one (`Tokens`); the copy an execution has of the
  checkpoint fits the step it is at (`Fits`); and the one whose token is in the
  row has the checkpoint of the row (`Knows`). An overtaken execution may hold an
  old copy for as long as it likes, since every statement that would write it asks
  for the token.
* The rest assumes `Punctual` (`~StallsAnywhere`): no execution outlives its
  lease in the steps that do not ask for the token. Without it the statements are
  false, as said above. `Holds(e)` says that whoever is in such a step, or in a
  transaction over the row, owns it; with at most one owner (`OneOwner`) this gives
  `OwnersOnly`.
* `DataInv` adds what the steps and the checkpoint say of the tables. `Made(e)`:
  staging is empty after it was dropped and holds exactly the threads up to
  `copied[e]` while they are copied, the canonical table is missing or holds some of
  the new rows inside a cutover, and so on. `Tabled`: what the tables are before the
  checkpoint says anything of them. Its induction has one case per step
  (`BackfillSound`, `SkipSound`, `SyncSound`, `TableSound`, `QuietSound`), and one
  lemma for everybody else (`OthersMade`: they do not own the row, so their claims
  are not about the tables). `CheckpointIsTrue`, `RowsSurvive` and
  `CompletedMeansWhole` follow.
* `TaskIsAnExchange`: the refinement, `Spec => Exchange!Spec`. A step of the task is
  a step of `Replacement` or leaves its two variables alone (`ExchangeStep`). The one
  case with a twist is a table without rows, where old and new coincide
  (`NewIsNotOld`).

## `LocalMigration` and `AtomicRestore`: apply and restore of a SQLite data set

State: `dest` (what the paths of database, WAL and resource hold), `stash` (the
originals a restore moved aside), `staged` (copies waiting beside their
destination), `journal` (the restore's plan), `record` (the durable attempt
record), `backups`, the running command (`pc`, `item`, `then`, `chosen`),
`server` (another process has the database open), and `original` (history: what
the restore in progress found). One action per durable change of the file
system:

* `local apply`: `StartApply`/`ApplyNothing`, `TakeBackup`, `ApplySchema` (or
  `SchemaBreaks`), `RunTasks`, `CompleteTasks`, `Succeed`, `Classify`;
* `local restore`: `StartRestore`, the roll-back `UndoItem`, `PutBack`,
  `EndUndo`, `RefuseRestore`, `PlanRestore`, `StageCopies`, `MoveAside`, `Place`,
  `CleanItem`, `EndClean`, `ClearRecord`;
* `ApplyFails`, `RestoreFails`, `Stops` (between any two steps), and a server
  that starts and stops between commands.

A data set is *whole* when its parts belong together (`Whole`): the WAL is that
of the database, and the resource that of its version.

| Run | Bounds | Result |
|---|---|---|
| `local` | three paths, every whole data set of the old version, 3 faults, 2 backups, with fairness | `TypeOK`, `PartsKept` (`WholeWithoutJournal` and `OriginalsKept`), `RestoresAtomically`, `RestoresFinish` hold |

Three faults give a failed migration, an interrupted restore and an interrupted
roll-back in one behaviour; two backups of different states let the second
restore choose another backup than the first.

`AtomicRestore` is the promise: whoever opens the data finds a whole data set,
and a restore ends in a whole backup or in what it found. `RestoresAtomically`
is its `Spec` under the mapping that hides the data set while a journal exists.

Fairness: a command goes on unless it is stopped (`WF(Apply)`, `WF(Restore)`),
the server is stopped for the maintenance, and the operator repeats a restore
that was interrupted or is required. Deadlock is not checked: a damaged data
set without a backup has no way on.

`restore.rs:3-5` promises that a crash is undone by the next run. A crash while
the stashes are removed (l. 174) leaves a journal over originals that are partly
gone, and the next run rolls back to them: with `CleanupStops = TRUE` TLC finds
`WholeWithoutJournal` violated (a listed hazard). `local` has it `FALSE`, and the
proofs assume it.

Left out: what the schema migration and the tasks do to the data, backup
retention, a database that does not exist yet, the baseline of old databases,
the guard of the embedding migration, bundle verification.

### Proofs (`LocalMigrationProofs`)

For any number of errors, kills and backups, with `ConstantsAssumption`,
`NothingAssumption` (what stands for an absent path or journal is nothing else)
and `CleansUp` (`~CleanupStops`): `TypeCorrect`, `PartsAreKept` and the
refinement `RestoreIsAtomic` (`Spec => RestoresAtomically`).

The invariant `Inv` says at each step of the commands where each original is.
`Kept(p)`: its path or its stash has it; this holds as long as there is a journal
and is what a roll-back started by any later run needs. `Exchanges`: the paths
before `item` are exchanged (`Exchanged`), those after it are untouched with their
copies ready (`Copied`), the one between the two renames is `Moved`; in a roll-back
those after `item` are put back. So the last rename leaves the chosen backup
(`Place`, which also needs `BackedUp`: a backup has no WAL, since it is taken of a
closed database) and the last step of the roll-back the original. `Migrating`
keeps the data set whole while a migration writes it. There is one lemma per
step of the exchange and one for each group of steps that leave it alone; in
`RestoreStep` each of them is a step of `AtomicRestore` or a stutter.

## `SearchMaintenance`: the coordinator of index maintenance

State: `index`, `unindexed` and `due` (what LanceDB has and what there is to
do), `running` (tasks, until their outcome is recorded), `permit`, `candidate`
(the record of each target's last change: ready, in backoff, barred),
`reconcile_running`, `reconcile_cursor`, `internal_checks`, and `scan`, the
reconciliation in progress. One action per critical section of the mutex or
awaited call: `Request`; `RunCheck`, `RunBuild`, `RunOptimize`, `RunFails`,
`Record`; `StartReconcile`, `ReadDue`, `ReadCandidate`, `BeginCheck`,
`CheckAnswers`/`CheckFails`, `ReadEligibility`, `StartCandidate`,
`EndReconcile`. `Drop` is a client that goes away: the reconciliation is dropped
at its await and what it noted stays. `DeadlinePasses`, `IntervalPasses`,
`RowsWritten` and `BackoffPasses` are time and the writers of the tables.

| Run | Bounds | Result |
|---|---|---|
| `maintenance` | 3 targets on 2 tables (a vector index and its table, and a second table), 1 request, 1 fault, 1 change, 1 drop, with fairness | `TypeOK`, `OnePermit`, `KeptUp` hold |

Three of the six targets of the program, in its order, give a component, its
table and another table, so that a scan meets a change on its own table and one
elsewhere. `Forced` is empty, as by default: a component rebuilt every time has
nothing to keep up. Deadlock is not checked: after a dropped reconciliation
no other starts, and the coordinator rests.

Fairness: the cron job asks for a reconciliation again and again
(`WF(StartReconcile)`), a reconciliation and the tasks go on, backoffs pass.

Two listed hazards: a dropped reconciliation leaves `reconcile_running` set and
no other ever starts (l. 324; `KeptUp` excepts it as `Abandoned`); and the record
of the last failure is read before the index is looked at, so that a change
which fails in between is started again at once, although l. 886-888 says that
the next candidate observes it.

Left out: the status query with its history, the delays computed from it,
disabled vector indexes, configuration.

### Proofs (`SearchMaintenanceProofs`)

With `ConstantsAssumption` alone: `TypeCorrect` and `PermitIsHeldOnce`
(`Spec => []OnePermit`). The invariant `Inv` has `OnePermit` without counting
(`Holder`: the changes under way are the set of one task, or none and the permit is
free), since a step adds or removes one task at a time. It needs that requests are
well formed (a component is built, a table optimized), for which `ScanTyped` says
that a reconciliation in progress asks only tables what is due (`FitScans`).

## `ThreadGroups`: relations and groups of threads

An import records *evidence* that a thread was spawned from another; the
reconciler adopts at most one parent per thread and keeps the members it placed
itself in the group of their parent. The operator merges, splits, attaches,
confirms, rejects, retracts and purges; threads are deleted and imported again.

State: `row` and `marked` (the thread, and the deletion marker of its identity),
`observed` and `assoc` (evidence and its candidate association), `rel` (the
active relation of a child), `member` (current membership or placeholder),
`past` (redirected membership rows), `group` (status, who made it, key,
redirect), `due` (late reconciliations an import still has to run), `deletion`
and `attaching` (handlers between two transactions). Every transaction runs
under the global membership lock and is one action: `ImportContent`,
`RecordObservations`, `Reconcile`, `Abort`; `Confirm`, `Reject`, `Retract`;
`Merge`, `Split`, `BeginAttach`/`FinishAttach`, `Purge`; `Delete`,
`BeginDelete`/`FinishDelete`. `Verdict` is the choice of a parent, `Follow` and
`Singleton` its consequence for the home of a thread, and `Move` is
`place_member` for a set of threads, with the redirects of groups it empties.

| Run | Bounds | Result |
|---|---|---|
| `groups` | 3 threads (one not yet imported), 3 pieces of evidence in 4 batches, 4 groups, 2 operator actions, deletions or aborted imports | `TypeOK`, `FamiliesTogether` (`Forest` and `FollowsParent`), `HomesResolve` (`HomesAreActive` and `RedirectsAreFlat`), `NoEmptyAutomaticGroup`, `PlaceholdersAreMarked`, `OperatorsStay` hold; no deadlock |
| `groups_attach` | the same, and a deletion may run between the two steps of an attach | **violated**: `PlaceholdersAreMarked` |

The evidence has two exact parents of one thread, which rule each other out when
one import carries both, and weaker evidence that closes a cycle with one of
them; four groups allow a split after the automatic groups of two threads; two
operator actions combine any two of merge, split, attach, purge, decision and
deletion.

`groups_attach` is a finding: the handler of `AttachThreadGroupMember` looks at
the thread in one transaction and the membership is inserted in another, so that
a deletion in between leaves an active member without a thread.
`AttachesAlone = TRUE` keeps `groups` clear of it.

What the properties allow for, all listed as hazards: `FollowsParent` says
nothing once a group was purged, since a purge forgets the home of a deleted
child, which may then come back as a group of its own; `RedirectsAreFlat`
accepts redirects to a group that was purged or split afterwards
(`lifecycle.rs:702`); an import judges its own evidence without looking at
associations that were rejected or in conflict (`reconcile.rs:379`); late
reconciliations are lost when the process stops before them (`Abort`).

No liveness is claimed: adoption depends on imports nobody is bound to repeat.

Left out: several identities or users per thread, unknown scopes, collisions of
the keys of a split's successors, manual collections, summaries, the audit, the
outbox; at most one recursive deletion and one attach are in flight.

### Proofs (`ThreadGroupsProofs`)

For any threads, evidence, batches, groups and operator actions:

| Theorem | States | Assumes |
|---|---|---|
| `TypeCorrect` | `TypeOK` | |
| `LineageIsAForest` | `Forest`, the first half of `FamiliesTogether` | |
| `FamiliesStayTogether` | `FamiliesTogether` | `AttachesAlone` |
| `HomesAreReached` | `HomesResolve` | |
| `NoGroupIsLeftEmpty` | `NoEmptyAutomaticGroup` | |
| `PlaceholdersKeepTheirMarker` | `PlaceholdersAreMarked` | `AttachesAlone` |
| `OperatorsAreObeyed` | `OperatorsStay` | |

`AttachesAlone` is the condition that `groups_attach` shows to be needed: no
deletion falls between the two steps of an attach. On the constants
`EvidenceAssumption`, `BoundsAssumption`, `BatchesAssumption` and
`NoneAssumption` (`None` is no thread, group, row or association). Threads and
evidence need not be finite.

The inductive invariant `Inv`, which TLC checked in the configuration of `groups`
before it was proved:

- `TypeOK`; `Acyclic(rel)`; `NoLiveMarker`: a thread that is there has no
  deletion marker.
- `Sound(Homes)`: the ids of groups are handed out in order (`InOrder`), members
  are in active groups (`AtHome`) and redirects are flat (`Flat`).
  `Peopled(Homes)`: active groups made by the reconciler have members.
- `Together`: with `AttachesAlone` and until a purge, a thread with a parent has
  a home, and if the reconciler placed it there it is the home of its parent,
  which has one too. The property itself is not inductive: it says nothing of a
  child or parent without a home, which may get one in the next step.
- With `AttachesAlone`, `AttachedLive` (an attach under way names a thread that
  is there) and `Living(Homes)` (live members have a thread, placeholders none).

Ancestry is the least set closed under parents (`Line`), so that no induction
along a chain is needed: `AdoptionIsAcyclic` shows that a new parent whose line
does not contain the child keeps the forest, by a smaller closed set, and
`FewerAreAcyclic` that relations may be dropped. `MoveKeeps` and `MovePlaces` say
what `place_member` preserves and where it puts threads, for any set of threads
and from any memberships; `FollowKeeps` and `FollowTies` lift it to a thread with
all its automatic descendants. The last one is where `Followers`, the
descendants not separated by a thread the operator fixed, must be exactly those
that `Tied` obliges to be with the thread. A lemma per action (`...Keeps`) puts
these together.

## `Importer`: conversations read by a client

A run reads a session, or a vault of plain files, and writes it into the thread
of its channel, in chunks of one RPC each. State of the server: `thread` (of the
channel; ids tell a thread from a later one), `stored`, `parents`, `labelled`,
`observed`, and `marker` (the deletion marker of the source identity). State of
the source: `source`. State of a client: `run`, which is forgotten when it ends.
`kind` selects the three ways of importing: *upsert* (Claude Code, Codex), *append*
(OpenCode, which looks every entry up before it sends any) and *vault* (files, with
`--prune-missing`, under a strategy that has one thread). `chosen` is a history
variable: the parents the operator has set by force.

* Before the first chunk: `Start` (with the snapshot of threads), `FindThread`,
  `LookupMemory`, `LookedUp`.
* The batch, `AddMemoriesBatch`: the suppression gate (`Suppressed`), the
  resolution of the thread (`Acceptable`, `Targets`), parents of new and of
  existing memories (`ParentsOfNew`, `Resolved`, `Outcomes`), labels with the last
  chunk, the marker consumed. Then `UpdateMemoryParents` for each outcome,
  with the server's guard (`Rewirable`), and `Rewired`.
* Afterwards: `RecordObservations`, `AddLabels`, `LookupParents`,
  `RewiredDuplicates`; for a vault `ListMemories`, `FilterCandidates`,
  `DeleteMemory`, `CountMemories`, `DropThread`. A prune holds ids of rows, so a
  row that was deleted and imported anew in between is not its target (`dead`).
* Around the runs: `SourceChanges`; `OperatorDeletes` with either marker,
  `OperatorSetsParents`, `OperatorDeclines`; `Breaks`.

`Reply` is `retry_status`: the answer of a call may be lost after the server has
committed, and the same request is sent again. `delete_memory`, `delete_thread`
and `count_memories_in_thread` do not go through it, although `client.rs:209`
says that the policy is "applied to every RPC"; a failure of theirs is counted and
the run fails in the end.

| Run | Bounds | Result |
|---|---|---|
| `import` | 2 runs, 3 entries (or 3 versions of 2 files) with no, backward or forward references, chunks of 2, 2 changes of the source, 1 act of the operator, 1 fault, with fairness | `TypeOK`, `ChosenParentsStay`, `SuccessMeansWhole`, `DeletionHolds`, `Converges` hold; no deadlock |

Three entries in chunks of two give a session of two chunks, with references
inside a chunk, back across two and forward; two runs let one overtake the other
anywhere; one deletion between two chunks, lookup and batch, or batch and rewire
is enough to leave the remembered thread stale.

`SuccessMeansWhole` is about a single run and what may happen while it is under
way: if it ends without an error and its thread is still there, everything it has
read is there, with labels, observations and the parents that come before their
child. Parents that come later are resolved within a batch only; for them, and
for whatever a stopped run has left, `Converges` says that repeated runs complete
the session. `SuccessMeansWhole` is stated for vaults whose runs do not
overlap (`alone`): a run that has read an older version of a file deletes the
newer version of an overlapping run ("Same path was re-imported with new
content", `prune.rs:145-146`), and the thread is counted first and deleted later, with
what was added in between (a listed hazard). `Converges` covers those too.

`SessionAssumption` lets an entry refer to a later one only if that is its only
reference, as in a reordered rollout of Codex (`codex.rs:293-296`). The existing
parents of a memory are never extended, so an entry with an earlier parent and
one in a later chunk would keep the first alone; with such a lineage TLC finds
`Converges` violated. No source emits one: the two parents of a tool output of
Claude Code and those of OpenCode come before it.

Fairness: the importer is run again and again, by hand, by a timer or by a hook
of the agent, and a run that is not stopped goes on (`WF(Step(r))`). Changes of
the source, acts of the operator and faults have none.

Left out: attachments and media (the uploads are in `MediaObjects`), the filters
`--since` and by modification time, dry runs, events, summaries and other
work started after the import, `--no-thread-group-writes`, `explicit_override`,
memories shared by several threads, several sessions per run.

### Proofs (`ImporterProofs`)

For any number of runs, entries and chunk size, any lineages and without a bound
on changes, acts and faults. Of the assumptions, the proofs use the ranges of the
constants, the type of `Lineages` and that `None` is no thread.

* `ChosenParentsAreKept` and `DeletionsHold` (`[][...]_vars`) rest on `Inv`. Neither
  property is inductive: a prune takes memories away and knows nothing of chosen
  parents, and a batch that takes a marker away must leave something behind.
  `RunFits` says that only runs of a vault are in a step of the prune and that a
  run at `send` has something to send; `MarkerFits`, that a marker means that the
  thread is gone and that vaults have neither markers nor chosen parents. That a
  chunk is not empty when there is something to send (`ChunkIsNotEmpty`) needs the
  least entry of the rest, and that `<` on `Nat` is well founded.
* `TypeCorrect` adds `Whereabouts`: what a run remembers is true of the server
  (`Ready`). A run that labels, observes or rewires has a thread, so a call whose
  thread is gone fails instead of writing to none; a memory it is going to rewire is
  in that thread as long as the thread is. This is where identifiers matter:
  a new thread has one that no run remembers (`Fresh`), so a run can not take it for
  the one it has lost.
* `SuccessIsWhole` (`Spec => SuccessMeansWhole`) adds `Course`, which TLC checked in
  the configuration of `import` before it was proved. Its parts:
  - `Ordered`: sessions are read, sent and stored from the start (`Prefix`), so
    whatever resolves the parents of an entry, in a batch or in a rewire, finds all
    that come before it; hence a memory that has parents at all has these
    (`Settled`), whoever of several runs has set them, and a rewire may leave it.
    A chunk is the first part of what remains (`ChunkIsFirst`).
  - `Staged`: what a run remembers fits its step, for instance a run that has no
    thread has sent nothing, and a run that filters candidates has none that it
    has read.
  - `OnCourse`: as long as a run has still its thread, all it has sent or found is
    there, and either settled or among its duplicates or jobs (`Minded`); labels are
    there from the moment they are due (`LabelsAreDue`), observations before the
    labels of an append.
  - `Solitary`: runs that must not overlap do not. Only for a vault does it matter:
    there, other runs delete memories of a thread that stays.

  `Gains` is what every other actor leaves of a thread, if it leaves it: its
  memories, settled parents, labels and observations (`BystandersStay`); each action
  is then about the run that takes it. `DoneIsWhole` collects the last steps.

## What is proved and what is only model-checked

Proved for all values of the constants: the three theorems of
`EmbeddingIndexProofs`, the five of `EmbeddingMigrationProofs`, the four of
`ImporterProofs`, the three of `LocalMigrationProofs`, the five of
`MediaObjectsProofs`, the two of `SearchMaintenanceProofs`, the seven of
`ThreadGroupsProofs` and the seven of `ThreadTimesProofs`, among them both
refinements, `LocalMigration => AtomicRestore` and `ThreadTimes => Replacement`.
With them every safety property that a passing run checks is stated by a theorem,
some under conditions on the operation that their sections name.
Model-checked only, on the instances listed: the liveness properties
(`KeepsSettling`, `NeverStuck`, `DiscardedAreReclaimed`, `FinishesUnlessLost`,
`RestoresFinish`, `KeptUp`, `Converges`), which are out of the prover's reach, as
is ENABLED. Nothing uses recursive operators.

## Plan

1. Proofs: of what `groups` leaves open after a purge, which homes of a family may
   differ; the refinements that item 4 asks for.
2. `Importer` together with `ThreadGroups`: observations as the evidence that the
   reconciler judges, and markers shared by both.
3. The one-transaction data migrations and the assignment of canonical keys; the
   outbox of thread groups.
4. Abstract specifications: an atomic space switch that `EmbeddingMigration`
   implements, and an index that only ever states true claims for
   `EmbeddingIndex`.

## Not modelled

The reflection queries, search, RAG tools and the gRPC layer read; their state is
that of the components above. Of the importer, the parsing
of the transcripts is left out, as is all that `Importer` lists. Record contents, labels, ratings and the read caches are rows
of single RDB transactions. The configuration, the object-storage and job-queue
clients and the worker itself are external and appear as the outcomes of their
calls.
