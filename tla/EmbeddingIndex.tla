---------------------------- MODULE EmbeddingIndex ----------------------------
(***************************************************************************)
(* The embedding write protocol of memory-store.                           *)
(*                                                                         *)
(* The relational database (RDB) is the source of truth: it fixes, for     *)
(* every embedding target (entity and vector kind), the version of the     *)
(* input its vectors must be generated from.  Vector rows live in LanceDB  *)
(* tables and an index entry beside them records what the last generation  *)
(* of the target achieved.  Generation runs in an external job system;     *)
(* its results come back as callbacks that carry a dispatch token.  A      *)
(* callback checks the token against the RDB and then works on the index   *)
(* and the rows in separate LanceDB commits, with no lock held: other      *)
(* callbacks, edits, the reconciliation task and process restarts          *)
(* interleave between any two of them.                                     *)
(***************************************************************************)
EXTENDS Integers, FiniteSets

CONSTANTS
    Targets,      \* embedding targets: (table, entity, vector kind)
    Versions,     \* source versions (digests of the embedded input)
    Spaces,       \* embedding spaces
    Attempts,     \* identifiers of rebuild attempts
    Jobs,         \* generation requests in flight; a job is its generation id
    MaxChunks,    \* most chunks an input is split into
    ChunkCount,   \* chunks the runner yields for each version
    FirstSpace,   \* the space the process starts with
    MaxEdits,     \* bound on changes made to the RDB or of the embedding space
    MaxFaults,    \* bound on restarts, lost jobs and failed storage calls
    MaxSwitches,  \* bound on changes of the embedding space among them
    None,         \* no entry, no row, no job, no rebuild attempt
    NotTarget,    \* the entity exists (or may still) but yields no target
    Deleted,      \* the entity was deleted from the RDB
    Unknown       \* space and version of a token-less result

ASSUME ChunksAssumption ==
    /\ MaxChunks \in Nat \ {0}
    /\ ChunkCount \in [Versions -> 0..MaxChunks]

ASSUME BoundsAssumption ==
    /\ MaxEdits \in Nat
    /\ MaxFaults \in Nat
    /\ MaxSwitches \in Nat

ASSUME ValuesAssumption ==
    /\ FirstSpace \in Spaces
    /\ None \notin Spaces \cup Attempts \cup Jobs
    /\ {NotTarget, Deleted, Unknown} \cap Versions = {}
    /\ Unknown \notin Spaces
    /\ NotTarget # Deleted

Chunks == 0 .. MaxChunks - 1

\* What a vector row was generated from, and the attempt it was written in.
Origins ==
    [space: Spaces \cup {Unknown}, attempt: Attempts \cup {None},
     version: Versions \cup {Unknown}]

\* An entry of the embedding index.
Entries ==
    [space: Spaces, version: Versions, generation: Jobs,
     outcome: {"success", "failure"}, chunks: 0..MaxChunks]

\* Shapes of a request without a token: rows to replace kinds with, kinds to
\* clear, and the older list of items (one vector per memory).
LegacyShapes == {"rows", "clear", "items"}

\* A generation request: the target of its (first) kind, and the targets of
\* the further kinds that a request without a token may replace with it.
Requests ==
    [target: Targets, also: SUBSET Targets, shape: {"token"} \cup LegacyShapes,
     space: Spaces \cup {Unknown}, attempt: Attempts \cup {None},
     version: Versions \cup {Unknown}]

\* A callback has passed the check and may still insert rows.
Writing == {"guarded", "cleared", "deleted", "inserted"}

\* A callback is replacing the rows of its target by nothing.
Emptying == {"emptied"}

\* A failure report is under way.
Reporting == {"checked", "counted", "dropping", "dropped", "unrowed", "recording"}

VARIABLES
    source,    \* RDB: current source version of each target
    rows,      \* vector table: origin of each chunk row of each target
    entry,     \* embedding index: the entry of each target
    space,     \* embedding space this process serves
    attempt,   \* rebuild attempt this process serves, or None
    legacy,    \* token-less writes are accepted
    job,       \* the request of each generation id, or None
    pc,        \* where the callback of each job is
    seen,      \* chunk indexes a failure report has read
    answered,  \* jobs whose callback has returned to the worker
    wiping,    \* progress of the vector cascade of a delete or detach
    scan,      \* the reconciliation task
    tainted,   \* history: writers of different origins overlapped
    edits, faults, switches

rdb == <<source, edits>>
store == <<rows, entry>>
process == <<space, attempt, legacy, switches>>
queue == <<job, answered>>
vars == <<source, rows, entry, space, attempt, legacy, job, pc, seen, answered,
          wiping, scan, tainted, edits, faults, switches>>

NoRows == [c \in Chunks |-> None]

IdleScan == [phase |-> "idle",
             source |-> [t \in Targets |-> NotTarget],
             chunks |-> [t \in Targets |-> {}],
             wanted |-> {}, orphanRows |-> {}, orphanEntries |-> {}]

TypeOK ==
    /\ source \in [Targets -> Versions \cup {NotTarget, Deleted}]
    /\ rows \in [Targets -> [Chunks -> Origins \cup {None}]]
    /\ entry \in [Targets -> Entries \cup {None}]
    /\ space \in Spaces
    /\ attempt \in Attempts \cup {None}
    /\ legacy \in BOOLEAN
    /\ job \in [Jobs -> Requests \cup {None}]
    /\ pc \in [Jobs -> {"idle"} \cup Writing \cup Emptying \cup Reporting]
    /\ seen \in [Jobs -> SUBSET Chunks]
    /\ answered \subseteq Jobs
    /\ wiping \in [Targets -> {"none", "rows", "entry"}]
    /\ scan \in [phase: {"idle", "paged", "counted", "handling"},
                 source: [Targets -> Versions \cup {NotTarget, Deleted}],
                 chunks: [Targets -> SUBSET Chunks],
                 wanted: SUBSET Targets,
                 orphanRows: SUBSET Targets, orphanEntries: SUBSET Targets]
    /\ tainted \in [Targets -> BOOLEAN]
    /\ edits \in 0..MaxEdits
    /\ faults \in 0..MaxFaults
    /\ switches \in 0..MaxSwitches

Init ==
    /\ source = [t \in Targets |-> NotTarget]
    /\ rows = [t \in Targets |-> NoRows]
    /\ entry = [t \in Targets |-> None]
    /\ space = FirstSpace
    /\ attempt = None
    /\ legacy \in BOOLEAN
    /\ job = [j \in Jobs |-> None]
    /\ pc = [j \in Jobs |-> "idle"]
    /\ seen = [j \in Jobs |-> {}]
    /\ answered = {}
    /\ wiping = [t \in Targets |-> "none"]
    /\ scan = IdleScan
    /\ tainted = [t \in Targets |-> FALSE]
    /\ edits = 0
    /\ faults = 0
    /\ switches = 0

-----------------------------------------------------------------------------
(* Classification of a target. *)

Present(t) == {c \in Chunks : rows[t][c] # None}

\* The chunk indexes are exactly 0 .. n-1, and there is at least one.
ChunksExactly(chunks, n) == n > 0 /\ chunks = 0 .. n - 1

Current(s, v, e) == e.space = s /\ e.version = v

Classify(s, v, e, chunks) ==
    IF e = None
    THEN IF chunks = {} THEN "missing" ELSE "unverified"
    ELSE CASE e.outcome = "success" /\ Current(s, v, e)
                 /\ ChunksExactly(chunks, e.chunks) -> "complete"
           [] e.outcome = "failure" /\ Current(s, v, e)
                 /\ chunks = {} -> "failed"
           [] OTHER -> "stale"

\* Mutant: rows of unknown origin are taken for good.
NeedsDispatchVerified(state) == state \in {"stale", "missing"}

\* States a reconciliation dispatches again (failures only on request).
NeedsDispatch(state) == state \in {"stale", "unverified", "missing"}

State(t) == Classify(space, source[t], entry[t], Present(t))

IsTarget(t) == source[t] \in Versions

-----------------------------------------------------------------------------
(* Tokens and their check. *)

Token(t, v) ==
    [target |-> t, also |-> {}, shape |-> "token", space |-> space, attempt |-> attempt,
     version |-> v]

TokenLess(t, others, shape) ==
    [target |-> t, also |-> others, shape |-> shape, space |-> Unknown, attempt |-> None,
     version |-> Unknown]

\* A generation id no request and no entry carries.
Fresh(j) == job[j] = None /\ \A t \in Targets : entry[t] # None => entry[t].generation # j

\* Mutant: the token is not compared with the space.
CheckAnySpace(r) ==
    IF r.shape = "token"
    THEN r.attempt = attempt /\ r.version = source[r.target]
    ELSE legacy /\ attempt = None

Check(r) ==
    IF r.shape = "token"
    THEN /\ r.space = space
         /\ r.attempt = attempt
         /\ r.version = source[r.target]
    ELSE legacy /\ attempt = None

Origin(r) == [space |-> r.space, attempt |-> r.attempt, version |-> r.version]

ChunksOf(r) ==
    IF r.shape = "token" THEN ChunkCount[r.version]
    ELSE IF r.shape = "clear" THEN 0 ELSE 1

\* The targets whose rows the request replaces.
Replaced(r) == {r.target} \cup r.also

\* Callbacks that passed the check for t and may still insert rows.
Writers(t) == {j \in Jobs : pc[j] \in Writing /\ t \in Replaced(job[j])}

-----------------------------------------------------------------------------
(* Edits of the RDB.  The dispatch that follows a commit is best effort: it  *)
(* may fail, and one kind of update never dispatches.                        *)

\* Create or update an entity so that t has version v, and dispatch it.
UpdateAndDispatch(t, v, j) ==
    /\ edits + switches < MaxEdits
    /\ source[t] # Deleted
    /\ Fresh(j)
    /\ source' = [source EXCEPT ![t] = v]
    /\ job' = [job EXCEPT ![j] = Token(t, v)]
    /\ answered' = answered \ {j}
    /\ edits' = edits + 1
    /\ UNCHANGED <<store, process, pc, seen, wiping, scan, tainted, faults>>

\* The same commit with no job enqueued: UpdateContentNoDispatch, a failed
\* dispatch, or content that no longer yields the target (v = NotTarget).
UpdateOnly(t, v) ==
    /\ edits + switches < MaxEdits
    /\ source[t] # Deleted
    /\ source' = [source EXCEPT ![t] = v]
    /\ edits' = edits + 1
    /\ UNCHANGED <<store, process, queue, pc, seen, wiping, scan, tainted, faults>>

\* Detaching an image removes its target; the handler then clears the rows.
DetachImage(t) ==
    /\ edits + switches < MaxEdits
    /\ IsTarget(t)
    /\ wiping[t] = "none"
    /\ source' = [source EXCEPT ![t] = NotTarget]
    /\ wiping' = [wiping EXCEPT ![t] = "rows"]
    /\ edits' = edits + 1
    /\ UNCHANGED <<store, process, queue, pc, seen, scan, tainted, faults>>

\* The RDB transaction commits first, then the vector cascade starts.
DeleteMemory(t) ==
    /\ edits + switches < MaxEdits
    /\ source[t] # Deleted
    /\ wiping[t] = "none"
    /\ source' = [source EXCEPT ![t] = Deleted]
    /\ wiping' = [wiping EXCEPT ![t] = "rows"]
    /\ edits' = edits + 1
    /\ UNCHANGED <<store, process, queue, pc, seen, scan, tainted, faults>>

DeleteVectorRows(t) ==
    /\ wiping[t] = "rows"
    /\ rows' = [rows EXCEPT ![t] = NoRows]
    /\ wiping' = [wiping EXCEPT ![t] = "entry"]
    /\ UNCHANGED <<rdb, entry, process, queue, pc, seen, scan, tainted, faults>>

DeleteVectorEntry(t) ==
    /\ wiping[t] = "entry"
    /\ entry' = [entry EXCEPT ![t] = None]
    /\ wiping' = [wiping EXCEPT ![t] = "none"]
    /\ UNCHANGED <<rdb, rows, process, queue, pc, seen, scan, tainted, faults>>

\* The cascade is best effort: an error is logged and the rest skipped.
CascadeFails(t) ==
    /\ faults < MaxFaults
    /\ wiping[t] # "none"
    /\ wiping' = [wiping EXCEPT ![t] = "none"]
    /\ faults' = faults + 1
    /\ UNCHANGED <<rdb, store, process, queue, pc, seen, scan, tainted>>

-----------------------------------------------------------------------------
(* The job system (external): at-least-once delivery, and loss. *)

\* A worker that predates tokens sends a result.
LegacyRequest(t, others, shape, j) ==
    /\ edits + switches < MaxEdits
    /\ job[j] = None
    /\ t \notin others
    /\ shape = "items" => others = {}
    /\ job' = [job EXCEPT ![j] = TokenLess(t, others, shape)]
    /\ answered' = answered \ {j}
    /\ edits' = edits + 1
    /\ UNCHANGED <<source, store, process, pc, seen, wiping, scan, tainted, faults>>

\* An answered job leaves the queue; with a fault an unanswered one is lost.
JobEnds(j) ==
    /\ job[j] # None
    /\ pc[j] = "idle"
    /\ j \in answered
    /\ job' = [job EXCEPT ![j] = None]
    /\ UNCHANGED <<rdb, store, process, answered, pc, seen, wiping, scan, tainted, faults>>

JobLost(j) ==
    /\ faults < MaxFaults
    /\ job[j] # None
    /\ pc[j] = "idle"
    /\ j \notin answered
    /\ job' = [job EXCEPT ![j] = None]
    /\ faults' = faults + 1
    /\ UNCHANGED <<rdb, store, process, answered, pc, seen, wiping, scan, tainted>>

\* The answer was lost, so the worker runs the job again.
JobRepeated(j) ==
    /\ faults < MaxFaults
    /\ job[j] # None
    /\ pc[j] = "idle"
    /\ j \in answered
    /\ answered' = answered \ {j}
    /\ faults' = faults + 1
    /\ UNCHANGED <<rdb, store, process, job, pc, seen, wiping, scan, tainted>>

-----------------------------------------------------------------------------
(* Success callback: batch_upsert_embeddings_rows. *)

Delivered(j) == job[j] # None /\ j \notin answered /\ pc[j] = "idle"

Return(j) ==
    /\ pc' = [pc EXCEPT ![j] = "idle"]
    /\ answered' = answered \cup {j}

\* Read the RDB and verify the token.  A token-less row write needs the
\* entity; the items shape looks it up only when it builds its records.
Accepts(j) ==
    /\ Check(job[j])
    /\ job[j].shape # "items" => source[job[j].target] # Deleted

Guard(j) ==
    /\ Delivered(j)
    /\ Accepts(j)
    /\ pc' = [pc EXCEPT ![j] = "guarded"]
    /\ tainted' = [t \in Targets |->
         \/ tainted[t]
         \/ t \in job[j].also
         \/ /\ t = job[j].target
            /\ \E k \in Writers(t) : Origin(job[k]) # Origin(job[j])]
    /\ UNCHANGED <<rdb, store, process, queue, seen, wiping, scan, faults>>

Reject(j) ==
    /\ Delivered(j)
    /\ ~Accepts(j)
    /\ Return(j)
    /\ UNCHANGED <<rdb, store, process, job, seen, wiping, scan, tainted, faults>>

\* Mutant: only a write with a token removes the entry.
BeforeTokenRows(j) ==
    /\ pc[j] = "guarded"
    /\ LET t == job[j].target IN
       /\ entry' = IF job[j].shape = "token" THEN [entry EXCEPT ![t] = None] ELSE entry
       /\ tainted' = [tainted EXCEPT ![t] = @ /\ Writers(t) # {j}]
    /\ pc' = [pc EXCEPT ![j] = "cleared"]
    /\ UNCHANGED <<rdb, rows, process, queue, seen, wiping, scan, faults>>

\* Step 1: remove the entry of the first kind, of a token-less write too.
\* (History: a lone writer starts from a clean target, so an earlier overlap
\* is forgotten.)
BeforeRows(j) ==
    /\ pc[j] = "guarded"
    /\ LET t == job[j].target IN
       /\ entry' = [entry EXCEPT ![t] = None]
       /\ tainted' = [tainted EXCEPT ![t] = @ /\ Writers(t) # {j}]
    /\ pc' = [pc EXCEPT ![j] = "cleared"]
    /\ UNCHANGED <<rdb, rows, process, queue, seen, wiping, scan, faults>>

\* Step 2: replace_kinds_upsert deletes the rows of the kind ...
DeleteRows(j) ==
    /\ pc[j] = "cleared"
    /\ job[j].shape # "items"
    /\ rows' = [t \in Targets |-> IF t \in Replaced(job[j]) THEN NoRows ELSE rows[t]]
    /\ pc' = [pc EXCEPT ![j] = IF ChunksOf(job[j]) = 0 THEN "emptied" ELSE "deleted"]
    /\ UNCHANGED <<rdb, entry, process, queue, seen, wiping, scan, tainted, faults>>

\* ... and, with no records to insert, the entry once more,
ClearEntry(j) ==
    /\ pc[j] = "emptied"
    /\ entry' = [t \in Targets |-> IF t \in Replaced(job[j]) THEN None ELSE entry[t]]
    /\ Return(j)
    /\ UNCHANGED <<rdb, rows, process, job, seen, wiping, scan, tainted, faults>>

\* Mutant: a token-less result goes on to record an entry.
InsertAndRecord(j) ==
    /\ pc[j] = "deleted"
    /\ rows' = [rows EXCEPT ![job[j].target] =
                  [c \in Chunks |-> IF c < ChunksOf(job[j]) THEN Origin(job[j]) ELSE @[c]]]
    /\ pc' = [pc EXCEPT ![j] = "inserted"]
    /\ UNCHANGED <<rdb, entry, process, queue, seen, wiping, scan, tainted, faults>>

\* ... or merges the new rows in by chunk index.  A token-less result has
\* no entry to record and ends here.
InsertRows(j) ==
    /\ \/ pc[j] = "deleted"
       \/ pc[j] = "cleared" /\ job[j].shape = "items"
    /\ LET r == job[j]
           n == IF r.shape = "items" /\ source[r.target] = Deleted THEN 0 ELSE ChunksOf(r)
       IN rows' = [t \in Targets |->
                     IF t \in Replaced(r)
                     THEN [c \in Chunks |-> IF c < n THEN Origin(r) ELSE rows[t][c]]
                     ELSE rows[t]]
    /\ IF job[j].shape = "token"
       THEN pc' = [pc EXCEPT ![j] = "inserted"] /\ UNCHANGED answered
       ELSE Return(j)
    /\ UNCHANGED <<rdb, entry, process, job, seen, wiping, scan, tainted, faults>>

\* Step 3: record the success entry.
AfterRows(j) ==
    /\ pc[j] = "inserted"
    /\ entry' = [entry EXCEPT ![job[j].target] =
                   [space |-> job[j].space, version |-> job[j].version,
                    generation |-> j, outcome |-> "success",
                    chunks |-> ChunksOf(job[j])]]
    /\ Return(j)
    /\ UNCHANGED <<rdb, rows, process, job, seen, wiping, scan, tainted, faults>>

-----------------------------------------------------------------------------
(* Failure callback: report_embedding_failure and record_failure. *)

FailureCheck(j) ==
    /\ Delivered(j)
    /\ job[j].shape = "token"
    /\ Check(job[j])
    /\ pc' = [pc EXCEPT ![j] = "checked"]
    /\ UNCHANGED <<rdb, store, process, queue, seen, wiping, scan, tainted, faults>>

\* target_chunk_indexes: the rows are read before the entry.
FailureReadRows(j) ==
    /\ pc[j] = "checked"
    /\ seen' = [seen EXCEPT ![j] = Present(job[j].target)]
    /\ pc' = [pc EXCEPT ![j] = "counted"]
    /\ UNCHANGED <<rdb, store, process, queue, wiping, scan, tainted, faults>>

\* Read the entry and classify: a completed target and a failure already
\* recorded by this generation are left alone.
FailureClassify(j) ==
    /\ pc[j] = "counted"
    /\ LET e == entry[job[j].target]
           state == Classify(space, job[j].version, e, seen[j])
       IN IF state = "complete" \/ (state = "failed" /\ e.generation = j)
          THEN Return(j)
          ELSE pc' = [pc EXCEPT ![j] = "dropping"] /\ UNCHANGED answered
    /\ seen' = [seen EXCEPT ![j] = {}]
    /\ UNCHANGED <<rdb, store, process, job, wiping, scan, tainted, faults>>

FailureDropEntry(j) ==
    /\ pc[j] = "dropping"
    /\ entry' = [entry EXCEPT ![job[j].target] = None]
    /\ pc' = [pc EXCEPT ![j] = "dropped"]
    /\ UNCHANGED <<rdb, rows, process, queue, seen, wiping, scan, tainted, faults>>

FailureDropRows(j) ==
    /\ pc[j] = "dropped"
    /\ rows' = [rows EXCEPT ![job[j].target] = NoRows]
    /\ pc' = [pc EXCEPT ![j] = "unrowed"]
    /\ UNCHANGED <<rdb, entry, process, queue, seen, wiping, scan, tainted, faults>>

\* replace_kinds_upsert with no records drops the entry again.
FailureDropEntryAgain(j) ==
    /\ pc[j] = "unrowed"
    /\ entry' = [entry EXCEPT ![job[j].target] = None]
    /\ pc' = [pc EXCEPT ![j] = "recording"]
    /\ UNCHANGED <<rdb, rows, process, queue, seen, wiping, scan, tainted, faults>>

FailureRecord(j) ==
    /\ pc[j] = "recording"
    /\ entry' = [entry EXCEPT ![job[j].target] =
                   [space |-> job[j].space, version |-> job[j].version,
                    generation |-> j, outcome |-> "failure", chunks |-> 0]]
    /\ Return(j)
    /\ UNCHANGED <<rdb, rows, process, job, seen, wiping, scan, tainted, faults>>

\* A storage call of the callback fails; the worker gets an error.
CallbackFails(j) ==
    /\ faults < MaxFaults
    /\ pc[j] # "idle"
    /\ pc' = [pc EXCEPT ![j] = "idle"]
    /\ seen' = [seen EXCEPT ![j] = {}]
    /\ faults' = faults + 1
    /\ UNCHANGED <<rdb, store, process, queue, wiping, scan, tainted>>

-----------------------------------------------------------------------------
(* The reconciliation task: one page of the RDB, then the rows, then the     *)
(* entries, each read on its own; then one item after the other.             *)

ScanPage ==
    /\ scan.phase = "idle"
    /\ scan' = [IdleScan EXCEPT !.phase = "paged", !.source = source]
    /\ UNCHANGED <<rdb, store, process, queue, pc, seen, wiping, tainted, faults>>

ScanRows ==
    /\ scan.phase = "paged"
    /\ scan' = [scan EXCEPT !.phase = "counted",
                            !.chunks = [t \in Targets |-> Present(t)]]
    /\ UNCHANGED <<rdb, store, process, queue, pc, seen, wiping, tainted, faults>>

ScanEntries ==
    /\ scan.phase = "counted"
    /\ LET live == {t \in Targets : scan.source[t] \in Versions}
           state(t) == Classify(space, scan.source[t], entry[t], scan.chunks[t])
           dead == Targets \ live
       IN scan' = [IdleScan EXCEPT
                     !.phase = "handling",
                     !.wanted = {t \in live : NeedsDispatch(state(t))},
                     !.orphanRows = {t \in dead : scan.chunks[t] # {}},
                     !.orphanEntries = {t \in dead : scan.chunks[t] = {} /\ entry[t] # None}]
    /\ UNCHANGED <<rdb, store, process, queue, pc, seen, wiping, tainted, faults>>

\* Dispatch from the data the entity has now, which may have changed since.
ScanDispatch(t, j) ==
    /\ scan.phase = "handling"
    /\ t \in scan.wanted
    /\ IF IsTarget(t)
       THEN /\ Fresh(j)
            /\ job' = [job EXCEPT ![j] = Token(t, source[t])]
            /\ answered' = answered \ {j}
       ELSE UNCHANGED queue
    /\ scan' = [scan EXCEPT !.wanted = @ \ {t}]
    /\ UNCHANGED <<rdb, store, process, pc, seen, wiping, tainted, faults>>

ScanOrphanRows(t) ==
    /\ scan.phase = "handling"
    /\ t \in scan.orphanRows
    /\ rows' = [rows EXCEPT ![t] = NoRows]
    /\ scan' = [scan EXCEPT !.orphanRows = @ \ {t}, !.orphanEntries = @ \cup {t}]
    /\ UNCHANGED <<rdb, entry, process, queue, pc, seen, wiping, tainted, faults>>

ScanOrphanEntry(t) ==
    /\ scan.phase = "handling"
    /\ t \in scan.orphanEntries
    /\ entry' = [entry EXCEPT ![t] = None]
    /\ scan' = [scan EXCEPT !.orphanEntries = @ \ {t}]
    /\ UNCHANGED <<rdb, rows, process, queue, pc, seen, wiping, tainted, faults>>

\* A failed item is counted and skipped; a scan error ends the task.
ScanItemFails(t) ==
    /\ faults < MaxFaults
    /\ scan.phase = "handling"
    /\ t \in scan.wanted \cup scan.orphanRows \cup scan.orphanEntries
    /\ scan' = [scan EXCEPT !.wanted = @ \ {t}, !.orphanRows = @ \ {t},
                            !.orphanEntries = @ \ {t}]
    /\ faults' = faults + 1
    /\ UNCHANGED <<rdb, store, process, queue, pc, seen, wiping, tainted>>

ScanFails ==
    /\ faults < MaxFaults
    /\ scan.phase # "idle"
    /\ scan' = IdleScan
    /\ faults' = faults + 1
    /\ UNCHANGED <<rdb, store, process, queue, pc, seen, wiping, tainted>>

ScanEnds ==
    /\ scan.phase = "handling"
    /\ scan.wanted \cup scan.orphanRows \cup scan.orphanEntries = {}
    /\ scan' = IdleScan
    /\ UNCHANGED <<rdb, store, process, queue, pc, seen, wiping, tainted, faults>>

-----------------------------------------------------------------------------
(* The process stops: handlers and tasks end where they are. *)

Stop ==
    /\ pc' = [j \in Jobs |-> "idle"]
    /\ seen' = [j \in Jobs |-> {}]
    /\ wiping' = [t \in Targets |-> "none"]
    /\ scan' = IdleScan

Restart ==
    /\ faults < MaxFaults
    /\ Stop
    /\ faults' = faults + 1
    /\ UNCHANGED <<rdb, store, process, queue, tainted>>

\* `embedding switch` replaces the tables by empty ones of another space,
\* pending for a new attempt, while no writer runs.
SwitchSpace(s, a) ==
    /\ switches < MaxSwitches
    /\ edits + switches < MaxEdits
    /\ attempt = None
    /\ s # space
    /\ \A j \in Jobs : job[j] # None => job[j].attempt # a
    /\ Stop
    /\ space' = s
    /\ attempt' = a
    /\ legacy' = FALSE
    /\ rows' = [t \in Targets |-> NoRows]
    /\ entry' = [t \in Targets |-> None]
    /\ tainted' = [t \in Targets |-> FALSE]
    /\ switches' = switches + 1
    /\ UNCHANGED <<rdb, queue, faults>>

\* A target is settled when nothing is left to do for it.
Settled(t) ==
    IF IsTarget(t) THEN State(t) \in {"complete", "failed"}
    ELSE Present(t) = {} /\ entry[t] = None

\* `embedding finalize` verifies the counts and clears the markers.
FinalizeSwitch ==
    /\ attempt # None
    /\ \A t \in Targets : Settled(t)
    /\ Stop
    /\ attempt' = None
    /\ UNCHANGED <<rdb, store, space, legacy, switches, queue, tainted, faults>>

-----------------------------------------------------------------------------

Edit ==
    \E t \in Targets :
        \/ \E v \in Versions, j \in Jobs : UpdateAndDispatch(t, v, j)
        \/ \E v \in Versions \cup {NotTarget} : UpdateOnly(t, v)
        \/ DetachImage(t)
        \/ DeleteMemory(t)
        \/ \E others \in SUBSET Targets, shape \in LegacyShapes, j \in Jobs :
               LegacyRequest(t, others, shape, j)

Cascade(t) == DeleteVectorRows(t) \/ DeleteVectorEntry(t)

Deliver(j) == Guard(j) \/ Reject(j) \/ FailureCheck(j)

CallbackStep(j) ==
    \/ BeforeRows(j) \/ DeleteRows(j) \/ ClearEntry(j) \/ InsertRows(j) \/ AfterRows(j)
    \/ FailureReadRows(j) \/ FailureClassify(j) \/ FailureDropEntry(j)
    \/ FailureDropRows(j) \/ FailureDropEntryAgain(j) \/ FailureRecord(j)

ScanStep ==
    \/ ScanPage \/ ScanRows \/ ScanEntries \/ ScanEnds
    \/ \E t \in Targets : ScanOrphanRows(t) \/ ScanOrphanEntry(t)
    \/ \E t \in Targets, j \in Jobs : ScanDispatch(t, j)

Fault ==
    \/ \E t \in Targets : CascadeFails(t) \/ ScanItemFails(t)
    \/ \E j \in Jobs : JobLost(j) \/ JobRepeated(j) \/ CallbackFails(j)
    \/ ScanFails
    \/ Restart

Migrate == (\E s \in Spaces, a \in Attempts : SwitchSpace(s, a)) \/ FinalizeSwitch

Next ==
    \/ Edit
    \/ \E t \in Targets : Cascade(t)
    \/ \E j \in Jobs : Deliver(j) \/ CallbackStep(j) \/ JobEnds(j)
    \/ ScanStep
    \/ Fault
    \/ Migrate

Spec == Init /\ [][Next]_vars

\* The server runs its handlers to the end, the job system delivers what it
\* holds, and the reconciliation is run again and again.
Fairness ==
    /\ \A t \in Targets : WF_vars(Cascade(t))
    /\ \A j \in Jobs : WF_vars(Deliver(j)) /\ WF_vars(CallbackStep(j)) /\ WF_vars(JobEnds(j))
    /\ WF_vars(ScanStep)

FairSpec == Spec /\ Fairness

-----------------------------------------------------------------------------
(* Properties. *)

\* The rows of t are exactly those generated from its current input.
Truthful(t) ==
    \A c \in 0 .. entry[t].chunks - 1 :
        /\ rows[t][c].space = space
        /\ rows[t][c].version = source[t]

\* Interrupted at any point (a crash, a failed call, an edit), the index never
\* claims more than the rows: a target classified complete has the rows of its
\* current version, unless writers of different inputs overlapped on it.
CompleteIsTruthful ==
    \A t \in Targets : IsTarget(t) /\ State(t) = "complete" /\ ~tainted[t] => Truthful(t)

\* Results of a previous space or of a previous rebuild attempt never land:
\* the tables hold rows of the current space only, and while a rebuild is
\* pending only rows written for that very attempt.
NoForeignRows ==
    \A t \in Targets : \A c \in Present(t) :
        /\ rows[t][c].space \in {space, Unknown}
        /\ attempt # None => rows[t][c].space = space /\ rows[t][c].attempt = attempt

\* Once edits and faults have stopped, every target comes to rest: complete or
\* failed, or, when it is no target any more, without rows and without entry.
KeepsSettling == []<>(\A t \in Targets : Settled(t))

=============================================================================
