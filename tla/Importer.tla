------------------------------- MODULE Importer -------------------------------
(***************************************************************************)
(* The conversation importer: a command-line client that reads a session   *)
(* (the transcript of an agent, the database of OpenCode, or a vault of    *)
(* plain files) and writes it, in chunks and through several RPCs, into    *)
(* the thread of its channel.                                              *)
(*                                                                         *)
(* Each RPC is one transaction of the server, serialised by the lock on    *)
(* group membership; between two of them anything may happen: the session  *)
(* grows, the operator deletes the thread (with a marker that forbids the  *)
(* re-import or permits it), another run imports the same session, the     *)
(* client stops, or an answer is lost and the client repeats its request.  *)
(* Nothing is kept on the client, so a later run has to complete whatever  *)
(* an earlier one left.                                                    *)
(***************************************************************************)
EXTENDS Naturals, FiniteSets

CONSTANTS
    Runs,         \* runs of the importer that may overlap
    MaxEntries,   \* entries of a session, or versions of the files of a vault
    ChunkSize,    \* most entries of one batch
    Lineages,     \* parent references of a session: of each entry, a set
    FileOf,       \* the file of which an entry of a vault is a version
    MaxChanges,   \* bound on changes of the source
    MaxActs,      \* bound on actions of the operator
    MaxFaults,    \* bound on stopped runs, failed calls and lost answers
    None          \* no thread

Entries == 1 .. MaxEntries

\* Identifiers of threads; one that no run remembers may be used again.
Threads == 1 .. Cardinality(Runs) + 1

ASSUME SizesAssumption ==
    /\ MaxEntries \in Nat \ {0} /\ ChunkSize \in Nat \ {0}
    /\ MaxChanges \in Nat /\ MaxActs \in Nat /\ MaxFaults \in Nat

\* Only the outputs of Codex refer to later entries, to the call they answer.
ASSUME SessionAssumption ==
    /\ IsFiniteSet(Runs) /\ None \notin Threads
    /\ Lineages \subseteq [Entries -> SUBSET Entries]
    /\ \A l \in Lineages, e \in Entries : (\E p \in l[e] : p > e) => Cardinality(l[e]) = 1
    /\ DOMAIN FileOf = Entries

\* "upsert": Claude and Codex; "append": OpenCode; "vault": plain files.
Kinds == {"upsert", "append", "vault"}

Resting == {"idle", "done", "failed", "skipped"}

Steps == Resting \cup {"thread", "lookup", "send", "rewire", "observe", "label",
                       "duplicates", "list", "filter", "prune", "count", "drop"}

Jobs == [entry : Entries, parents : SUBSET Entries]

VARIABLES
    kind,       \* what is imported
    lineage,    \* its parent references
    alone,      \* runs do not overlap
    source,     \* entries the source yields now
    thread,     \* the thread of the channel, or None
    stored,     \* entries with a memory attached to the thread
    parents,    \* parent_ids of the memories
    chosen,     \* history: parents that the operator has set
    labelled,   \* the thread has the labels of the session
    observed,   \* its group observations have been recorded
    marker,     \* the deletion marker of the source identity
    run,        \* progress of each run
    changes, acts, faults

server == <<thread, stored, parents, chosen, labelled, observed, marker>>
session == <<kind, lineage, alone>>
vars == <<kind, lineage, alone, source, thread, stored, parents, chosen, labelled,
          observed, marker, run, changes, acts, faults>>

NoParents == [e \in Entries |-> {}]

\* What a run remembers: the entries it has read (read) and not sent (todo), the
\* thread (target), rewires to do (jobs), entries to look up or memories to prune
\* (left), duplicates without parents (orphans), candidates somebody else has
\* deleted since (dead), whether it has sent or deleted anything (acted) and
\* whether a deletion has failed (error).
Idle == [step |-> "idle", read |-> {}, todo |-> {}, target |-> None, jobs |-> {},
         left |-> {}, orphans |-> {}, dead |-> {}, acted |-> FALSE, error |-> FALSE]

TypeOK ==
    /\ kind \in Kinds /\ lineage \in Lineages /\ alone \in BOOLEAN
    /\ source \subseteq Entries
    /\ thread \in Threads \cup {None}
    /\ thread = None => stored = {} /\ ~labelled /\ ~observed
    /\ stored \subseteq Entries
    /\ parents \in [Entries -> SUBSET Entries] /\ chosen \in [Entries -> SUBSET Entries]
    /\ \A e \in Entries : parents[e] # {} => e \in stored /\ parents[e] \subseteq stored
    /\ labelled \in BOOLEAN /\ observed \in BOOLEAN
    /\ marker \in {"none", "revivable", "forbid"}
    /\ run \in [Runs -> [step : Steps, read : SUBSET Entries, todo : SUBSET Entries,
                         target : Threads \cup {None}, jobs : SUBSET Jobs,
                         left : SUBSET Entries, orphans : SUBSET Entries,
                         dead : SUBSET Entries, acted : BOOLEAN, error : BOOLEAN]]
    /\ changes \in 0 .. MaxChanges /\ acts \in 0 .. MaxActs /\ faults \in 0 .. MaxFaults

Init ==
    /\ kind \in Kinds /\ lineage \in Lineages /\ alone \in BOOLEAN
    /\ kind = "append" => \A e \in Entries : \A p \in lineage[e] : p < e
    /\ kind = "vault" <=> lineage = NoParents
    /\ alone => kind = "vault"
    /\ source = {1}
    /\ thread = None /\ stored = {} /\ parents = NoParents /\ chosen = NoParents
    /\ labelled = FALSE /\ observed = FALSE
    /\ marker = "none"
    /\ run = [r \in Runs |-> Idle]
    /\ changes = 0 /\ acts = 0 /\ faults = 0

-----------------------------------------------------------------------------
(* The client's side of a call. *)

\* The answer arrives and the run goes on as `next`, or it is lost and the
\* client sends the same request again (retry_status).
Reply(r, next) ==
    \/ run' = [run EXCEPT ![r] = next] /\ UNCHANGED faults
    \/ faults < MaxFaults /\ faults' = faults + 1 /\ UNCHANGED run

\* The run goes on without a call.
Go(r, next) == run' = [run EXCEPT ![r] = next] /\ UNCHANGED faults

At(r, step) == run[r].step = step

\* What is kept of a run that has ended, for the properties.
Ended(r, step) == [Idle EXCEPT !.step = step, !.read = run[r].read, !.target = run[r].target]

-----------------------------------------------------------------------------
(* The batch: one transaction of the server. *)

\* The entries of the next request, in the order of the source.
Chunk(r) ==
    {e \in run[r].todo : Cardinality({d \in run[r].todo : d <= e}) <= ChunkSize}

LastChunk(r) == Chunk(r) = run[r].todo

\* Mutant: the gate lets the marker be consumed.
NeverSuppressed == FALSE

\* A forbidding marker of the source identity; a vault has no identity.
Suppressed == kind # "vault" /\ marker = "forbid"

\* Mutant: every chunk upserts the thread by its channel.
AcceptableAnywhere(r) == kind = "append" => Chunk(r) \cap stored = {}

\* The target of a later chunk is the thread of the first one; without
\* upsert_by_external_id a memory that exists already is an error.
Acceptable(r) ==
    /\ run[r].target # None => run[r].target = thread
    /\ kind = "append" => Chunk(r) \cap stored = {}

\* The thread that the batch writes to: its target, the one of the channel,
\* or a new one.
Fresh == {t \in Threads : \A r \in Runs : run[r].target # t}

Targets ==
    IF thread # None THEN {thread} ELSE {t \in Fresh : \A u \in Fresh : t <= u}

\* Parents of a memory that exists: those that are attached to the thread or
\* come earlier in the batch.
Resolved(e, batch) == lineage[e] \cap (stored \cup {d \in batch : d < e})

\* Mutant: references out of the batch and the thread are not dropped.
UncheckedParents(e, batch) == lineage[e]

\* Parents of a memory that the batch creates: also those that come later.
ParentsOfNew(e, batch) == lineage[e] \cap (stored \cup batch)

\* What is left to the client: existing memories without parents.
Outcomes(batch) ==
    {j \in [entry : batch \cap stored, parents : SUBSET (stored \cup batch)] :
        /\ parents[j.entry] = {}
        /\ j.parents = Resolved(j.entry, batch)
        /\ j.parents # {}}

Write(r, t) ==
    LET batch == Chunk(r) IN
    /\ thread' = t
    /\ stored' = stored \cup batch
    /\ parents' = [e \in Entries |->
         IF e \in batch \ stored THEN ParentsOfNew(e, batch) ELSE parents[e]]
    /\ labelled' = (labelled \/ LastChunk(r) \/ (kind = "append" /\ run[r].target = None))
    /\ marker' = IF kind = "vault" THEN marker ELSE "none"
    /\ Reply(r, [run[r] EXCEPT !.step = "rewire", !.target = t, !.acted = TRUE,
                               !.todo = @ \ batch, !.jobs = Outcomes(batch)])
    /\ UNCHANGED <<chosen, observed>>

AddMemoriesBatch(r) ==
    /\ At(r, "send")
    /\ \/ Suppressed /\ Reply(r, Ended(r, "skipped")) /\ UNCHANGED server
       \/ ~Suppressed /\ ~Acceptable(r) /\ Reply(r, Ended(r, "failed")) /\ UNCHANGED server
       \/ ~Suppressed /\ Acceptable(r) /\ \E t \in Targets : Write(r, t)
    /\ UNCHANGED <<session, source, changes, acts>>

-----------------------------------------------------------------------------
(* Rewiring: parents for memories that had none when the batch, or the       *)
(* lookup of duplicates, saw them.                                           *)

\* Mutant: the call forces its parents.
RewirableAlways(j) == parents[j.entry] # j.parents

\* The server's guard: parents that are there by now are kept.
Rewirable(j) == parents[j.entry] = {}

UpdateMemoryParents(r) ==
    /\ run[r].step \in {"rewire", "duplicates"}
    /\ \E j \in run[r].jobs :
         IF run[r].target # thread
         THEN Reply(r, Ended(r, "failed")) /\ UNCHANGED parents
         ELSE /\ parents' = IF Rewirable(j)
                            THEN [parents EXCEPT ![j.entry] = j.parents \cap stored]
                            ELSE parents
              /\ Reply(r, [run[r] EXCEPT !.jobs = @ \ {j}])
    /\ UNCHANGED <<session, source, thread, stored, chosen, labelled, observed, marker,
                   changes, acts>>

\* After the rewire pass: the next chunk, the observations of a session with
\* an identity, or the end of the import of a vault.
Rewired(r) ==
    /\ At(r, "rewire")
    /\ run[r].jobs = {}
    /\ Go(r, [run[r] EXCEPT !.step = IF run[r].todo # {} THEN "send"
                                     ELSE IF kind = "vault" THEN "list" ELSE "observe"])
    /\ UNCHANGED <<session, source, server, changes, acts>>

-----------------------------------------------------------------------------
(* After the last chunk. *)

\* The thread must be there, without a marker.  An append without new entries
\* goes on with the labels, another one with its duplicates.
RecordObservations(r) ==
    /\ At(r, "observe")
    /\ IF run[r].target = thread /\ marker = "none"
       THEN /\ observed' = TRUE
            /\ Reply(r, IF kind # "append" THEN Ended(r, "done")
                        ELSE [run[r] EXCEPT !.step =
                                IF run[r].acted THEN "duplicates" ELSE "label"])
       ELSE Reply(r, Ended(r, "failed")) /\ UNCHANGED observed
    /\ UNCHANGED <<session, source, thread, stored, parents, chosen, labelled, marker,
                   changes, acts>>

AddLabels(r) ==
    /\ At(r, "label")
    /\ IF run[r].target = thread
       THEN labelled' = TRUE /\ Reply(r, [run[r] EXCEPT !.step = "duplicates"])
       ELSE Reply(r, Ended(r, "failed")) /\ UNCHANGED labelled
    /\ UNCHANGED <<session, source, thread, stored, parents, chosen, observed, marker,
                   changes, acts>>

\* The parents of the next duplicate that had none are looked up.
LookupParents(r) ==
    /\ At(r, "duplicates")
    /\ run[r].jobs = {}
    /\ \E e \in run[r].orphans :
         /\ \A d \in run[r].orphans : e <= d
         /\ LET ps == IF run[r].target = thread THEN lineage[e] \cap stored ELSE {} IN
            Reply(r, [run[r] EXCEPT !.orphans = @ \ {e},
                                    !.jobs = IF ps = {} THEN {}
                                             ELSE {[entry |-> e, parents |-> ps]}])
    /\ UNCHANGED <<session, source, server, changes, acts>>

RewiredDuplicates(r) ==
    /\ At(r, "duplicates")
    /\ run[r].jobs = {} /\ run[r].orphans = {}
    /\ Go(r, Ended(r, "done"))
    /\ UNCHANGED <<session, source, server, changes, acts>>

-----------------------------------------------------------------------------
(* Before the first chunk. *)

\* A run reads the source.  OpenCode also takes a snapshot of the threads,
\* which may fail.  A vault without files goes straight to the prune.
Start(r) ==
    /\ run[r].step \in Resting
    /\ alone => \A o \in Runs : run[o].step \in Resting
    /\ source # {} \/ kind = "vault"
    /\ \E snapshot \in IF kind = "append" THEN {thread, None} ELSE {None} :
         Go(r, [Idle EXCEPT
                  !.step = IF kind = "append" THEN "thread"
                           ELSE IF source = {} THEN "list" ELSE "send",
                  !.read = source, !.target = snapshot,
                  !.left = IF kind = "append" THEN source ELSE {},
                  !.todo = IF kind = "append" THEN {} ELSE source])
    /\ UNCHANGED <<session, source, server, changes, acts>>

\* A thread that the snapshot does not know is looked up by its channel.
FindThread(r) ==
    /\ At(r, "thread")
    /\ IF run[r].target # None
       THEN Go(r, [run[r] EXCEPT !.step = "lookup"])
       ELSE Reply(r, [run[r] EXCEPT !.step = "lookup", !.target = thread])
    /\ UNCHANGED <<session, source, server, changes, acts>>

\* The entries are looked up one by one; a memory that is not in the thread
\* the run has found, or found none, is an error.
LookupMemory(r) ==
    /\ At(r, "lookup")
    /\ \E e \in run[r].left :
         /\ \A d \in run[r].left : e <= d
         /\ LET rest == [run[r] EXCEPT !.left = @ \ {e}] IN
            Reply(r,
              IF e \notin stored THEN [rest EXCEPT !.todo = @ \cup {e}]
              ELSE IF run[r].target # thread THEN Ended(r, "failed")
              ELSE IF parents[e] = {} THEN [rest EXCEPT !.orphans = @ \cup {e}]
              ELSE rest)
    /\ UNCHANGED <<session, source, server, changes, acts>>

LookedUp(r) ==
    /\ At(r, "lookup")
    /\ run[r].left = {}
    /\ Go(r, [run[r] EXCEPT !.step = IF run[r].todo = {} THEN "observe" ELSE "send"])
    /\ UNCHANGED <<session, source, server, changes, acts>>

-----------------------------------------------------------------------------
(* Deletions.  A prune deletes memories by the identifiers it has listed, so  *)
(* it does not touch a memory that was deleted and imported again since.      *)

Without(runs, es) ==
    [r \in Runs |->
        IF runs[r].step \in {"filter", "prune"}
        THEN [runs[r] EXCEPT !.left = @ \ es, !.dead = @ \cup (runs[r].left \cap es)]
        ELSE runs[r]]

\* The thread goes with its memories, labels and membership.
DeleteThread ==
    /\ thread' = None /\ stored' = {} /\ parents' = NoParents /\ chosen' = NoParents
    /\ labelled' = FALSE /\ observed' = FALSE

Files(es) == {FileOf[e] : e \in es}

\* The memories of the vault that the run has not read.
ListMemories(r) ==
    /\ At(r, "list")
    /\ Reply(r, [run[r] EXCEPT !.step = "filter", !.left = stored \ run[r].read,
                               !.target = thread])
    /\ UNCHANGED <<session, source, server, changes, acts>>

\* Mutant: a file that exists protects its old versions.
StaleIfGone(r, es) == {e \in es : FileOf[e] \notin Files(source)}

Stale(r, es) ==
    {e \in es : FileOf[e] \in Files(run[r].read) \/ FileOf[e] \notin Files(source)}

\* Candidates are old versions of files the run has read, and files that do
\* not exist any more.
FilterCandidates(r) ==
    /\ At(r, "filter")
    /\ LET left == Stale(r, run[r].left)
           dead == Stale(r, run[r].dead)
       IN Go(r, IF left \cup dead = {} THEN Ended(r, "done")
                ELSE [run[r] EXCEPT !.step = "prune", !.left = left, !.dead = dead])
    /\ UNCHANGED <<session, source, server, changes, acts>>

\* A call that fails, before or after it had its effect, is counted.
DeleteMemory(r) ==
    /\ At(r, "prune")
    /\ \E e \in run[r].left \cup run[r].dead, fails \in BOOLEAN, effect \in BOOLEAN :
         /\ effect \/ fails
         /\ fails => faults < MaxFaults
         /\ faults' = IF fails THEN faults + 1 ELSE faults
         /\ LET own == run[r].left \cap {e}
                next == [run[r] EXCEPT !.left = @ \ {e}, !.dead = @ \ {e},
                                       !.acted = @ \/ ~fails, !.error = @ \/ fails]
            IN IF effect
               THEN /\ stored' = stored \ own
                    /\ run' = Without([run EXCEPT ![r] = next], own)
               ELSE run' = [run EXCEPT ![r] = next] /\ UNCHANGED stored
    /\ UNCHANGED <<session, source, thread, parents, chosen, labelled, observed, marker,
                   changes, acts>>

\* The thread of a deleted memory is counted, and deleted if it is empty.
CountMemories(r) ==
    /\ At(r, "prune")
    /\ run[r].left \cup run[r].dead = {}
    /\ Go(r, IF run[r].acted /\ (run[r].target = thread => stored = {})
             THEN [run[r] EXCEPT !.step = "drop"]
             ELSE Ended(r, IF run[r].error THEN "failed" ELSE "done"))
    /\ UNCHANGED <<session, source, server, changes, acts>>

DropThread(r) ==
    /\ At(r, "drop")
    /\ LET ended == [run EXCEPT ![r] = Ended(r, IF run[r].error THEN "failed" ELSE "done")] IN
       IF run[r].target = thread
       THEN DeleteThread /\ run' = Without(ended, stored)
       ELSE UNCHANGED <<thread, stored, parents, chosen, labelled, observed>> /\ run' = ended
    /\ UNCHANGED <<session, source, marker, changes, acts, faults>>

-----------------------------------------------------------------------------
(* What happens around the runs. *)

\* The transcript grows, or a file of the vault is written, edited or removed.
SourceChanges ==
    /\ changes < MaxChanges
    /\ IF kind = "vault"
       THEN \E e \in Entries :
              \/ e \notin source /\ source' = {d \in source : FileOf[d] # FileOf[e]} \cup {e}
              \/ e \in source /\ source' = source \ {e}
       ELSE \E e \in Entries \ source : (\A d \in Entries \ source : e <= d)
                                        /\ source' = source \cup {e}
    /\ changes' = changes + 1
    /\ UNCHANGED <<session, server, run, acts, faults>>

\* DeleteWithPolicy leaves a marker for the source identity.
OperatorDeletes(forbid) ==
    /\ acts < MaxActs
    /\ thread # None
    /\ DeleteThread
    /\ marker' = IF kind = "vault" THEN "none" ELSE IF forbid THEN "forbid" ELSE "revivable"
    /\ run' = Without(run, stored)
    /\ acts' = acts + 1
    /\ UNCHANGED <<session, source, changes, faults>>

\* UpdateMemoryParents with the force flags.
OperatorSetsParents(e, ps) ==
    /\ acts < MaxActs
    /\ kind # "vault"
    /\ e \in stored /\ ps \subseteq stored \ {e} /\ ps # {}
    /\ parents' = [parents EXCEPT ![e] = ps]
    /\ chosen' = [chosen EXCEPT ![e] = ps]
    /\ acts' = acts + 1
    /\ UNCHANGED <<session, source, thread, stored, labelled, observed, marker, run,
                   changes, faults>>

\* The prune asks the operator first.
OperatorDeclines(r) ==
    /\ acts < MaxActs
    /\ At(r, "prune")
    /\ ~run[r].acted /\ ~run[r].error
    /\ run' = [run EXCEPT ![r] = Ended(r, "done")]
    /\ acts' = acts + 1
    /\ UNCHANGED <<session, source, server, changes, faults>>

\* The client stops, or a call fails for good.
Breaks(r) ==
    /\ faults < MaxFaults
    /\ run[r].step \notin Resting
    /\ run' = [run EXCEPT ![r] = Ended(r, "failed")]
    /\ faults' = faults + 1
    /\ UNCHANGED <<session, source, server, changes, acts>>

-----------------------------------------------------------------------------

Step(r) ==
    \/ Start(r) \/ FindThread(r) \/ LookupMemory(r) \/ LookedUp(r)
    \/ AddMemoriesBatch(r) \/ UpdateMemoryParents(r) \/ Rewired(r)
    \/ RecordObservations(r) \/ AddLabels(r) \/ LookupParents(r) \/ RewiredDuplicates(r)
    \/ ListMemories(r) \/ FilterCandidates(r) \/ DeleteMemory(r) \/ CountMemories(r)
    \/ DropThread(r)

Next ==
    \/ \E r \in Runs : Step(r) \/ Breaks(r) \/ OperatorDeclines(r)
    \/ SourceChanges
    \/ \E forbid \in BOOLEAN : OperatorDeletes(forbid)
    \/ \E e \in Entries, ps \in SUBSET Entries : OperatorSetsParents(e, ps)

Spec == Init /\ [][Next]_vars

\* The importer is run again and again (by hand, a timer or a hook), and a run
\* that is not stopped comes to its end.
FairSpec == Spec /\ \A r \in Runs : WF_vars(Step(r))

-----------------------------------------------------------------------------
(* Properties. *)

\* Everything a run has read is in the thread, with labels, observations and
\* the parents that come earlier in the source.
Whole(r) ==
    /\ run[r].read \subseteq stored
    /\ run[r].read # {} => labelled
    /\ kind # "vault" => observed
    /\ \A e \in run[r].read :
         chosen[e] = {} => {p \in lineage[e] : p < e} \subseteq parents[e]

\* A run that ends without an error has left the whole session in the thread
\* it has written to, if that is still there, whatever other runs, failed runs,
\* deletions and repeated requests did in between.  A vault is only safe from
\* the prunes of other runs if there are none.
SuccessMeansWhole ==
    [][\A r \in Runs :
         /\ run[r].step # "done" /\ run'[r].step = "done"
         /\ thread' # None /\ thread' = run'[r].target
         /\ kind = "vault" => alone
         => Whole(r)']_vars

\* A deletion with forbid_reimport holds: no run, not one in the middle of its
\* chunks and no repeated request, brings the thread back; a marker of either
\* kind goes only when an import has put a thread in its place.
DeletionHolds ==
    [][/\ marker = "forbid" => marker' = "forbid" /\ thread' = None
       /\ marker # "none" => thread = None
       /\ marker # "none" /\ marker' = "none" => thread' # None /\ stored' # {}]_vars

\* Parents that the operator has set stay as long as the memory: the rewire of
\* a run that saw the memory without parents does not replace them.
ChosenParentsStay ==
    \A e \in Entries : chosen[e] # {} => e \in stored /\ parents[e] = chosen[e]

\* Once the source, the operator and the faults leave it alone, repeated runs
\* complete the session: all of it is stored with its labels, observations and
\* parents, or its re-import is forbidden, and of a vault nothing else is left.
Complete ==
    \/ marker = "forbid"
    \/ /\ IF kind = "vault" THEN stored = source ELSE source \subseteq stored
       /\ source # {} => labelled
       /\ kind # "vault" => observed
       /\ \A e \in source : chosen[e] = {} => lineage[e] \cap source \subseteq parents[e]

Converges == <>[]Complete

=============================================================================
