-------------------------- MODULE SearchMaintenance --------------------------
(***************************************************************************)
(* The coordinator of the maintenance of the search indexes                *)
(* (infra/src/infra/search_index_maintenance.rs) with the executor over    *)
(* the LanceDB tables (search_index_maintenance/repository_executor.rs).   *)
(*                                                                         *)
(* Operators start checks, builds and optimizations by request; a cron job *)
(* asks for a reconciliation, which looks at one target after the other    *)
(* and starts at most one change.  A change runs in a task of its own and  *)
(* holds the only permit until its outcome is recorded.  The state is      *)
(* behind a mutex, but a reconciliation gives it up between its steps, and *)
(* it is itself the handler of a request: a client that goes away drops it *)
(* wherever it is waiting.                                                 *)
(***************************************************************************)
EXTENDS Naturals, Sequences, FiniteSets

CONSTANTS
    Order,         \* the targets, in the order of the scan
    TableOf,       \* physical_table
    Vectors,       \* components whose index needs a number of rows
    Forced,        \* components rebuilt every time (..._FTS_FORCE_REBUILD)
    Asked,         \* sets of optimizations an operator asks for
    Intervals,     \* optimizations configured to be done at intervals
    None,
    MaxRequests,   \* bound: requests of operators
    MaxFaults,     \* bound: errors, panics and deadlines that pass
    MaxChanges,    \* bound: intervals that pass, and writes that leave many
                   \* rows outside the indexes
    MaxDrops       \* bound: reconciliations whose client goes away

Targets == {Order[i] : i \in DOMAIN Order}
IsComponent(t) == TableOf[t] # t
Components == {t \in Targets : IsComponent(t)}
Tables == Targets \ Components

ASSUME ConstantsAssumption ==
    /\ Order \in Seq(Targets) /\ Order # <<>>
    /\ TableOf \in [Targets -> Targets]
    /\ \A t \in Targets : TableOf[t] \in Tables
    /\ Vectors \subseteq Components /\ Forced \subseteq Components \ Vectors
    /\ Asked \subseteq (SUBSET {"compact", "index", "prune"}) \ {{}}
    /\ Intervals \subseteq {"compact", "index", "prune"}
    /\ MaxRequests \in Nat /\ MaxFaults \in Nat /\ MaxChanges \in Nat /\ MaxDrops \in Nat

VARIABLES
    index,        \* the index of each component in LanceDB
    unindexed,    \* the tables with many rows outside their indexes
    due,          \* the optimizations of each table whose interval is over
    running,      \* the tasks of the coordinator
    permit,       \* whether the permit for a change is free
    candidate,    \* what is recorded of each target's last change
    reconcile_running, reconcile_cursor,
    internal_checks,
                  \* the tables a reconciliation is looking at
    scan,         \* the reconciliation in progress
    requests, faults, changes, drops

vars == <<index, unindexed, due, running, permit, candidate, reconcile_running,
          reconcile_cursor, internal_checks, scan, requests, faults, changes, drops>>

lance == <<index, unindexed>>
flags == <<reconcile_running, reconcile_cursor>>
budget == <<requests, faults, changes, drops>>

-----------------------------------------------------------------------------
(* Data.                                                                   *)

\* "deferred": a vector index that LanceDB cannot train on so few rows yet.
IndexStates == {"missing", "deferred", "present"}

OptimizeActions == {"compact", "index", "prune"}

\* normalize_optimize_actions: a compaction is followed by an index update.
Normalized(actions) ==
    actions \union (IF "compact" \in actions THEN {"index"} ELSE {})

\* Backoff passes by itself; "barred" (non_retryable) only with a success.
CandidateStates == {"ready", "backoff", "barred"}

Task(t, action, force, actions) ==
    [target |-> t, action |-> action, force |-> force, actions |-> actions,
     status |-> "running"]

Outcomes == {"succeeded", "skipped", "deferred", "retryable", "fatal"}

Tasks ==
    [target : Targets, action : {"check", "build", "optimize"}, force : BOOLEAN,
     actions : SUBSET OptimizeActions, status : Outcomes \union {"running"}]

IsChange(task) == task.action # "check"

\* A scan: its step, where it began, how far it is, what it saw of the target.
NoScan == [step |-> "none", start |-> 0, offset |-> 0, actions |-> {},
           late |-> FALSE, winner |-> None]

Steps == {"none", "due", "candidate", "check", "checking", "eligible", "start", "end"}

Scans == [step : Steps, start : 0..Len(Order) - 1, offset : 0..Len(Order) - 1,
          actions : SUBSET OptimizeActions, late : BOOLEAN,
          winner : Targets \union {None}]

TargetAt(i) == Order[(i % Len(Order)) + 1]

Position(t) == CHOOSE i \in 0..Len(Order) - 1 : TargetAt(i) = t

\* The target a scan is at.
Here == TargetAt(scan.start + scan.offset)

FirstStep(t) == IF IsComponent(t) THEN "candidate" ELSE "due"

Init ==
    /\ index \in [Components -> IndexStates]
    /\ \A c \in Components \ Vectors : index[c] # "deferred"
    /\ unindexed = {}
    /\ due = [t \in Tables |-> {}]
    /\ running = {}
    /\ permit = TRUE
    /\ candidate = [t \in Targets |-> "ready"]
    /\ reconcile_running = FALSE /\ reconcile_cursor = 0
    /\ internal_checks = {}
    /\ scan = NoScan
    /\ requests = 0 /\ faults = 0 /\ changes = 0 /\ drops = 0

-----------------------------------------------------------------------------
(* Tasks.                                                                  *)

\* Mutant: only tasks on the same table are in the way of a change.
PermittedPerTable(task) ==
    ~ \E r \in running : /\ TableOf[r.target] = TableOf[task.target]
                         /\ IsChange(r) = IsChange(task)

\* start: no check, or no change, runs on the same table, and a change finds
\* the permit.
Permitted(task) ==
    /\ ~ \E r \in running : /\ TableOf[r.target] = TableOf[task.target]
                            /\ IsChange(r) = IsChange(task)
    /\ IsChange(task) => permit

Begin(task) ==
    /\ running' = running \union {task}
    /\ permit' = (permit /\ ~IsChange(task))

\* What start accepts of the API: a build is of a component, an optimization
\* of a table and names its actions; validate_request.
Requests ==
    {task \in Tasks :
       /\ task.status = "running"
       /\ CASE task.action = "check"    -> ~task.force /\ task.actions = {}
            [] task.action = "build"    -> IsComponent(task.target) /\ task.actions = {}
            [] task.action = "optimize" -> /\ ~IsComponent(task.target) /\ ~task.force
                                           /\ task.actions \in {Normalized(a) : a \in Asked}}

\* start_search_index_maintenance; a request that is not permitted is answered
\* with the tasks in its way.
Request(task) ==
    /\ requests < MaxRequests /\ requests' = requests + 1
    /\ Permitted(task)
    /\ Begin(task)
    /\ UNCHANGED <<lance, due, candidate, flags, internal_checks, scan, faults, changes, drops>>

Finished(task, status) ==
    running' = (running \ {task}) \union {[task EXCEPT !.status = status]}

\* The executor's check, or its deadline, answers.
RunCheck(task) ==
    /\ task.status = "running" /\ task.action = "check"
    /\ Finished(task, "succeeded")
    /\ UNCHANGED <<lance, due, permit, candidate, flags, internal_checks, scan, budget>>

\* build: the index is looked at again before it is built.
RunBuild(task) ==
    /\ task.status = "running" /\ task.action = "build"
    /\ LET t == task.target
           skip == index[t] = "present" /\ ~task.force /\ t \notin Forced IN
       IF skip \/ index[t] = "deferred"
       THEN /\ Finished(task, IF skip THEN "skipped" ELSE "deferred")
            /\ UNCHANGED index
       ELSE /\ index' = [index EXCEPT ![t] = "present"]
            /\ Finished(task, "succeeded")
    /\ UNCHANGED <<unindexed, due, permit, candidate, flags, internal_checks, scan, budget>>

\* optimize, all of its actions.
RunOptimize(task) ==
    /\ task.status = "running" /\ task.action = "optimize"
    /\ unindexed' = IF "index" \in task.actions
                    THEN unindexed \ {task.target} ELSE unindexed
    /\ Finished(task, "succeeded")
    /\ UNCHANGED <<index, due, permit, candidate, flags, internal_checks, scan, budget>>

\* An error, which its text makes retryable or not, or a panic; of several
\* optimizations some may have been done.
RunFails(task) ==
    /\ task.status = "running"
    /\ faults < MaxFaults /\ faults' = faults + 1
    /\ \E status \in {"retryable", "fatal"} : Finished(task, status)
    /\ unindexed' \in {unindexed} \union
         {unindexed \ {task.target} : a \in task.actions \intersect {"index"}}
    /\ UNCHANGED <<index, due, permit, candidate, flags, internal_checks, scan,
                   requests, changes, drops>>

\* What the record of a target becomes; a task that was skipped or deferred
\* says nothing.
Judged(state, status) ==
    CASE status = "succeeded"                       -> "ready"
      [] status = "retryable" /\ state # "barred"   -> "backoff"
      [] status = "fatal"                           -> "barred"
      [] OTHER                                      -> state

\* Under the lock: the task leaves `running', its outcome is recorded for its
\* target, what it did is no longer due, and the permit is given back.
Record(task) ==
    /\ task.status # "running"
    /\ running' = running \ {task}
    /\ permit' = (permit \/ IsChange(task))
    /\ candidate' = [candidate EXCEPT ![task.target] = Judged(@, task.status)]
    /\ due' = IF task.action = "optimize" /\ task.status = "succeeded"
              THEN [due EXCEPT ![task.target] = @ \ task.actions] ELSE due
    /\ UNCHANGED <<lance, flags, internal_checks, scan, budget>>

-----------------------------------------------------------------------------
(* reconcile_once.  A second reconciliation meanwhile is turned away.      *)

StartReconcile ==
    /\ ~reconcile_running
    /\ reconcile_running' = TRUE
    /\ scan' = [NoScan EXCEPT !.step = FirstStep(TargetAt(reconcile_cursor)),
                              !.start = reconcile_cursor]
    /\ UNCHANGED <<lance, due, running, permit, candidate, reconcile_cursor,
                   internal_checks, budget>>

\* Mutant: the scan runs one target too far.
OnwardPast(late) ==
    IF scan.offset = Len(Order)
    THEN [scan EXCEPT !.step = "end"]
    ELSE [scan EXCEPT !.step = FirstStep(TargetAt(scan.start + scan.offset + 1)),
                      !.offset = @ + 1, !.actions = {}, !.late = late]

\* The scan at the next target, or at its end.
Onward(late) ==
    IF scan.offset = Len(Order) - 1
    THEN [scan EXCEPT !.step = "end"]
    ELSE [scan EXCEPT !.step = FirstStep(TargetAt(scan.start + scan.offset + 1)),
                      !.offset = @ + 1, !.actions = {}, !.late = late]

Skip == Onward(scan.late)

At(step) == [scan EXCEPT !.step = step]

\* due_optimize_actions.
ReadDue ==
    /\ scan.step = "due"
    /\ scan' = [At("candidate") EXCEPT !.actions = Normalized(due[Here])]
    /\ UNCHANGED <<lance, due, running, permit, candidate, flags, internal_checks, budget>>

\* candidate_skip_reason, and what is left to do once the deadline has passed.
ReadCandidate ==
    /\ scan.step = "candidate"
    /\ scan' = IF candidate[Here] # "ready" THEN Skip
               ELSE IF ~scan.late THEN At("check")
               ELSE IF scan.actions # {} THEN At("start")
               ELSE At("end")
    /\ UNCHANGED <<lance, due, running, permit, candidate, flags, internal_checks, budget>>

\* reconcile_check: a public check of the table goes first.
BeginCheck ==
    /\ scan.step = "check"
    /\ IF \/ TableOf[Here] \in internal_checks
          \/ \E r \in running : ~IsChange(r) /\ TableOf[r.target] = TableOf[Here]
       THEN scan' = Skip /\ UNCHANGED internal_checks
       ELSE /\ internal_checks' = internal_checks \union {TableOf[Here]}
            /\ scan' = At("checking")
    /\ UNCHANGED <<lance, due, running, permit, candidate, flags, budget>>

\* table_index_row_threshold_due: many rows outside an index there is.
Seen(t) ==
    IF /\ t \in unindexed
       /\ \E c \in Components : TableOf[c] = t /\ index[c] = "present"
    THEN {"index"} ELSE {}

CheckAnswers ==
    /\ scan.step = "checking"
    /\ internal_checks' = internal_checks \ {TableOf[Here]}
    /\ LET wanted == scan.actions \union Seen(Here) IN
       scan' = CASE IsComponent(Here) /\ (index[Here] # "present" \/ Here \in Forced)
                                                         -> At("eligible")
                 [] ~IsComponent(Here) /\ wanted # {}    ->
                      [At("start") EXCEPT !.actions = wanted]
                 [] OTHER                                -> Skip
    /\ UNCHANGED <<lance, due, running, permit, candidate, flags, budget>>

\* Where a scan goes on that could not see the target: to what is to be done
\* whatever there is to see.  Only a check cut off by the deadline leaves the
\* forced build of a component; an error does not.
Unseen(late) ==
    CASE IsComponent(Here) /\ Here \in Forced /\ late -> [At("eligible") EXCEPT !.late = TRUE]
      [] ~IsComponent(Here) /\ scan.actions # {}      ->
           [At("start") EXCEPT !.late = @ \/ late]
      [] OTHER                                        -> Onward(scan.late \/ late)

\* The check fails, or the deadline of the reconciliation cuts it off.
CheckFails(late) ==
    /\ scan.step = "checking"
    /\ faults < MaxFaults /\ faults' = faults + 1
    /\ internal_checks' = internal_checks \ {TableOf[Here]}
    /\ scan' = Unseen(late)
    /\ UNCHANGED <<lance, due, running, permit, candidate, flags, requests, changes, drops>>

\* build_eligibility.
ReadEligibility ==
    /\ scan.step = "eligible"
    /\ scan' = IF index[Here] = "deferred" THEN Skip ELSE At("start")
    /\ UNCHANGED <<lance, due, running, permit, candidate, flags, internal_checks, budget>>

\* start_reconcile_candidate: a candidate that is blocked ends the scan, too.
StartCandidate ==
    /\ scan.step = "start"
    /\ LET task == IF IsComponent(Here) THEN Task(Here, "build", Here \in Forced, {})
                   ELSE Task(Here, "optimize", FALSE, Normalized(scan.actions)) IN
       IF Permitted(task)
       THEN Begin(task) /\ scan' = [At("end") EXCEPT !.winner = Here]
       ELSE scan' = At("end") /\ UNCHANGED <<running, permit>>
    /\ UNCHANGED <<lance, due, candidate, flags, internal_checks, budget>>

\* The next scan begins after the target that won this one.
NextStart ==
    ((IF scan.winner # None THEN Position(scan.winner) ELSE scan.start) + 1) % Len(Order)

\* Mutant: an end without a started task leaves the flag.
EndIfStarted ==
    /\ scan.step = "end"
    /\ reconcile_cursor' = NextStart
    /\ reconcile_running' = (scan.winner = None)
    /\ scan' = NoScan
    /\ UNCHANGED <<lance, due, running, permit, candidate, internal_checks, budget>>

\* However the scan ended: the cursor moves on and the flag is taken back.
EndReconcile ==
    /\ scan.step = "end"
    /\ reconcile_cursor' = NextStart
    /\ reconcile_running' = FALSE
    /\ scan' = NoScan
    /\ UNCHANGED <<lance, due, running, permit, candidate, internal_checks, budget>>

\* The client of the reconciliation goes away and the handler is dropped
\* where it waits; what it noted in the coordinator stays.
Drop ==
    /\ scan.step # "none"
    /\ drops < MaxDrops /\ drops' = drops + 1
    /\ scan' = NoScan
    /\ UNCHANGED <<lance, due, running, permit, candidate, flags, internal_checks,
                   requests, faults, changes>>

\* The deadline passes between two checks.
DeadlinePasses ==
    /\ scan.step \in {"due", "candidate"} /\ ~scan.late
    /\ faults < MaxFaults /\ faults' = faults + 1
    /\ scan' = [scan EXCEPT !.late = TRUE]
    /\ UNCHANGED <<lance, due, running, permit, candidate, flags, internal_checks,
                   requests, changes, drops>>

-----------------------------------------------------------------------------
(* Time and the writers of the tables.                                     *)

Changed == changes < MaxChanges /\ changes' = changes + 1

IntervalPasses(t, action) ==
    /\ Changed
    /\ due' = [due EXCEPT ![t] = @ \union {action}]
    /\ UNCHANGED <<lance, running, permit, candidate, flags, internal_checks, scan,
                   requests, faults, drops>>

RowsWritten(t) ==
    /\ Changed
    /\ unindexed' = unindexed \union {t}
    /\ index' = [c \in Components |->
                   IF TableOf[c] = t /\ index[c] = "deferred" THEN "missing" ELSE index[c]]
    /\ UNCHANGED <<due, running, permit, candidate, flags, internal_checks, scan,
                   requests, faults, drops>>

BackoffPasses(t) ==
    /\ candidate[t] = "backoff"
    /\ candidate' = [candidate EXCEPT ![t] = "ready"]
    /\ UNCHANGED <<lance, due, running, permit, flags, internal_checks, scan, budget>>

Environment ==
    \/ \E t \in Tables : RowsWritten(t) \/ \E a \in Intervals : IntervalPasses(t, a)
    \/ DeadlinePasses \/ Drop

ScanStep ==
    \/ ReadDue \/ ReadCandidate \/ BeginCheck \/ CheckAnswers
    \/ \E late \in BOOLEAN : CheckFails(late)
    \/ ReadEligibility \/ StartCandidate \/ EndReconcile

TaskStep(task) ==
    RunCheck(task) \/ RunBuild(task) \/ RunOptimize(task) \/ RunFails(task) \/ Record(task)

Next ==
    \/ \E task \in Requests : Request(task)
    \/ \E task \in running : TaskStep(task)
    \/ StartReconcile \/ ScanStep
    \/ \E t \in Targets : BackoffPasses(t)
    \/ Environment

Spec == Init /\ [][Next]_vars

\* Tasks and reconciliations go on, backoffs pass, and the cron job asks for
\* a reconciliation again and again.
FairSpec ==
    /\ Spec
    /\ WF_vars(StartReconcile) /\ WF_vars(ScanStep)
    /\ WF_vars(\E task \in running : TaskStep(task))
    /\ \A t \in Targets : WF_vars(BackoffPasses(t))

-----------------------------------------------------------------------------
(* Properties.                                                             *)

\* Every variable has its type; deferred is only what needs rows.
TypeOK ==
    /\ index \in [Components -> IndexStates]
    /\ \A c \in Components \ Vectors : index[c] # "deferred"
    /\ unindexed \subseteq Tables
    /\ due \in [Tables -> SUBSET OptimizeActions]
    /\ running \subseteq Tasks
    /\ permit \in BOOLEAN /\ reconcile_running \in BOOLEAN
    /\ candidate \in [Targets -> CandidateStates]
    /\ reconcile_cursor \in 0..Len(Order) - 1
    /\ internal_checks \subseteq Tables
    /\ scan \in Scans
    /\ \A r \in running : r.action = "optimize" <=> ~IsComponent(r.target) /\ IsChange(r)

\* At most one change of any table is under way and it holds the permit, so
\* that a change is refused only for a change the caller is told of, and none
\* is refused once the last one has ended, however it ended.
OnePermit ==
    Cardinality({r \in running : IsChange(r)}) = IF permit THEN 0 ELSE 1

\* A dropped reconciliation still counts as the one in progress (l. 324).
Abandoned == reconcile_running /\ scan.step = "none" /\ drops > 0

\* Once the tables and the errors leave it alone, repeated reconciliation
\* builds every index that can be built and does every optimization that is
\* due, except for a target a permanent error has barred, and unless a
\* reconciliation was dropped.
KeptUp ==
    \A t \in Targets :
      <>[](\/ candidate[t] = "barred" \/ Abandoned
           \/ IF IsComponent(t) THEN index[t] # "missing" ELSE due[t] = {})

=============================================================================
