----------------------- MODULE SearchMaintenanceProofs -----------------------
(***************************************************************************)
(* Proofs about SearchMaintenance, for any targets, tables and requests:   *)
(* the coordinator lets one change be under way, and the permit is never   *)
(* lost, whatever is dropped, fails or panics.                             *)
(***************************************************************************)
EXTENDS SearchMaintenance, FiniteSetTheorems, TLAPS

Changes == {r \in running : IsChange(r)}

\* OnePermit without counting.
Holder == IF permit THEN Changes = {} ELSE \E r \in Changes : Changes = {r}

\* TypeOK without the scan and what it leaves.
TasksTyped ==
    /\ running \subseteq Tasks
    /\ permit \in BOOLEAN
    /\ \A r \in running : r.action = "optimize" <=> ~IsComponent(r.target) /\ IsChange(r)

\* Scans that ask only tables what is due.
FitScans ==
    {s \in Scans : s.step = "due" => ~IsComponent(TargetAt(s.start + s.offset))}

ScanTyped ==
    /\ reconcile_running \in BOOLEAN
    /\ reconcile_cursor \in 0..Len(Order) - 1
    /\ internal_checks \subseteq Tables
    /\ scan \in FitScans

TablesTyped ==
    /\ index \in [Components -> IndexStates]
    /\ \A c \in Components \ Vectors : index[c] # "deferred"
    /\ unindexed \subseteq Tables
    /\ due \in [Tables -> SUBSET OptimizeActions]
    /\ candidate \in [Targets -> CandidateStates]

Inv == TasksTyped /\ ScanTyped /\ TablesTyped /\ Holder

-----------------------------------------------------------------------------
(* Targets and positions. *)

LEMMA OrderIs ==
    /\ Len(Order) \in Nat \ {0} /\ DOMAIN Order = 1..Len(Order)
    /\ \A i \in 1..Len(Order) : Order[i] \in Targets
    /\ Tables \subseteq Targets /\ Components \subseteq Targets
    /\ \A t \in Targets : (t \in Tables) <=> ~IsComponent(t)
    /\ \A t \in Targets : (t \in Components) <=> IsComponent(t)
    /\ \A t \in Targets : TableOf[t] \in Tables
<1>1. Len(Order) \in Nat /\ DOMAIN Order = 1..Len(Order) /\ Len(Order) # 0
  BY ConstantsAssumption
<1>2. \A t \in Targets : TableOf[t] \in Tables
  BY ConstantsAssumption
<1> QED BY <1>1, <1>2 DEF Targets, Tables, Components

LEMMA TargetAtIs ==
    ASSUME NEW i \in Nat PROVE TargetAt(i) \in Targets
<1> DEFINE n == Len(Order)
<1>1. n \in Nat \ {0} /\ \A j \in 1..n : Order[j] \in Targets
  BY OrderIs
<1> HIDE DEF n
<1>2. i % n \in 0..n - 1
  BY <1>1
<1>3. (i % n) + 1 \in 1..n
  BY <1>1, <1>2
<1> QED BY <1>1, <1>3 DEF TargetAt, n

LEMMA PositionIs ==
    ASSUME NEW t \in Targets PROVE Position(t) \in 0..Len(Order) - 1
<1> DEFINE n == Len(Order)
<1>1. n \in Nat \ {0} /\ DOMAIN Order = 1..n
  BY OrderIs
<1>2. PICK i \in 1..n : t = Order[i]
  BY <1>1 DEF Targets
<1> HIDE DEF n
<1>3. i - 1 \in 0..n - 1 /\ (i - 1) % n = i - 1
  BY <1>1, <1>2
<1>4. TargetAt(i - 1) = t
  BY <1>2, <1>3 DEF TargetAt, n
<1>5. \E j \in 0..n - 1 : TargetAt(j) = t
  BY <1>3, <1>4
<1> QED BY <1>5 DEF Position, n

LEMMA HereIs == ASSUME scan \in Scans PROVE Here \in Targets
<1>1. scan.start \in Nat /\ scan.offset \in Nat
  BY OrderIs DEF Scans
<1>2. scan.start + scan.offset \in Nat
  BY <1>1
<1> QED BY <1>2, TargetAtIs DEF Here

LEMMA AtIs ==
    ASSUME scan \in Scans, NEW step \in Steps \ {"due"}
    PROVE  At(step) \in FitScans /\ At(step).step = step
BY DEF At, Scans, FitScans

LEMMA OnwardIs ==
    ASSUME scan \in Scans, NEW late \in BOOLEAN
    PROVE  Onward(late) \in FitScans
<1> DEFINE n == scan.offset + 1
           t == TargetAt(scan.start + scan.offset + 1)
           next == [scan EXCEPT !.step = FirstStep(t), !.offset = n, !.actions = {},
                                !.late = late]
<1>1. CASE scan.offset = Len(Order) - 1
  <2>1. [scan EXCEPT !.step = "end"] \in FitScans
    BY DEF Scans, Steps, FitScans
  <2> QED BY <1>1, <2>1 DEF Onward
<1>2. CASE scan.offset # Len(Order) - 1
  <2>1. /\ scan.offset \in 0..Len(Order) - 1 /\ Len(Order) \in Nat
        /\ scan.start \in 0..Len(Order) - 1
    BY OrderIs DEF Scans
  <2>2. n \in 0..Len(Order) - 1 /\ scan.start + n = scan.start + scan.offset + 1
    BY <1>2, <2>1
  <2>3. Onward(late) = next
    BY <1>2 DEF Onward, Scans
  <2>4. FirstStep(t) \in Steps /\ (FirstStep(t) = "due" => ~IsComponent(t))
    BY DEF FirstStep, Steps
  <2>5. t = TargetAt(scan.start + n)
    BY <2>2
  <2> HIDE DEF n, t
  <2>6. /\ next \in Scans /\ next.step = FirstStep(t) /\ next.start = scan.start
        /\ next.offset = n
    BY <2>2, <2>4 DEF Scans
  <2> QED BY <2>3, <2>4, <2>5, <2>6 DEF FitScans
<1> QED BY <1>1, <1>2

LEMMA NormalizedIs ==
    ASSUME NEW a \in SUBSET OptimizeActions PROVE Normalized(a) \in SUBSET OptimizeActions
BY DEF Normalized, OptimizeActions

-----------------------------------------------------------------------------
(* Tasks. *)

\* A task that is permitted is the only change, if it is one.
LEMMA BeginKeeps ==
    ASSUME TasksTyped, Holder, NEW task \in Tasks, Permitted(task), Begin(task),
           task.action = "optimize" <=> ~IsComponent(task.target) /\ IsChange(task)
    PROVE  TasksTyped' /\ Holder'
<1>1. running' = running \union {task} /\ permit' = (permit /\ ~IsChange(task))
  BY DEF Begin
<1>2. TasksTyped'
  <2>1. permit' \in BOOLEAN
    BY <1>1, Zenon DEF TasksTyped
  <2> QED BY <1>1, <2>1 DEF TasksTyped
<1>3. CASE IsChange(task)
  <2>1. permit /\ Changes = {}
    BY <1>3 DEF Permitted, Holder
  <2>2. Changes' = {task}
    BY <1>1, <1>3, <2>1 DEF Changes
  <2> QED BY <1>1, <1>2, <1>3, <2>2 DEF Holder
<1>4. CASE ~IsChange(task)
  <2>1. Changes' = Changes /\ permit' = permit
    BY <1>1, <1>4 DEF Changes, TasksTyped
  <2> QED BY <1>2, <2>1 DEF Holder
<1> QED BY <1>3, <1>4

\* A task that ends stays in the list until its outcome is recorded.
LEMMA FinishedKeeps ==
    ASSUME TasksTyped, Holder, NEW task \in running, NEW status \in Outcomes,
           Finished(task, status), UNCHANGED permit
    PROVE  TasksTyped' /\ Holder'
<1> DEFINE ended == [task EXCEPT !.status = status]
<1>1. task \in Tasks
  BY DEF TasksTyped
<1>2. /\ ended \in Tasks /\ ended.action = task.action /\ ended.target = task.target
  BY <1>1 DEF Tasks
<1>3. running' = (running \ {task}) \union {ended}
  BY DEF Finished
<1> HIDE DEF ended
<1>4. TasksTyped'
  BY <1>2, <1>3 DEF TasksTyped, IsChange
<1>5. IsChange(ended) <=> IsChange(task)
  BY <1>2 DEF IsChange
<1>6. CASE IsChange(task)
  <2>1. task \in Changes
    BY <1>6 DEF Changes
  <2>2. ~permit /\ Changes = {task}
    BY <2>1 DEF Holder
  <2>3. Changes' = {ended}
    BY <1>3, <1>5, <1>6, <2>2 DEF Changes
  <2> QED BY <1>4, <2>2, <2>3 DEF Holder
<1>7. CASE ~IsChange(task)
  <2>1. Changes' = Changes
    BY <1>3, <1>5, <1>7 DEF Changes
  <2> QED BY <1>4, <2>1 DEF Holder
<1> QED BY <1>6, <1>7

LEMMA RecordKeeps ==
    ASSUME TasksTyped, Holder, NEW task \in running, Record(task)
    PROVE  TasksTyped' /\ Holder'
<1>1. running' = running \ {task} /\ permit' = (permit \/ IsChange(task))
  BY DEF Record
<1>2. TasksTyped'
  <2>1. permit' \in BOOLEAN
    BY <1>1, Zenon DEF TasksTyped
  <2> QED BY <1>1, <2>1 DEF TasksTyped
<1>3. CASE IsChange(task)
  <2>1. task \in Changes
    BY <1>3 DEF Changes
  <2>2. Changes = {task}
    BY <2>1 DEF Holder
  <2>3. Changes' = {}
    BY <1>1, <2>2 DEF Changes
  <2> QED BY <1>1, <1>2, <1>3, <2>3 DEF Holder
<1>4. CASE ~IsChange(task)
  <2>1. Changes' = Changes /\ permit' = permit
    BY <1>1, <1>4 DEF Changes, TasksTyped
  <2> QED BY <1>2, <2>1 DEF Holder
<1> QED BY <1>3, <1>4

LEMMA RequestKeepsInv ==
    ASSUME Inv, NEW task \in Requests, Request(task)
    PROVE  Inv'
<1>1. /\ task \in Tasks
      /\ task.action = "optimize" <=> ~IsComponent(task.target) /\ IsChange(task)
  BY DEF Requests, Tasks, IsChange
<1>2. TasksTyped' /\ Holder'
  BY <1>1, BeginKeeps DEF Inv, Request
<1> QED BY <1>2 DEF Inv, Request, ScanTyped, TablesTyped, lance, flags

LEMMA TaskStepKeepsInv ==
    ASSUME Inv, NEW task \in running, TaskStep(task)
    PROVE  Inv'
<1>0. task \in Tasks
  BY DEF Inv, TasksTyped
<1>1. CASE RunCheck(task)
  <2>1. TasksTyped' /\ Holder'
    BY <1>1, FinishedKeeps DEF Inv, RunCheck, Outcomes
  <2> QED BY <1>1, <2>1 DEF Inv, RunCheck, ScanTyped, TablesTyped, lance, flags
<1>2. CASE RunBuild(task)
  <2>1. \E status \in Outcomes : Finished(task, status)
    BY <1>2 DEF RunBuild, Outcomes
  <2>2. TasksTyped' /\ Holder'
    BY <1>2, <2>1, FinishedKeeps DEF Inv, RunBuild
  <2>3. index' \in [Components -> IndexStates] /\ \A c \in Components \ Vectors : index'[c] # "deferred"
    <3>1. index' = index \/ index' = [index EXCEPT ![task.target] = "present"]
      BY <1>2 DEF RunBuild
    <3> QED BY <3>1 DEF Inv, TablesTyped, IndexStates
  <2> QED BY <1>2, <2>2, <2>3 DEF Inv, RunBuild, ScanTyped, TablesTyped, flags
<1>3. CASE RunOptimize(task)
  <2>1. TasksTyped' /\ Holder'
    BY <1>3, FinishedKeeps DEF Inv, RunOptimize, Outcomes
  <2> QED BY <1>3, <2>1 DEF Inv, RunOptimize, ScanTyped, TablesTyped, flags
<1>4. CASE RunFails(task)
  <2>1. TasksTyped' /\ Holder'
    BY <1>4, FinishedKeeps DEF Inv, RunFails, Outcomes
  <2>2. unindexed' \subseteq Tables
    BY <1>4 DEF Inv, RunFails, TablesTyped
  <2> QED BY <1>4, <2>1, <2>2 DEF Inv, RunFails, ScanTyped, TablesTyped, flags
<1>5. CASE Record(task)
  <2>1. TasksTyped' /\ Holder'
    BY <1>5, RecordKeeps DEF Inv
  <2>2. candidate' \in [Targets -> CandidateStates]
    <3>1. \A s \in CandidateStates : Judged(s, task.status) \in CandidateStates
      BY DEF Judged, CandidateStates
    <3> QED BY <1>0, <1>5, <3>1 DEF Inv, Record, TablesTyped, Tasks
  <2>3. due' \in [Tables -> SUBSET OptimizeActions]
    BY <1>5 DEF Inv, Record, TablesTyped
  <2> QED BY <1>5, <2>1, <2>2, <2>3 DEF Inv, Record, ScanTyped, TablesTyped, lance, flags
<1> QED BY <1>1, <1>2, <1>3, <1>4, <1>5 DEF TaskStep

-----------------------------------------------------------------------------
(* Reconciliations. *)

LEMMA ScanKeepsInv ==
    ASSUME Inv,
           \/ StartReconcile \/ ReadDue \/ ReadCandidate \/ BeginCheck \/ CheckAnswers
           \/ (\E late \in BOOLEAN : CheckFails(late))
           \/ ReadEligibility \/ EndReconcile \/ DeadlinePasses \/ Drop
    PROVE  Inv'
<1>0. scan \in Scans /\ Here \in Targets /\ scan.late \in BOOLEAN
      /\ scan.actions \in SUBSET OptimizeActions
  BY HereIs DEF Inv, ScanTyped, FitScans, Scans
<1>k. UNCHANGED <<lance, due, running, permit, candidate>>
  BY DEF StartReconcile, ReadDue, ReadCandidate, BeginCheck, CheckAnswers, CheckFails,
         ReadEligibility, EndReconcile, DeadlinePasses, Drop
<1>n. NoScan \in FitScans
  BY OrderIs DEF NoScan, Scans, FitScans, Steps
<1>s. Skip \in FitScans
  BY <1>0, OnwardIs DEF Skip
<1>a. \A step \in {"check", "checking", "eligible", "start", "end", "candidate"} :
        At(step) \in FitScans /\ At(step).step = step
  BY <1>0, AtIs DEF Steps
<1>t. TableOf[Here] \in Tables
  BY <1>0, OrderIs
<1>1. scan' \in FitScans
  <2>1. CASE StartReconcile
    <3> DEFINE t == TargetAt(reconcile_cursor)
               next == [NoScan EXCEPT !.step = FirstStep(t), !.start = reconcile_cursor]
    <3>1. FirstStep(t) \in Steps /\ (FirstStep(t) = "due" => ~IsComponent(t))
      BY DEF FirstStep, Steps
    <3>2. /\ NoScan \in Scans /\ NoScan.offset = 0 /\ reconcile_cursor \in 0..Len(Order) - 1
          /\ Len(Order) \in Nat
      BY <1>n, OrderIs DEF Inv, ScanTyped, NoScan, FitScans
    <3> HIDE DEF NoScan, t
    <3>3. /\ next \in Scans /\ next.step = FirstStep(t) /\ next.offset = 0
          /\ next.start = reconcile_cursor
      BY <3>1, <3>2 DEF Scans
    <3>4. next.start + next.offset = reconcile_cursor
      BY <3>2, <3>3
    <3>5. scan' = next
      BY <2>1 DEF StartReconcile, t
    <3> HIDE DEF next
    <3> QED BY <3>1, <3>3, <3>4, <3>5 DEF FitScans, t
  <2>2. CASE ReadDue
    <3>1. Here \in Tables
      BY <1>0, <2>2, OrderIs DEF ReadDue, Inv, ScanTyped, FitScans, Here
    <3>2. Normalized(due[Here]) \in SUBSET OptimizeActions
      BY <3>1, NormalizedIs DEF Inv, TablesTyped
    <3> QED BY <1>a, <2>2, <3>2 DEF ReadDue, Scans, FitScans
  <2>3. CASE ReadCandidate
    BY <1>a, <1>s, <2>3 DEF ReadCandidate
  <2>4. CASE BeginCheck
    BY <1>a, <1>s, <2>4 DEF BeginCheck
  <2>5. CASE CheckAnswers
    <3>1. scan.actions \union Seen(Here) \in SUBSET OptimizeActions
      BY <1>0 DEF Seen, OptimizeActions
    <3>2. [At("start") EXCEPT !.actions = scan.actions \union Seen(Here)] \in FitScans
      BY <1>a, <3>1 DEF Scans, FitScans
    <3> QED BY <1>a, <1>s, <2>5, <3>2 DEF CheckAnswers
  <2>6. ASSUME NEW late \in BOOLEAN, CheckFails(late) PROVE scan' \in FitScans
    <3>1. Onward(scan.late \/ late) \in FitScans
      <4>1. (scan.late \/ late) \in BOOLEAN
        BY <1>0, Zenon
      <4> QED BY <1>0, <4>1, OnwardIs
    <3>2. [At("eligible") EXCEPT !.late = TRUE] \in FitScans
      BY <1>a DEF Scans, FitScans
    <3>3. [At("start") EXCEPT !.late = @ \/ late] \in FitScans
      BY <1>a DEF Scans, FitScans
    <3> QED BY <2>6, <3>1, <3>2, <3>3 DEF CheckFails, Unseen
  <2>7. CASE ReadEligibility
    BY <1>a, <1>s, <2>7 DEF ReadEligibility
  <2>8. CASE EndReconcile \/ Drop
    BY <1>n, <2>8 DEF EndReconcile, Drop
  <2>9. CASE DeadlinePasses
    BY <1>0, <2>9 DEF DeadlinePasses, Scans, FitScans, Inv, ScanTyped
  <2> QED BY <2>1, <2>2, <2>3, <2>4, <2>5, <2>6, <2>7, <2>8, <2>9
<1>2. internal_checks' \subseteq Tables
  BY <1>t DEF Inv, ScanTyped, StartReconcile, ReadDue, ReadCandidate, BeginCheck,
       CheckAnswers, CheckFails, ReadEligibility, EndReconcile, DeadlinePasses, Drop
<1>3. reconcile_running' \in BOOLEAN /\ reconcile_cursor' \in 0..Len(Order) - 1
  <2>1. CASE EndReconcile
    <3>1. \A n \in Nat : (n + 1) % Len(Order) \in 0..Len(Order) - 1
      BY OrderIs
    <3>2. scan.start \in Nat /\ \A t \in Targets : Position(t) \in Nat
      BY <1>0, PositionIs, OrderIs DEF Scans
    <3>3. scan.winner \in Targets \union {None}
      BY <1>0 DEF Scans
    <3>4. NextStart \in 0..Len(Order) - 1
      BY <3>1, <3>2, <3>3 DEF NextStart
    <3> QED BY <2>1, <3>4 DEF EndReconcile
  <2>2. CASE ~EndReconcile
    BY <2>2 DEF Inv, ScanTyped, StartReconcile, ReadDue, ReadCandidate, BeginCheck,
       CheckAnswers, CheckFails, ReadEligibility, DeadlinePasses, Drop, flags
  <2> QED BY <2>1, <2>2
<1> QED BY <1>1, <1>2, <1>3, <1>k
        DEF Inv, TasksTyped, ScanTyped, TablesTyped, Holder, Changes, lance

\* A candidate is begun like any other task.
LEMMA CandidateKeepsInv ==
    ASSUME Inv, StartCandidate
    PROVE  Inv'
<1>0. scan \in Scans /\ Here \in Targets /\ scan.actions \in SUBSET OptimizeActions
  BY HereIs DEF Inv, ScanTyped, FitScans, Scans
<1>k. UNCHANGED <<lance, due, candidate, flags, internal_checks>>
  BY DEF StartCandidate
<1> DEFINE task == IF IsComponent(Here) THEN Task(Here, "build", Here \in Forced, {})
                   ELSE Task(Here, "optimize", FALSE, Normalized(scan.actions))
<1>1. /\ task \in Tasks
      /\ task.action = "optimize" <=> ~IsComponent(task.target) /\ IsChange(task)
  <2>1. CASE IsComponent(Here)
    <3>1. (Here \in Forced) \in BOOLEAN
      OBVIOUS
    <3> QED BY <1>0, <2>1, <3>1 DEF Task, Tasks, IsChange
  <2>2. CASE ~IsComponent(Here)
    <3>1. Normalized(scan.actions) \in SUBSET OptimizeActions
      BY <1>0, NormalizedIs
    <3> QED BY <1>0, <2>2, <3>1 DEF Task, Tasks, IsChange
  <2> QED BY <2>1, <2>2
<1>2. \/ Permitted(task) /\ Begin(task)
      \/ UNCHANGED <<running, permit>>
  BY DEF StartCandidate
<1> HIDE DEF task
<1>3. TasksTyped' /\ Holder'
  <2>1. CASE UNCHANGED <<running, permit>>
    BY <2>1 DEF Inv, TasksTyped, Holder, Changes
  <2> QED BY <1>1, <1>2, <2>1, BeginKeeps DEF Inv
<1>4. scan' \in FitScans
  <2>1. At("end") \in FitScans /\ At("end").step = "end"
    BY <1>0, AtIs DEF Steps
  <2>2. [At("end") EXCEPT !.winner = Here] \in FitScans
    BY <1>0, <2>1 DEF FitScans, Scans
  <2> QED BY <2>1, <2>2 DEF StartCandidate
<1> QED BY <1>3, <1>4, <1>k DEF Inv, ScanTyped, TablesTyped, lance, flags

\* Time, and the writers of the tables.
LEMMA OthersKeepInv ==
    ASSUME Inv,
           \/ \E t \in Targets : BackoffPasses(t)
           \/ \E t \in Tables : RowsWritten(t) \/ \E a \in Intervals : IntervalPasses(t, a)
    PROVE  Inv'
<1>1. UNCHANGED <<running, permit, flags, internal_checks, scan>>
  BY DEF BackoffPasses, RowsWritten, IntervalPasses
<1>2. TablesTyped'
  <2>1. ASSUME NEW t \in Targets, BackoffPasses(t) PROVE TablesTyped'
    BY <2>1 DEF Inv, TablesTyped, BackoffPasses, lance, CandidateStates
  <2>2. ASSUME NEW t \in Tables, RowsWritten(t) PROVE TablesTyped'
    BY <2>2 DEF Inv, TablesTyped, RowsWritten, IndexStates
  <2>3. ASSUME NEW t \in Tables, NEW a \in Intervals, IntervalPasses(t, a) PROVE TablesTyped'
    BY <2>3, ConstantsAssumption DEF Inv, TablesTyped, IntervalPasses, lance, OptimizeActions
  <2> QED BY <2>1, <2>2, <2>3
<1> QED BY <1>1, <1>2 DEF Inv, TasksTyped, ScanTyped, Holder, Changes, flags

LEMMA InitInv == Init => Inv
<1> SUFFICES ASSUME Init PROVE Inv
  OBVIOUS
<1>1. TasksTyped /\ Holder
  BY DEF Init, TasksTyped, Holder, Changes
<1>2. ScanTyped
  <2>1. 0 \in 0..Len(Order) - 1
    BY OrderIs
  <2>2. NoScan \in FitScans
    BY <2>1 DEF NoScan, FitScans, Scans, Steps
  <2> QED BY <2>1, <2>2 DEF Init, ScanTyped
<1>3. TablesTyped
  BY DEF Init, TablesTyped, CandidateStates
<1> QED BY <1>1, <1>2, <1>3 DEF Inv

LEMMA InvIsInductive == Inv /\ [Next]_vars => Inv'
<1>1. ASSUME Inv, UNCHANGED vars PROVE Inv'
  BY <1>1 DEF vars, Inv, TasksTyped, ScanTyped, TablesTyped, Holder, Changes
<1> QED BY <1>1, RequestKeepsInv, TaskStepKeepsInv, ScanKeepsInv, CandidateKeepsInv,
        OthersKeepInv DEF Next, ScanStep, Environment

-----------------------------------------------------------------------------
(* The theorems. *)

\* Every variable has its type, for any targets, tables and requests.
THEOREM TypeCorrect == Spec => []TypeOK
<1>1. Inv => TypeOK
  BY DEF Inv, TypeOK, TasksTyped, ScanTyped, TablesTyped, FitScans
<1> QED BY <1>1, InitInv, InvIsInductive, PTL DEF Spec

\* At most one change of any table is under way and it holds the permit; when
\* there is none, the permit is free, however the last one ended and whoever
\* went away meanwhile.
THEOREM PermitIsHeldOnce == Spec => []OnePermit
<1>1. Inv => OnePermit
  <2> SUFFICES ASSUME Inv PROVE OnePermit
    OBVIOUS
  <2>1. CASE permit
    <3>1. Changes = {}
      BY <2>1 DEF Inv, Holder
    <3> QED BY <2>1, <3>1, FS_EmptySet DEF OnePermit, Changes
  <2>2. CASE ~permit
    <3>1. PICK r \in Changes : Changes = {r}
      BY <2>2 DEF Inv, Holder
    <3>2. Cardinality({r}) = 1
      BY FS_Singleton
    <3> QED BY <2>2, <3>1, <3>2 DEF OnePermit, Changes
  <2> QED BY <2>1, <2>2
<1> QED BY <1>1, InitInv, InvIsInductive, PTL DEF Spec

=============================================================================
