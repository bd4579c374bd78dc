------------------------- MODULE EmbeddingIndexProofs -------------------------
(***************************************************************************)
(* Proofs about the embedding write protocol, for any number of targets,   *)
(* jobs, spaces and attempts and with no bound on edits and faults.        *)
(***************************************************************************)
EXTENDS EmbeddingIndex, TLAPS

\* What the callback of a job may rely on about its request.
WellFormed(j) ==
    /\ pc[j] # "idle" => job[j] # None
    /\ job[j] # None =>
         IF job[j].shape = "token"
         THEN job[j].space \in Spaces /\ job[j].version \in Versions /\ job[j].also = {}
         ELSE job[j].space = Unknown /\ job[j].version = Unknown /\ job[j].attempt = None
    /\ pc[j] \in {"inserted"} \cup Reporting => job[j].shape = "token"
    /\ pc[j] \in {"deleted", "emptied"} => job[j].shape # "items"

TypeInv == TypeOK /\ \A j \in Jobs : WellFormed(j)

\* A callback under way belongs to the space and the attempt being served.
Fenced(j) ==
    pc[j] # "idle" =>
        IF job[j].shape = "token"
        THEN job[j].space = space /\ job[j].attempt = attempt
        ELSE attempt = None

FenceInv == NoForeignRows /\ \A j \in Jobs : Fenced(j)

\* The entry claims nothing beyond the origin of r.
Claims(t, r) ==
    entry[t] # None /\ entry[t].outcome = "success"
        => entry[t].space = r.space /\ entry[t].version = r.version

\* The rows that a success entry describes are of its space and version.
EntryDescribesRows(t) ==
    entry[t] # None /\ entry[t].outcome = "success"
        => \A c \in Present(t) : /\ rows[t][c].space = entry[t].space
                                 /\ rows[t][c].version = entry[t].version

\* Writers of an untainted target agree on the origin; the ones past
\* before_rows left no entry of another origin, and the ones past the delete
\* no row of another origin.
WritersAgree(t) ==
    \A j \in Writers(t) :
        /\ t = job[j].target
        /\ \A k \in Writers(t) : Origin(job[k]) = Origin(job[j])
        /\ pc[j] # "guarded" => Claims(t, job[j])
        /\ pc[j] \in {"deleted", "inserted"}
             => \A c \in Present(t) : rows[t][c] = Origin(job[j])

Coherent(t) == ~tainted[t] => EntryDescribesRows(t) /\ WritersAgree(t)

CoherenceInv == \A t \in Targets : Coherent(t)

LEMMA InitTyped == Init => TypeInv
  BY ChunksAssumption, BoundsAssumption, ValuesAssumption
     DEF Init, TypeInv, TypeOK, WellFormed, NoRows, IdleScan, Chunks, Reporting

LEMMA TypeStep == TypeInv /\ [Next]_vars => TypeInv'
<1> SUFFICES ASSUME TypeInv, [Next]_vars PROVE TypeInv'
  OBVIOUS
<1> USE ChunksAssumption, BoundsAssumption, ValuesAssumption
<1>1. CASE Edit
  <2>1. ASSUME NEW t \in Targets, NEW v \in Versions, NEW j \in Jobs,
              UpdateAndDispatch(t, v, j) PROVE TypeInv'
    BY <2>1 DEF TypeInv, TypeOK, WellFormed, UpdateAndDispatch, store, process, Token, Fresh, Requests, Reporting
  <2>2. ASSUME NEW t \in Targets, NEW v \in Versions \cup {NotTarget}, UpdateOnly(t, v) PROVE TypeInv'
    BY <2>2 DEF TypeInv, TypeOK, WellFormed, UpdateOnly, store, process, queue
  <2>3. ASSUME NEW t \in Targets, DetachImage(t) PROVE TypeInv'
    BY <2>3 DEF TypeInv, TypeOK, WellFormed, DetachImage, store, process, queue
  <2>4. ASSUME NEW t \in Targets, DeleteMemory(t) PROVE TypeInv'
    BY <2>4 DEF TypeInv, TypeOK, WellFormed, DeleteMemory, store, process, queue
  <2>5. ASSUME NEW t \in Targets, NEW others \in SUBSET Targets, NEW shape \in LegacyShapes,
              NEW j \in Jobs, LegacyRequest(t, others, shape, j) PROVE TypeInv'
    BY <2>5 DEF TypeInv, TypeOK, WellFormed, LegacyRequest, store, process, TokenLess, Requests, LegacyShapes,
                 Reporting
  <2> QED
    BY <1>1, <2>1, <2>2, <2>3, <2>4, <2>5 DEF Edit
<1>2. ASSUME NEW t \in Targets, Cascade(t) PROVE TypeInv'
  <2>1. CASE DeleteVectorRows(t)
    BY <2>1 DEF TypeInv, TypeOK, WellFormed, DeleteVectorRows, NoRows, rdb, process, queue
  <2>2. CASE DeleteVectorEntry(t)
    BY <2>2 DEF TypeInv, TypeOK, WellFormed, DeleteVectorEntry, rdb, process, queue
  <2> QED
    BY <1>2, <2>1, <2>2 DEF Cascade
<1>3. ASSUME NEW j \in Jobs, Deliver(j) PROVE TypeInv'
  <2>1. CASE Guard(j)
    BY <2>1 DEF TypeInv, TypeOK, WellFormed, Guard, Delivered, Writing, Reporting, rdb, store, process, queue
  <2>2. CASE Reject(j)
    BY <2>2 DEF TypeInv, TypeOK, WellFormed, Reject, Delivered, Return, Reporting, rdb, store, process
  <2>3. CASE FailureCheck(j)
    BY <2>3 DEF TypeInv, TypeOK, WellFormed, FailureCheck, Delivered, Reporting, rdb, store, process, queue
  <2> QED
    BY <1>3, <2>1, <2>2, <2>3 DEF Deliver
<1>4. ASSUME NEW j \in Jobs, CallbackStep(j) PROVE TypeInv'
  <2>1. CASE BeforeRows(j)
    BY <2>1 DEF TypeInv, TypeOK, WellFormed, BeforeRows, Writing, Reporting, rdb, process, queue
  <2>2. CASE DeleteRows(j)
    BY <2>2 DEF TypeInv, TypeOK, WellFormed, DeleteRows, NoRows, Writing, Emptying, Reporting, rdb, process, queue
  <2>3. CASE ClearEntry(j)
    BY <2>3 DEF TypeInv, TypeOK, WellFormed, ClearEntry, Return, Reporting, rdb, process
  <2>4. CASE InsertRows(j)
    <3>1. job[j] \in Requests
      BY <2>4 DEF TypeInv, TypeOK, WellFormed, InsertRows
    <3>2. Origin(job[j]) \in Origins
      BY <3>1 DEF Requests, Origins, Origin
    <3>3. rows' \in [Targets -> [Chunks -> Origins \cup {None}]]
      BY <2>4, <3>2 DEF TypeInv, TypeOK, InsertRows
    <3>4. pc' \in [Jobs -> {"idle"} \cup Writing \cup Emptying \cup Reporting]
      BY <2>4 DEF TypeInv, TypeOK, InsertRows, Return, Writing
    <3>5. TypeOK'
      BY <2>4, <3>3, <3>4 DEF TypeInv, TypeOK, InsertRows, Return, rdb, process
    <3>6. ASSUME NEW k \in Jobs PROVE WellFormed(k)'
      BY <2>4, <3>6 DEF TypeInv, TypeOK, WellFormed, InsertRows, Return, Reporting
    <3> QED
      BY <3>5, <3>6 DEF TypeInv
  <2>5. CASE AfterRows(j)
    <3>1. /\ job[j] \in Requests
          /\ job[j].shape = "token"
          /\ job[j].space \in Spaces
          /\ job[j].version \in Versions
      BY <2>5 DEF TypeInv, TypeOK, WellFormed, AfterRows
    <3>2. ChunksOf(job[j]) \in 0 .. MaxChunks
      BY <3>1, ChunksAssumption DEF ChunksOf
    <3>3. entry' \in [Targets -> Entries \cup {None}]
      <4>1. [space |-> job[j].space, version |-> job[j].version, generation |-> j,
             outcome |-> "success", chunks |-> ChunksOf(job[j])] \in Entries
        BY <3>1, <3>2 DEF Entries
      <4> QED
        BY <2>5, <4>1 DEF TypeInv, TypeOK, AfterRows
    <3>4. TypeOK'
      BY <2>5, <3>3 DEF TypeInv, TypeOK, AfterRows, Return, rdb, process
    <3>5. ASSUME NEW k \in Jobs PROVE WellFormed(k)'
      BY <2>5, <3>5 DEF TypeInv, TypeOK, WellFormed, AfterRows, Return, Reporting
    <3> QED
      BY <3>4, <3>5 DEF TypeInv
  <2>6. CASE FailureReadRows(j)
    BY <2>6 DEF TypeInv, TypeOK, WellFormed, FailureReadRows, Present, Reporting, rdb, store, process, queue
  <2>7. CASE FailureClassify(j)
    <3>1. pc' \in [Jobs -> {"idle"} \cup Writing \cup Emptying \cup Reporting]
      <4>1. \/ pc' = [pc EXCEPT ![j] = "idle"]
            \/ pc' = [pc EXCEPT ![j] = "dropping"]
        BY <2>7 DEF FailureClassify, Return
      <4> QED
        BY <4>1 DEF TypeInv, TypeOK, Reporting
    <3>2. TypeOK'
      BY <2>7, <3>1 DEF TypeInv, TypeOK, FailureClassify, Return, rdb, store, process
    <3>3. ASSUME NEW k \in Jobs PROVE WellFormed(k)'
      BY <2>7, <3>3 DEF TypeInv, TypeOK, WellFormed, FailureClassify, Return, Reporting
    <3> QED
      BY <3>2, <3>3 DEF TypeInv
  <2>8. CASE FailureDropEntry(j)
    BY <2>8 DEF TypeInv, TypeOK, WellFormed, FailureDropEntry, Reporting, rdb, process, queue
  <2>9. CASE FailureDropRows(j)
    BY <2>9 DEF TypeInv, TypeOK, WellFormed, FailureDropRows, NoRows, Reporting, rdb, process, queue
  <2>10. CASE FailureDropEntryAgain(j)
    BY <2>10 DEF TypeInv, TypeOK, WellFormed, FailureDropEntryAgain, Reporting, rdb, process, queue
  <2>11. CASE FailureRecord(j)
    <3>1. /\ job[j] \in Requests
          /\ job[j].space \in Spaces
          /\ job[j].version \in Versions
      BY <2>11 DEF TypeInv, TypeOK, WellFormed, FailureRecord, Reporting
    <3>2. entry' \in [Targets -> Entries \cup {None}]
      <4>1. [space |-> job[j].space, version |-> job[j].version, generation |-> j,
             outcome |-> "failure", chunks |-> 0] \in Entries
        BY <3>1 DEF Entries
      <4> QED
        BY <2>11, <4>1 DEF TypeInv, TypeOK, FailureRecord
    <3>3. TypeOK'
      BY <2>11, <3>2 DEF TypeInv, TypeOK, FailureRecord, Return, rdb, process
    <3>4. ASSUME NEW k \in Jobs PROVE WellFormed(k)'
      BY <2>11 DEF TypeInv, TypeOK, WellFormed, FailureRecord, Return, Reporting
    <3> QED
      BY <3>3, <3>4 DEF TypeInv
  <2> QED
    BY <1>4, <2>1, <2>2, <2>3, <2>4, <2>5, <2>6, <2>7, <2>8, <2>9, <2>10, <2>11 DEF CallbackStep
<1>5. ASSUME NEW j \in Jobs, JobEnds(j) PROVE TypeInv'
  BY <1>5 DEF TypeInv, TypeOK, WellFormed, JobEnds, Reporting, rdb, store, process
<1>6. CASE ScanStep
  <2>1. CASE ScanPage
    BY <2>1 DEF TypeInv, TypeOK, WellFormed, ScanPage, IdleScan, rdb, store, process, queue
  <2>2. CASE ScanRows
    BY <2>2 DEF TypeInv, TypeOK, WellFormed, ScanRows, Present, rdb, store, process, queue
  <2>3. CASE ScanEntries
    BY <2>3 DEF TypeInv, TypeOK, WellFormed, ScanEntries, IdleScan, rdb, store, process, queue
  <2>4. CASE ScanEnds
    BY <2>4 DEF TypeInv, TypeOK, WellFormed, ScanEnds, IdleScan, rdb, store, process, queue
  <2>5. ASSUME NEW t \in Targets, ScanOrphanRows(t) PROVE TypeInv'
    BY <2>5 DEF TypeInv, TypeOK, WellFormed, ScanOrphanRows, NoRows, rdb, process, queue
  <2>6. ASSUME NEW t \in Targets, ScanOrphanEntry(t) PROVE TypeInv'
    BY <2>6 DEF TypeInv, TypeOK, WellFormed, ScanOrphanEntry, rdb, process, queue
  <2>7. ASSUME NEW t \in Targets, NEW j \in Jobs, ScanDispatch(t, j) PROVE TypeInv'
    <3>1. scan' \in [phase: {"idle", "paged", "counted", "handling"},
                     source: [Targets -> Versions \cup {NotTarget, Deleted}],
                     chunks: [Targets -> SUBSET Chunks],
                     wanted: SUBSET Targets,
                     orphanRows: SUBSET Targets, orphanEntries: SUBSET Targets]
      BY <2>7 DEF TypeInv, TypeOK, ScanDispatch
    <3>2. CASE ~IsTarget(t)
      BY <2>7, <3>1, <3>2 DEF TypeInv, TypeOK, WellFormed, ScanDispatch, rdb, store, process,
                              queue
    <3>3. CASE IsTarget(t)
      <4>1. Token(t, source[t]) \in Requests
        BY <3>3 DEF TypeInv, TypeOK, Token, Requests, IsTarget
      <4>2. /\ job[j] = None
            /\ job' = [job EXCEPT ![j] = Token(t, source[t])]
            /\ answered' = answered \ {j}
        BY <2>7, <3>3 DEF ScanDispatch, Fresh
      <4>3. UNCHANGED <<rdb, store, process, pc, seen, wiping, tainted, faults>>
        BY <2>7 DEF ScanDispatch
      <4>4. TypeOK'
        BY <4>3, <3>1, <4>1, <4>2 DEF TypeInv, TypeOK, rdb, store, process
      <4>5. ASSUME NEW k \in Jobs PROVE WellFormed(k)'
        BY <4>3, <3>3, <4>2 DEF TypeInv, TypeOK, WellFormed, Token, IsTarget, Reporting
      <4> QED
        BY <4>4, <4>5 DEF TypeInv
    <3> QED
      BY <3>2, <3>3
  <2> QED
    BY <1>6, <2>1, <2>2, <2>3, <2>4, <2>5, <2>6, <2>7 DEF ScanStep
<1>7. CASE Fault
  <2>1. ASSUME NEW t \in Targets, CascadeFails(t) PROVE TypeInv'
    BY <2>1 DEF TypeInv, TypeOK, WellFormed, CascadeFails, rdb, store, process, queue
  <2>2. ASSUME NEW t \in Targets, ScanItemFails(t) PROVE TypeInv'
    <3>1. scan' \in [phase: {"idle", "paged", "counted", "handling"},
                     source: [Targets -> Versions \cup {NotTarget, Deleted}],
                     chunks: [Targets -> SUBSET Chunks],
                     wanted: SUBSET Targets,
                     orphanRows: SUBSET Targets, orphanEntries: SUBSET Targets]
      BY <2>2 DEF TypeInv, TypeOK, ScanItemFails
    <3> QED
      BY <2>2, <3>1 DEF TypeInv, TypeOK, WellFormed, ScanItemFails, rdb, store, process, queue
  <2>3. ASSUME NEW j \in Jobs, JobLost(j) PROVE TypeInv'
    BY <2>3 DEF TypeInv, TypeOK, WellFormed, JobLost, Reporting, rdb, store, process
  <2>4. ASSUME NEW j \in Jobs, JobRepeated(j) PROVE TypeInv'
    BY <2>4 DEF TypeInv, TypeOK, WellFormed, JobRepeated, rdb, store, process
  <2>5. ASSUME NEW j \in Jobs, CallbackFails(j) PROVE TypeInv'
    BY <2>5 DEF TypeInv, TypeOK, WellFormed, CallbackFails, Reporting, rdb, store, process, queue
  <2>6. CASE ScanFails
    BY <2>6 DEF TypeInv, TypeOK, WellFormed, ScanFails, IdleScan, rdb, store, process, queue
  <2>7. CASE Restart
    BY <2>7 DEF TypeInv, TypeOK, WellFormed, Restart, Stop, IdleScan, Reporting, rdb, store, process, queue
  <2> QED
    BY <1>7, <2>1, <2>2, <2>3, <2>4, <2>5, <2>6, <2>7 DEF Fault
<1>8. CASE Migrate
  <2>1. ASSUME NEW s \in Spaces, NEW a \in Attempts, SwitchSpace(s, a) PROVE TypeInv'
    <3>1. /\ rows' \in [Targets -> [Chunks -> Origins \cup {None}]]
          /\ tainted' \in [Targets -> BOOLEAN]
          /\ switches' \in 0 .. MaxSwitches
      BY <2>1 DEF TypeInv, TypeOK, SwitchSpace, NoRows
    <3>2. TypeOK'
      BY <2>1, <3>1 DEF TypeInv, TypeOK, SwitchSpace, Stop, IdleScan, rdb, queue
    <3>3. ASSUME NEW k \in Jobs PROVE WellFormed(k)'
      BY <2>1 DEF TypeInv, TypeOK, WellFormed, SwitchSpace, Stop, Reporting, queue
    <3> QED
      BY <3>2, <3>3 DEF TypeInv
  <2>2. CASE FinalizeSwitch
    BY <2>2 DEF TypeInv, TypeOK, WellFormed, FinalizeSwitch, Stop, IdleScan, Reporting, rdb, store, queue
  <2> QED
    BY <1>8, <2>1, <2>2 DEF Migrate
<1>9. CASE UNCHANGED vars
  BY <1>9 DEF TypeInv, TypeOK, WellFormed, vars
<1> QED
  BY <1>1, <1>2, <1>3, <1>4, <1>5, <1>6, <1>7, <1>8, <1>9 DEF Next

\* Every step keeps the variables in their types: in particular a callback
\* never records an entry for a token-less result (Unknown is no space).
THEOREM TypeCorrect == Spec => []TypeOK
  BY InitTyped, TypeStep, PTL DEF Spec, TypeInv

-----------------------------------------------------------------------------
\* Most steps only take away: rows and entries disappear (or a failure is
\* recorded), and callbacks leave the writing states.
Harmless ==
    /\ UNCHANGED <<space, attempt, tainted>>
    /\ \A t \in Targets : \A c \in Chunks : rows'[t][c] \in {rows[t][c], None}
    /\ \A t \in Targets : entry'[t] \in {entry[t], None} \/ entry'[t].outcome = "failure"
    /\ \A k \in Jobs : pc'[k] # "idle" => job'[k] = job[k] /\ pc[k] # "idle"
    /\ \A k \in Jobs : pc'[k] \in Writing => pc'[k] = pc[k]

\* The steps that can put rows, entries or writers in place.
Delicate(j) ==
    \/ Guard(j) \/ FailureCheck(j) \/ BeforeRows(j) \/ DeleteRows(j) \/ InsertRows(j)
    \/ AfterRows(j)

\* Every step is harmless, delicate or a migration of the space.
LEMMA StepKinds ==
    TypeInv /\ [Next]_vars => Harmless \/ (\E j \in Jobs : Delicate(j)) \/ Migrate
<1> SUFFICES ASSUME TypeInv, [Next]_vars
             PROVE Harmless \/ (\E j \in Jobs : Delicate(j)) \/ Migrate
  OBVIOUS
<1>1. ASSUME Edit PROVE Harmless
  <2>1. ASSUME NEW t \in Targets, NEW v \in Versions, NEW j \in Jobs,
              UpdateAndDispatch(t, v, j) PROVE Harmless
    BY <2>1 DEF Harmless, TypeInv, TypeOK, WellFormed, UpdateAndDispatch, Fresh, store, process, Writing
  <2>2. ASSUME NEW t \in Targets, NEW v \in Versions \cup {NotTarget}, UpdateOnly(t, v) PROVE Harmless
    BY <2>2 DEF Harmless, TypeInv, TypeOK, WellFormed, UpdateOnly, store, process, queue
  <2>3. ASSUME NEW t \in Targets, DetachImage(t) PROVE Harmless
    BY <2>3 DEF Harmless, TypeInv, TypeOK, WellFormed, DetachImage, store, process, queue
  <2>4. ASSUME NEW t \in Targets, DeleteMemory(t) PROVE Harmless
    BY <2>4 DEF Harmless, TypeInv, TypeOK, WellFormed, DeleteMemory, store, process, queue
  <2>5. ASSUME NEW t \in Targets, NEW others \in SUBSET Targets, NEW shape \in LegacyShapes,
              NEW j \in Jobs, LegacyRequest(t, others, shape, j) PROVE Harmless
    BY <2>5 DEF Harmless, TypeInv, TypeOK, WellFormed, LegacyRequest, store, process, Writing
  <2> QED
    BY <1>1, <2>1, <2>2, <2>3, <2>4, <2>5 DEF Edit
<1>2. ASSUME NEW t \in Targets, Cascade(t) PROVE Harmless
  <2>1. ASSUME DeleteVectorRows(t) PROVE Harmless
    BY <2>1 DEF Harmless, TypeInv, TypeOK, WellFormed, DeleteVectorRows, NoRows, process, queue
  <2>2. ASSUME DeleteVectorEntry(t) PROVE Harmless
    BY <2>2 DEF Harmless, TypeInv, TypeOK, WellFormed, DeleteVectorEntry, process, queue
  <2> QED
    BY <1>2, <2>1, <2>2 DEF Cascade
<1>3. ASSUME NEW j \in Jobs, Deliver(j) PROVE Harmless \/ Delicate(j)
  <2>1. ASSUME Reject(j) PROVE Harmless
    BY <2>1 DEF Harmless, TypeInv, TypeOK, WellFormed, Reject, Delivered, Return, Writing, store, process
  <2> QED
    BY <1>3, <2>1 DEF Deliver, Delicate
<1>4. ASSUME NEW j \in Jobs, CallbackStep(j) PROVE Harmless \/ Delicate(j)
  <2>1. ASSUME ClearEntry(j) PROVE Harmless
    BY <2>1 DEF Harmless, TypeInv, TypeOK, WellFormed, ClearEntry, Return, Writing, process
  <2>2. ASSUME FailureReadRows(j) PROVE Harmless
    BY <2>2 DEF Harmless, TypeInv, TypeOK, WellFormed, FailureReadRows, Writing, store, process, queue
  <2>3. ASSUME FailureClassify(j) PROVE Harmless
    BY <2>3 DEF Harmless, TypeInv, TypeOK, WellFormed, FailureClassify, Return, Writing, store, process
  <2>4. ASSUME FailureDropEntry(j) PROVE Harmless
    BY <2>4 DEF Harmless, TypeInv, TypeOK, WellFormed, FailureDropEntry, Writing, process, queue
  <2>5. ASSUME FailureDropRows(j) PROVE Harmless
    BY <2>5 DEF Harmless, TypeInv, TypeOK, WellFormed, FailureDropRows, NoRows, Writing, process, queue
  <2>6. ASSUME FailureDropEntryAgain(j) PROVE Harmless
    BY <2>6 DEF Harmless, TypeInv, TypeOK, WellFormed, FailureDropEntryAgain, Writing, process, queue
  <2>7. ASSUME FailureRecord(j) PROVE Harmless
    BY <2>7 DEF Harmless, TypeInv, TypeOK, WellFormed, FailureRecord, Return, Writing, process
  <2> QED
    BY <1>4, <2>1, <2>2, <2>3, <2>4, <2>5, <2>6, <2>7 DEF CallbackStep, Delicate
<1>5. ASSUME NEW j \in Jobs, JobEnds(j) PROVE Harmless
  BY <1>5 DEF Harmless, TypeInv, TypeOK, WellFormed, JobEnds, store, process, Writing
<1>6. ASSUME ScanStep PROVE Harmless
  <2>1. ASSUME ScanPage PROVE Harmless
    BY <2>1 DEF Harmless, TypeInv, TypeOK, WellFormed, ScanPage, store, process, queue
  <2>2. ASSUME ScanRows PROVE Harmless
    BY <2>2 DEF Harmless, TypeInv, TypeOK, WellFormed, ScanRows, store, process, queue
  <2>3. ASSUME ScanEntries PROVE Harmless
    BY <2>3 DEF Harmless, TypeInv, TypeOK, WellFormed, ScanEntries, store, process, queue
  <2>4. ASSUME ScanEnds PROVE Harmless
    BY <2>4 DEF Harmless, TypeInv, TypeOK, WellFormed, ScanEnds, store, process, queue
  <2>5. ASSUME NEW t \in Targets, ScanOrphanRows(t) PROVE Harmless
    BY <2>5 DEF Harmless, TypeInv, TypeOK, WellFormed, ScanOrphanRows, NoRows, process, queue
  <2>6. ASSUME NEW t \in Targets, ScanOrphanEntry(t) PROVE Harmless
    BY <2>6 DEF Harmless, TypeInv, TypeOK, WellFormed, ScanOrphanEntry, process, queue
  <2>7. ASSUME NEW t \in Targets, NEW j \in Jobs, ScanDispatch(t, j) PROVE Harmless
    BY <2>7 DEF Harmless, TypeInv, TypeOK, WellFormed, ScanDispatch, Fresh, Writing, store, process, queue
  <2> QED
    BY <1>6, <2>1, <2>2, <2>3, <2>4, <2>5, <2>6, <2>7 DEF ScanStep
<1>7. ASSUME Fault PROVE Harmless
  <2>1. ASSUME NEW t \in Targets, CascadeFails(t) PROVE Harmless
    BY <2>1 DEF Harmless, TypeInv, TypeOK, WellFormed, CascadeFails, store, process, queue
  <2>2. ASSUME NEW t \in Targets, ScanItemFails(t) PROVE Harmless
    BY <2>2 DEF Harmless, TypeInv, TypeOK, WellFormed, ScanItemFails, store, process, queue
  <2>3. ASSUME NEW j \in Jobs, JobLost(j) PROVE Harmless
    BY <2>3 DEF Harmless, TypeInv, TypeOK, WellFormed, JobLost, Writing, store, process
  <2>4. ASSUME NEW j \in Jobs, JobRepeated(j) PROVE Harmless
    BY <2>4 DEF Harmless, TypeInv, TypeOK, WellFormed, JobRepeated, store, process
  <2>5. ASSUME NEW j \in Jobs, CallbackFails(j) PROVE Harmless
    BY <2>5 DEF Harmless, TypeInv, TypeOK, WellFormed, CallbackFails, Writing, store, process, queue
  <2>6. ASSUME ScanFails PROVE Harmless
    BY <2>6 DEF Harmless, TypeInv, TypeOK, WellFormed, ScanFails, store, process, queue
  <2>7. ASSUME Restart PROVE Harmless
    BY <2>7 DEF Harmless, TypeInv, TypeOK, WellFormed, Restart, Stop, Writing, store, process, queue
  <2> QED
    BY <1>7, <2>1, <2>2, <2>3, <2>4, <2>5, <2>6, <2>7 DEF Fault
<1>8. CASE UNCHANGED vars
  BY <1>8 DEF Harmless, TypeInv, TypeOK, WellFormed, vars
<1> QED
  BY <1>1, <1>2, <1>3, <1>4, <1>5, <1>6, <1>7, <1>8 DEF Next

-----------------------------------------------------------------------------
LEMMA FenceStep == TypeInv /\ FenceInv /\ [Next]_vars => FenceInv'
<1> SUFFICES ASSUME TypeInv, FenceInv, [Next]_vars PROVE FenceInv'
  OBVIOUS
<1> USE ValuesAssumption
<1>1. CASE Harmless
  <2>1. NoForeignRows'
    BY <1>1 DEF Harmless, FenceInv, NoForeignRows, Present
  <2>2. ASSUME NEW k \in Jobs PROVE Fenced(k)'
    BY <1>1 DEF Harmless, FenceInv, Fenced
  <2> QED
    BY <2>1, <2>2 DEF FenceInv
<1>2. ASSUME NEW j \in Jobs, Delicate(j) PROVE FenceInv'
  \* Passing the check is what fences a callback.
  <2>1. ASSUME Guard(j) \/ FailureCheck(j) PROVE FenceInv'
    BY <2>1 DEF Guard, FailureCheck, Delivered, Accepts, Check, FenceInv, Fenced, NoForeignRows,
                Present, TypeInv, TypeOK, store, process, queue
  <2>2. ASSUME BeforeRows(j) PROVE FenceInv'
    BY <2>2 DEF BeforeRows, FenceInv, Fenced, NoForeignRows, Present, TypeInv, TypeOK, process,
                queue
  <2>3. ASSUME DeleteRows(j) PROVE FenceInv'
    BY <2>3 DEF DeleteRows, NoRows, FenceInv, Fenced, NoForeignRows, Present, TypeInv, TypeOK,
                process, queue
  \* The new rows carry the space and the attempt of the callback.
  <2>4. ASSUME InsertRows(j) PROVE FenceInv'
    <3>1. UNCHANGED <<space, attempt, job>> /\ \A k \in Jobs : pc'[k] # "idle" => pc[k] # "idle"
      BY <2>4 DEF InsertRows, Return, TypeInv, TypeOK, process
    <3>2. /\ Origin(job[j]).space \in {space, Unknown}
          /\ attempt # None => Origin(job[j]).space = space /\ Origin(job[j]).attempt = attempt
      BY <2>4 DEF InsertRows, Origin, FenceInv, Fenced, TypeInv, WellFormed
    <3>3. \A t \in Targets : \A c \in Chunks : rows'[t][c] \in {rows[t][c], Origin(job[j])}
      BY <2>4 DEF InsertRows, TypeInv, TypeOK
    <3>4. NoForeignRows'
      BY <3>1, <3>2, <3>3 DEF FenceInv, NoForeignRows, Present
    <3> QED
      BY <3>1, <3>4 DEF FenceInv, Fenced
  <2>5. ASSUME AfterRows(j) PROVE FenceInv'
    BY <2>5 DEF AfterRows, Return, FenceInv, Fenced, NoForeignRows, Present, TypeInv, TypeOK,
                process
  <2> QED
    BY <1>2, <2>1, <2>2, <2>3, <2>4, <2>5 DEF Delicate
\* A migration stops every callback; a switch empties the tables.
<1>3. CASE Migrate
  BY <1>3 DEF Migrate, SwitchSpace, FinalizeSwitch, Stop, NoRows, FenceInv, Fenced,
              NoForeignRows, Present, store
<1> QED
  BY <1>1, <1>2, <1>3, StepKinds

\* Results of a previous space or of a previous rebuild attempt never land in
\* the vector tables, however late they are delivered: the token check of
\* `guard` together with the fact that a change of space stops the process.
THEOREM ForeignRowsNeverLand == Spec => []NoForeignRows
<1>1. Init => TypeInv
  BY InitTyped
<1>2. Init => FenceInv
  BY DEF Init, FenceInv, Fenced, NoForeignRows, Present, NoRows
<1> QED
  BY <1>1, <1>2, TypeStep, FenceStep, PTL DEF Spec, FenceInv

-----------------------------------------------------------------------------
LEMMA CoherenceStep == TypeInv /\ CoherenceInv /\ [Next]_vars => CoherenceInv'
<1> SUFFICES ASSUME TypeInv, CoherenceInv, [Next]_vars, NEW t \in Targets PROVE Coherent(t)'
  BY DEF CoherenceInv
<1> USE ValuesAssumption
<1>0. Coherent(t) /\ TypeInv'
  BY TypeStep DEF CoherenceInv
<1>1. CASE Harmless
  <2>1. /\ tainted'[t] = tainted[t]
        /\ \A c \in Chunks : rows'[t][c] \in {rows[t][c], None}
        /\ entry'[t] \in {entry[t], None} \/ entry'[t].outcome = "failure"
    BY <1>1 DEF Harmless
  <2>2. Writers(t)' \subseteq Writers(t)
    BY <1>1 DEF Harmless, Writers, Writing
  <2>3. \A k \in Writers(t)' : job'[k] = job[k] /\ pc'[k] = pc[k]
    BY <1>1 DEF Harmless, Writers, Writing
  <2>4. Present(t)' \subseteq Present(t) /\ \A c \in Present(t)' : rows'[t][c] = rows[t][c]
    BY <2>1 DEF Present
  <2>5. ~tainted[t] /\ EntryDescribesRows(t) => EntryDescribesRows(t)'
    BY <2>1, <2>4 DEF EntryDescribesRows
  <2>6. ~tainted[t] /\ WritersAgree(t) => WritersAgree(t)'
    BY <2>1, <2>2, <2>3, <2>4 DEF WritersAgree, Claims, Origin
  <2> QED
    BY <1>0, <2>1, <2>5, <2>6 DEF Coherent
<1>2. ASSUME NEW j \in Jobs, FailureCheck(j) PROVE Coherent(t)'
  BY <1>0, <1>2 DEF FailureCheck, Delivered, Writing, Coherent, EntryDescribesRows,
                    WritersAgree, Claims, Writers, Present, TypeInv, TypeOK, store, queue
\* A callback that joins writers of another origin taints the target.
<1>3. ASSUME NEW j \in Jobs, Guard(j), ~tainted'[t] PROVE Coherent(t)'
  <2>1. /\ ~tainted[t]
        /\ t \notin job[j].also
        /\ t = job[j].target => \A k \in Writers(t) : Origin(job[k]) = Origin(job[j])
    BY <1>3 DEF Guard, TypeInv, TypeOK
  <2>2. UNCHANGED <<rows, entry, job>> /\ pc' = [pc EXCEPT ![j] = "guarded"]
    BY <1>3 DEF Guard, store, queue
  <2>3. Writers(t)' = Writers(t) \cup (IF t = job[j].target THEN {j} ELSE {})
    BY <1>3, <2>1, <2>2 DEF Writers, Replaced, Guard, Delivered, Writing, TypeInv, TypeOK
  <2>4. \A k \in Jobs : k # j => pc'[k] = pc[k]
    BY <2>2 DEF TypeInv, TypeOK
  <2>5. pc'[j] = "guarded"
    BY <2>2 DEF TypeInv, TypeOK
  <2>6. EntryDescribesRows(t)'
    BY <1>0, <2>1, <2>2 DEF Coherent, EntryDescribesRows, Present
  <2>7. j \notin Writers(t)
    BY <1>3 DEF Writers, Guard, Delivered, Writing
  <2>8. WritersAgree(t)'
    BY <1>0, <2>1, <2>2, <2>3, <2>4, <2>5, <2>7 DEF Coherent, WritersAgree, Claims, Present, Origin
  <2> QED
    BY <2>6, <2>8 DEF Coherent
\* From here on the callback j is a writer of the targets it replaces.
<1>4. ASSUME NEW j \in Jobs, BeforeRows(j), ~tainted'[t] PROVE Coherent(t)'
  <2>1. UNCHANGED <<rows, job>> /\ pc' = [pc EXCEPT ![j] = "cleared"]
    BY <1>4 DEF BeforeRows, queue
  <2>2. Writers(t)' = Writers(t) /\ \A k \in Jobs : k # j => pc'[k] = pc[k]
    BY <1>4, <2>1 DEF BeforeRows, Writers, Writing, TypeInv, TypeOK
  <2>3. pc'[j] = "cleared" /\ pc[j] = "guarded"
    BY <1>4, <2>1 DEF BeforeRows, TypeInv, TypeOK
  <2>4. CASE t = job[j].target
    <3>1. entry'[t] = None
      BY <1>4, <2>4 DEF BeforeRows, TypeInv, TypeOK
    <3>2. EntryDescribesRows(t)' /\ \A k \in Jobs : Claims(t, job[k])'
      BY <3>1 DEF EntryDescribesRows, Claims
    <3>3. CASE tainted[t]
      <4>1. Writers(t) = {j}
        BY <1>4, <2>4, <3>3 DEF BeforeRows, TypeInv, TypeOK
      <4>2. WritersAgree(t)'
        BY <2>1, <2>2, <2>3, <2>4, <3>2, <4>1 DEF WritersAgree
      <4> QED
        BY <3>2, <4>2 DEF Coherent
    <3>4. CASE ~tainted[t]
      <4>1. WritersAgree(t)'
        BY <1>0, <2>1, <2>2, <2>3, <2>4, <3>2, <3>4
           DEF Coherent, WritersAgree, Present, Writers, Origin
      <4> QED
        BY <3>2, <4>1 DEF Coherent
    <3> QED
      BY <3>3, <3>4
  <2>5. CASE t # job[j].target
    <3>1. entry'[t] = entry[t] /\ tainted'[t] = tainted[t]
      BY <1>4, <2>5 DEF BeforeRows, TypeInv, TypeOK
    <3>2. j \notin Writers(t)
      BY <1>0, <1>4, <2>5, <3>1 DEF Coherent, WritersAgree
    <3>3. EntryDescribesRows(t)'
      BY <1>0, <1>4, <2>1, <3>1 DEF Coherent, EntryDescribesRows, Present
    <3>4. WritersAgree(t)'
      BY <1>0, <1>4, <2>1, <2>2, <3>1, <3>2 DEF Coherent, WritersAgree, Claims, Present, Origin, Writers
    <3> QED
      BY <3>3, <3>4 DEF Coherent
  <2> QED
    BY <2>4, <2>5
<1>5. ASSUME NEW j \in Jobs, DeleteRows(j), ~tainted'[t] PROVE Coherent(t)'
  <2>1. UNCHANGED <<entry, job, tainted>>
    BY <1>5 DEF DeleteRows, queue
  <2>2. \A k \in Jobs : k # j => pc'[k] = pc[k]
    BY <1>5 DEF DeleteRows, TypeInv, TypeOK
  <2>3. pc[j] = "cleared" /\ pc'[j] \in {"deleted", "emptied"}
    BY <1>5 DEF DeleteRows, TypeInv, TypeOK
  <2>4. Writers(t)' \subseteq Writers(t)
    BY <2>1, <2>2, <2>3 DEF Writers, Writing
  <2>5. CASE t \in Replaced(job[j])
    <3>1. Present(t)' = {}
      BY <1>5, <2>5 DEF DeleteRows, NoRows, Present, TypeInv, TypeOK
    <3>2. EntryDescribesRows(t)'
      BY <3>1 DEF EntryDescribesRows
    <3>3. WritersAgree(t)'
      BY <1>0, <1>5, <2>1, <2>2, <2>3, <2>4, <3>1 DEF Coherent, WritersAgree, Claims, Origin, Writers
    <3> QED
      BY <3>2, <3>3 DEF Coherent
  <2>6. CASE t \notin Replaced(job[j])
    <3>1. rows'[t] = rows[t] /\ j \notin Writers(t)
      BY <1>5, <2>6 DEF DeleteRows, Writers, TypeInv, TypeOK
    <3>2. EntryDescribesRows(t)'
      BY <1>0, <1>5, <2>1, <3>1 DEF Coherent, EntryDescribesRows, Present
    <3>3. WritersAgree(t)'
      BY <1>0, <1>5, <2>1, <2>2, <2>4, <3>1 DEF Coherent, WritersAgree, Claims, Present, Origin, Writers
    <3> QED
      BY <3>2, <3>3 DEF Coherent
  <2> QED
    BY <2>5, <2>6
<1>6. ASSUME NEW j \in Jobs, InsertRows(j), ~tainted'[t] PROVE Coherent(t)'
  <2>1. UNCHANGED <<entry, job, tainted>>
    BY <1>6 DEF InsertRows
  <2>2. \A k \in Jobs : k # j => pc'[k] = pc[k]
    BY <1>6 DEF InsertRows, Return, TypeInv, TypeOK
  <2>3. /\ pc[j] \in {"cleared", "deleted"}
        /\ pc'[j] = "idle" \/ (pc'[j] = "inserted" /\ pc[j] = "deleted")
    BY <1>6 DEF InsertRows, Return, TypeInv, TypeOK
  <2>4. Writers(t)' \subseteq Writers(t)
    BY <2>1, <2>2, <2>3 DEF Writers, Writing
  <2>5. CASE t \in Replaced(job[j])
    <3>1. j \in Writers(t)
      BY <2>3, <2>5 DEF Writers, Writing
    <3>2. \A c \in Chunks : rows'[t][c] \in {rows[t][c], Origin(job[j])}
      BY <1>6, <2>5 DEF InsertRows, TypeInv, TypeOK
    <3>3. \A c \in Present(t)' : \/ c \in Present(t) /\ rows'[t][c] = rows[t][c]
                               \/ rows'[t][c] = Origin(job[j])
      BY <3>2 DEF Present
    <3>4. /\ EntryDescribesRows(t)
          /\ Claims(t, job[j])
      BY <1>0, <1>6, <2>1, <2>3, <3>1 DEF Coherent, WritersAgree
    <3>5. EntryDescribesRows(t)'
      BY <2>1, <3>3, <3>4 DEF EntryDescribesRows, Claims, Origin
    <3>6. ASSUME NEW k \in Writers(t)' PROVE
             /\ t = job'[k].target
             /\ \A i \in Writers(t)' : Origin(job'[i]) = Origin(job'[k])
             /\ pc'[k] # "guarded" => Claims(t, job[k])'
             /\ pc'[k] \in {"deleted", "inserted"}
                  => \A c \in Present(t)' : rows'[t][c] = Origin(job'[k])
      <4>1. k \in Writers(t) /\ k \in Jobs /\ j \in Writers(t)
        BY <2>4, <3>1 DEF Writers
      <4>2. Origin(job[k]) = Origin(job[j])
        BY <1>0, <1>6, <2>1, <4>1 DEF Coherent, WritersAgree
      <4>3. pc'[k] \in {"deleted", "inserted"} => pc[k] \in {"deleted", "inserted"}
        BY <2>2, <2>3, <4>1
      <4>4. pc'[k] # "guarded" => pc[k] # "guarded"
        BY <2>2, <2>3, <4>1
      <4> QED
        BY <1>0, <1>6, <2>1, <2>4, <3>3, <4>1, <4>2, <4>3, <4>4
           DEF Coherent, WritersAgree, Claims, Origin
    <3>7. WritersAgree(t)'
      BY <3>6 DEF WritersAgree
    <3> QED
      BY <3>5, <3>7 DEF Coherent
  <2>6. CASE t \notin Replaced(job[j])
    <3>1. rows'[t] = rows[t] /\ j \notin Writers(t)
      BY <1>6, <2>6 DEF InsertRows, Writers, TypeInv, TypeOK
    <3>2. EntryDescribesRows(t)'
      BY <1>0, <1>6, <2>1, <3>1 DEF Coherent, EntryDescribesRows, Present
    <3>3. WritersAgree(t)'
      BY <1>0, <1>6, <2>1, <2>2, <2>4, <3>1
         DEF Coherent, WritersAgree, Claims, Present, Origin, Writers
    <3> QED
      BY <3>2, <3>3 DEF Coherent
  <2> QED
    BY <2>5, <2>6
<1>7. ASSUME NEW j \in Jobs, AfterRows(j), ~tainted'[t] PROVE Coherent(t)'
  <2>1. UNCHANGED <<rows, job, tainted>>
    BY <1>7 DEF AfterRows
  <2>2. \A k \in Jobs : k # j => pc'[k] = pc[k]
    BY <1>7 DEF AfterRows, Return, TypeInv, TypeOK
  <2>3. pc[j] = "inserted" /\ pc'[j] = "idle"
    BY <1>7 DEF AfterRows, Return, TypeInv, TypeOK
  <2>4. Writers(t)' = Writers(t) \ {j}
    BY <2>1, <2>2, <2>3 DEF Writers, Writing
  <2>5. CASE t = job[j].target
    <3>1. j \in Writers(t)
      BY <2>3, <2>5 DEF Writers, Replaced, Writing
    <3>2. \A c \in Present(t) : rows[t][c] = Origin(job[j])
      BY <1>0, <1>7, <2>1, <2>3, <3>1 DEF Coherent, WritersAgree
    <3>3. entry'[t].space = job[j].space /\ entry'[t].version = job[j].version
      BY <1>7, <2>5 DEF AfterRows, TypeInv, TypeOK
    <3>4. EntryDescribesRows(t)'
      BY <2>1, <3>2, <3>3 DEF EntryDescribesRows, Present, Origin
    <3>5. \A k \in Writers(t) : job[k].space = job[j].space /\ job[k].version = job[j].version
      BY <1>0, <1>7, <2>1, <3>1 DEF Coherent, WritersAgree, Origin
    <3>6. WritersAgree(t)'
      BY <1>0, <1>7, <2>1, <2>2, <2>4, <3>3, <3>5
         DEF Coherent, WritersAgree, Claims, Present, Origin, Writers
    <3> QED
      BY <3>4, <3>6 DEF Coherent
  <2>6. CASE t # job[j].target
    <3>1. entry'[t] = entry[t]
      BY <1>7, <2>6 DEF AfterRows, TypeInv, TypeOK
    <3>2. EntryDescribesRows(t)'
      BY <1>0, <1>7, <2>1, <3>1 DEF Coherent, EntryDescribesRows, Present
    <3>3. WritersAgree(t)'
      BY <1>0, <1>7, <2>1, <2>2, <2>4, <3>1
         DEF Coherent, WritersAgree, Claims, Present, Origin, Writers
    <3> QED
      BY <3>2, <3>3 DEF Coherent
  <2> QED
    BY <2>5, <2>6
<1>8. CASE Migrate
  <2>1. Writers(t)' = {}
    BY <1>8 DEF Migrate, SwitchSpace, FinalizeSwitch, Stop, Writers, Writing
  <2>2. ASSUME NEW s \in Spaces, NEW a \in Attempts, SwitchSpace(s, a) PROVE Coherent(t)'
    BY <2>1, <2>2 DEF SwitchSpace, Coherent, EntryDescribesRows, WritersAgree
  <2>3. ASSUME FinalizeSwitch PROVE Coherent(t)'
    BY <1>0, <2>1, <2>3 DEF FinalizeSwitch, Coherent, EntryDescribesRows, WritersAgree, Present,
                            store
  <2> QED
    BY <1>8, <2>2, <2>3 DEF Migrate
<1> QED
  BY <1>1, <1>2, <1>3, <1>4, <1>5, <1>6, <1>7, <1>8, StepKinds DEF Delicate, Coherent

\* Wherever a write is interrupted, and whatever edits, late results, failure
\* reports and reconciliations interleave with it, a target that the index
\* calls complete holds the rows of its current input in the current space,
\* unless writers of different inputs overlapped on it.
THEOREM CompleteTargetsAreTruthful == Spec => []CompleteIsTruthful
<1>1. Init => CoherenceInv
  BY DEF Init, CoherenceInv, Coherent, EntryDescribesRows, WritersAgree, Writers, Writing
<1>2. TypeInv /\ CoherenceInv => CompleteIsTruthful
  <2> SUFFICES ASSUME TypeInv, CoherenceInv, NEW t \in Targets, State(t) = "complete",
                      ~tainted[t]
               PROVE Truthful(t)
    BY DEF CompleteIsTruthful
  <2>1. /\ entry[t] # None
        /\ entry[t].outcome = "success"
        /\ Current(space, source[t], entry[t])
        /\ ChunksExactly(Present(t), entry[t].chunks)
    BY DEF State, Classify
  <2>2. \A c \in Present(t) : /\ rows[t][c].space = entry[t].space
                             /\ rows[t][c].version = entry[t].version
    BY <2>1 DEF CoherenceInv, Coherent, EntryDescribesRows
  <2> QED
    BY <2>1, <2>2 DEF Truthful, Current, ChunksExactly
<1> QED
  BY InitTyped, <1>1, <1>2, TypeStep, CoherenceStep, PTL DEF Spec

=============================================================================
