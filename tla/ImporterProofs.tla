---------------------------- MODULE ImporterProofs ----------------------------
(***************************************************************************)
(* Proofs about Importer, for any number of runs and sessions of any       *)
(* length: every reachable state is typed, a deletion holds, parents set   *)
(* by the operator stay, and a run that succeeds has left all it has read. *)
(***************************************************************************)
EXTENDS Importer, FiniteSetTheorems, WellFoundedInduction, TLAPS

RunType == [step : Steps, read : SUBSET Entries, todo : SUBSET Entries,
            target : Threads \cup {None}, jobs : SUBSET Jobs,
            left : SUBSET Entries, orphans : SUBSET Entries,
            dead : SUBSET Entries, acted : BOOLEAN, error : BOOLEAN]

\* The part of TypeOK that the proofs need.
Typed ==
    /\ kind \in Kinds
    /\ lineage \in [Entries -> SUBSET Entries]
    /\ source \subseteq Entries /\ stored \subseteq Entries
    /\ thread \in Threads \cup {None}
    /\ parents \in [Entries -> SUBSET Entries] /\ chosen \in [Entries -> SUBSET Entries]
    /\ marker \in {"none", "revivable", "forbid"}
    /\ run \in [Runs -> RunType]

\* The steps of a prune.
Pruning == {"list", "filter", "prune", "drop"}

\* A run that is about to send has something to send; only the runs of a vault
\* prune.
RunFits(r) ==
    /\ run[r].step = "send" => run[r].todo # {}
    /\ run[r].step \in Pruning => kind = "vault"

\* A marker stands for a thread that is gone; a vault has neither markers nor
\* parents.
MarkerFits ==
    /\ marker # "none" => thread = None /\ kind # "vault"
    /\ kind = "vault" => \A e \in Entries : chosen[e] = {}

Inv == Typed /\ (\A r \in Runs : RunFits(r)) /\ MarkerFits /\ ChosenParentsStay

-----------------------------------------------------------------------------
(* Chunks. *)

\* What remains to be sent has a first entry, so the next chunk is not empty.
LEMMA ChunkIsNotEmpty ==
    ASSUME NEW r \in Runs, run[r].todo \in SUBSET Entries, run[r].todo # {}
    PROVE  Chunk(r) # {}
<1> DEFINE T == run[r].todo
<1>1. T \subseteq Nat
  BY SizesAssumption DEF Entries
<1>2. PICK x \in T : \A y \in T : ~(<<y, x>> \in OpToRel(<, Nat))
  <2> HIDE DEF T
  <2>1. T # {}
    BY DEF T
  <2> QED BY <1>1, <2>1, WFMin, NatLessThanWellFounded, Zenon
<1>3. \A y \in T : ~(y < x)
  BY <1>1, <1>2 DEF OpToRel
<1>4. {d \in T : d <= x} = {x}
  BY <1>1, <1>3
<1>5. Cardinality({x}) = 1
  BY FS_Singleton
<1>6. x \in Chunk(r)
  BY <1>4, <1>5, SizesAssumption DEF Chunk
<1> QED BY <1>6

-----------------------------------------------------------------------------
(* The records of the runs. *)

LEMMA IdleTyped == Idle \in RunType /\ Idle.step = "idle"
BY SessionAssumption DEF Idle, RunType, Steps, Resting

LEMMA EndedTyped ==
    ASSUME Typed, NEW r \in Runs, NEW s \in Steps
    PROVE  Ended(r, s) \in RunType /\ Ended(r, s).step = s
<1>1. Idle \in RunType
  BY IdleTyped
<1>2. run[r] \in RunType
  BY DEF Typed
<1>3. run[r].read \in SUBSET Entries /\ run[r].target \in Threads \cup {None}
  BY <1>2 DEF RunType
<1> HIDE DEF Idle
<1> QED BY <1>1, <1>3 DEF Ended, RunType

\* A step of one run that leaves the server's part of the invariant alone.
LEMMA RunMoves ==
    ASSUME Inv, NEW r \in Runs, NEW next \in RunType,
           next.step = "send" => next.todo # {},
           next.step \in Pruning => kind = "vault",
           UNCHANGED kind,
           Reply(r, next) \/ Go(r, next) \/ run' = [run EXCEPT ![r] = next]
    PROVE  run' \in [Runs -> RunType] /\ \A o \in Runs : RunFits(o)'
<1>1. run \in [Runs -> RunType]
  BY DEF Inv, Typed
<1>2. CASE run' = [run EXCEPT ![r] = next]
  BY <1>1, <1>2 DEF Inv, RunFits
<1>3. CASE UNCHANGED run
  BY <1>1, <1>3 DEF Inv, RunFits
<1> QED BY <1>2, <1>3 DEF Reply, Go

\* Entries that are deleted leave the lists of the prunes and nothing else.
LEMMA WithoutTyped ==
    ASSUME NEW runs \in [Runs -> RunType], NEW es \in SUBSET Entries, NEW r \in Runs
    PROVE  /\ Without(runs, es) \in [Runs -> RunType]
           /\ Without(runs, es)[r].step = runs[r].step
           /\ Without(runs, es)[r].todo = runs[r].todo
<1>1. ASSUME NEW o \in Runs
      PROVE  LET w == [runs[o] EXCEPT !.left = @ \ es,
                                      !.dead = @ \cup (runs[o].left \cap es)]
             IN w \in RunType /\ w.step = runs[o].step /\ w.todo = runs[o].todo
  <2>1. runs[o] \in RunType
    OBVIOUS
  <2> QED BY <2>1 DEF RunType
<1> QED BY <1>1 DEF Without

-----------------------------------------------------------------------------
(* The invariant holds at first and is kept by every action. *)

\* The server's part of the invariant, when a step leaves the server alone.
LEMMA ServerRests ==
    ASSUME Inv, UNCHANGED <<session, source, server>>,
           run' \in [Runs -> RunType], \A o \in Runs : RunFits(o)'
    PROVE  Inv'
BY DEF Inv, Typed, MarkerFits, ChosenParentsStay, session, server

LEMMA InitInv == Init => Inv
<1> SUFFICES ASSUME Init PROVE Inv
  OBVIOUS
<1>1. run \in [Runs -> RunType] /\ \A r \in Runs : run[r].step = "idle"
  BY IdleTyped DEF Init
<1>2. lineage \in [Entries -> SUBSET Entries]
  BY SessionAssumption DEF Init
<1>3. source \subseteq Entries
  BY SizesAssumption DEF Init, Entries
<1>4. Typed
  BY <1>1, <1>2, <1>3 DEF Init, Typed, NoParents
<1>5. \A r \in Runs : RunFits(r)
  BY <1>1 DEF RunFits, Pruning
<1>6. MarkerFits /\ ChosenParentsStay
  BY DEF Init, MarkerFits, ChosenParentsStay, NoParents
<1> QED BY <1>4, <1>5, <1>6 DEF Inv

\* Reading the source and looking things up: the server stays as it is.
LEMMA ReadingKeepsInv ==
    ASSUME Inv, NEW r \in Runs,
           \/ Start(r) \/ FindThread(r) \/ LookupMemory(r) \/ LookedUp(r)
           \/ Rewired(r) \/ LookupParents(r) \/ RewiredDuplicates(r)
    PROVE  Inv'
<1>0. run[r] \in RunType /\ kind \in Kinds /\ thread \in Threads \cup {None}
      /\ source \in SUBSET Entries /\ RunFits(r)
  BY DEF Inv, Typed
<1>f. \A s \in Steps : Ended(r, s) \in RunType /\ Ended(r, s).step = s
  BY EndedTyped DEF Inv
<1>s. {"done", "failed", "skipped"} \subseteq Steps
  BY DEF Steps, Resting
<1>1. CASE Start(r)
  <2>1. PICK snapshot \in IF kind = "append" THEN {thread, None} ELSE {None} :
          Go(r, [Idle EXCEPT
                  !.step = IF kind = "append" THEN "thread"
                           ELSE IF source = {} THEN "list" ELSE "send",
                  !.read = source, !.target = snapshot,
                  !.left = IF kind = "append" THEN source ELSE {},
                  !.todo = IF kind = "append" THEN {} ELSE source])
    BY <1>1 DEF Start
  <2> DEFINE next == [Idle EXCEPT
                  !.step = IF kind = "append" THEN "thread"
                           ELSE IF source = {} THEN "list" ELSE "send",
                  !.read = source, !.target = snapshot,
                  !.left = IF kind = "append" THEN source ELSE {},
                  !.todo = IF kind = "append" THEN {} ELSE source]
  <2>2. snapshot \in Threads \cup {None}
    BY <1>0
  <2>3. /\ next \in RunType
        /\ next.step = IF kind = "append" THEN "thread"
                       ELSE IF source = {} THEN "list" ELSE "send"
        /\ next.todo = IF kind = "append" THEN {} ELSE source
    <3> HIDE DEF Idle
    <3>1. Idle \in RunType
      BY IdleTyped
    <3> QED BY <1>0, <2>2, <3>1 DEF RunType, Steps
  <2>4. next.step = "send" => next.todo # {}
    BY <2>3
  <2>5. next.step \in Pruning => kind = "vault"
    <3>1. source # {} \/ kind = "vault"
      BY <1>1 DEF Start
    <3> HIDE DEF next
    <3> QED BY <2>3, <3>1 DEF Pruning
  <2> HIDE DEF next
  <2>6. Go(r, next)
    BY <2>1 DEF next
  <2> QED BY <1>1, <2>3, <2>4, <2>5, <2>6, RunMoves, ServerRests DEF Start, session, server
<1>2. CASE FindThread(r)
  <2> DEFINE a == [run[r] EXCEPT !.step = "lookup"]
             b == [run[r] EXCEPT !.step = "lookup", !.target = thread]
  <2>1. a \in RunType /\ a.step = "lookup" /\ b \in RunType /\ b.step = "lookup"
    BY <1>0 DEF RunType, Steps
  <2>2. Go(r, a) \/ Reply(r, b)
    BY <1>2 DEF FindThread
  <2> HIDE DEF a, b
  <2> QED BY <1>2, <2>1, <2>2, RunMoves, ServerRests DEF FindThread, Pruning, session, server
<1>3. CASE LookupMemory(r)
  <2>1. PICK e \in run[r].left :
         LET rest == [run[r] EXCEPT !.left = @ \ {e}] IN
            Reply(r,
              IF e \notin stored THEN [rest EXCEPT !.todo = @ \cup {e}]
              ELSE IF run[r].target # thread THEN Ended(r, "failed")
              ELSE IF parents[e] = {} THEN [rest EXCEPT !.orphans = @ \cup {e}]
              ELSE rest)
    BY <1>3 DEF LookupMemory
  <2> DEFINE rest == [run[r] EXCEPT !.left = @ \ {e}]
             a == [rest EXCEPT !.todo = @ \cup {e}]
             b == [rest EXCEPT !.orphans = @ \cup {e}]
  <2>2. e \in Entries
    BY <1>0 DEF RunType
  <2>3. rest \in RunType /\ rest.step = "lookup"
    BY <1>0, <1>3 DEF RunType, LookupMemory, At
  <2>4. Reply(r, a) \/ Reply(r, Ended(r, "failed")) \/ Reply(r, b) \/ Reply(r, rest)
    BY <2>1
  <2> HIDE DEF rest
  <2>5. a \in RunType /\ a.step = "lookup" /\ b \in RunType /\ b.step = "lookup"
    BY <2>2, <2>3 DEF RunType
  <2> HIDE DEF a, b
  <2> QED BY <1>3, <1>f, <1>s, <2>3, <2>4, <2>5, RunMoves, ServerRests
          DEF LookupMemory, Pruning, session, server
<1>4. CASE LookedUp(r)
  <2> DEFINE next == [run[r] EXCEPT !.step = IF run[r].todo = {} THEN "observe" ELSE "send"]
  <2>1. /\ next \in RunType /\ next.todo = run[r].todo
        /\ next.step = IF run[r].todo = {} THEN "observe" ELSE "send"
    BY <1>0 DEF RunType, Steps
  <2>2. Go(r, next)
    BY <1>4 DEF LookedUp
  <2> HIDE DEF next
  <2> QED BY <1>4, <2>1, <2>2, RunMoves, ServerRests DEF LookedUp, Pruning, session, server
<1>5. CASE Rewired(r)
  <2> DEFINE next == [run[r] EXCEPT !.step = IF run[r].todo # {} THEN "send"
                                     ELSE IF kind = "vault" THEN "list" ELSE "observe"]
  <2>1. /\ next \in RunType /\ next.todo = run[r].todo
        /\ next.step = IF run[r].todo # {} THEN "send"
                       ELSE IF kind = "vault" THEN "list" ELSE "observe"
    BY <1>0 DEF RunType, Steps
  <2>2. Go(r, next)
    BY <1>5 DEF Rewired
  <2> HIDE DEF next
  <2> QED BY <1>5, <2>1, <2>2, RunMoves, ServerRests DEF Rewired, Pruning, session, server
<1>6. CASE LookupParents(r)
  <2>1. PICK e \in run[r].orphans :
         LET ps == IF run[r].target = thread THEN lineage[e] \cap stored ELSE {} IN
            Reply(r, [run[r] EXCEPT !.orphans = @ \ {e},
                                    !.jobs = IF ps = {} THEN {}
                                             ELSE {[entry |-> e, parents |-> ps]}])
    BY <1>6 DEF LookupParents
  <2> DEFINE ps == IF run[r].target = thread THEN lineage[e] \cap stored ELSE {}
             js == IF ps = {} THEN {} ELSE {[entry |-> e, parents |-> ps]}
             next == [run[r] EXCEPT !.orphans = @ \ {e}, !.jobs = js]
  <2>2. e \in Entries
    BY <1>0 DEF RunType
  <2>3. ps \in SUBSET Entries
    BY <2>2 DEF Inv, Typed
  <2>4. js \in SUBSET Jobs
    <3> HIDE DEF ps
    <3> QED BY <2>2, <2>3 DEF Jobs
  <2>5. Reply(r, next)
    BY <2>1
  <2> HIDE DEF js
  <2>6. next \in RunType /\ next.step = "duplicates"
    BY <1>0, <1>6, <2>4 DEF RunType, LookupParents, At
  <2> HIDE DEF next
  <2> QED BY <1>6, <2>5, <2>6, RunMoves, ServerRests DEF LookupParents, Pruning, session, server
<1>7. CASE RewiredDuplicates(r)
  BY <1>7, <1>f, <1>s, RunMoves, ServerRests DEF RewiredDuplicates, Pruning, session, server
<1> QED BY <1>1, <1>2, <1>3, <1>4, <1>5, <1>6, <1>7

\* A batch: a memory that is there keeps its parents.
LEMMA BatchKeepsInv ==
    ASSUME Inv, NEW r \in Runs, AddMemoriesBatch(r)
    PROVE  Inv'
<1>0. run[r] \in RunType
  BY DEF Inv, Typed
<1>f. \A s \in Steps : Ended(r, s) \in RunType /\ Ended(r, s).step = s
  BY EndedTyped DEF Inv
<1>s. {"done", "failed", "skipped"} \subseteq Steps
  BY DEF Steps, Resting
<1>k. UNCHANGED <<session, source>>
  BY DEF AddMemoriesBatch
<1>1. CASE /\ Reply(r, Ended(r, "skipped")) \/ Reply(r, Ended(r, "failed"))
           /\ UNCHANGED server
  BY <1>1, <1>f, <1>s, <1>k, RunMoves, ServerRests DEF Pruning, session, server
<1>2. ASSUME NEW t \in Targets, Write(r, t)
      PROVE  Inv'
  <2> DEFINE batch == Chunk(r)
             next == [run[r] EXCEPT !.step = "rewire", !.target = t, !.acted = TRUE,
                                    !.todo = @ \ batch, !.jobs = Outcomes(batch)]
  <2>1. batch \in SUBSET Entries
    BY <1>0 DEF Chunk, RunType
  <2>2. t \in Threads
    BY DEF Targets, Fresh, Inv, Typed
  <2>3. Outcomes(batch) \in SUBSET Jobs
    <3> HIDE DEF batch
    <3>1. stored \in SUBSET Entries
      BY DEF Inv, Typed
    <3> QED BY <2>1, <3>1 DEF Outcomes, Jobs
  <2>4. next \in RunType /\ next.step = "rewire"
    <3> DEFINE js == Outcomes(batch)
               rest == run[r].todo \ batch
    <3>1. js \in SUBSET Jobs /\ rest \in SUBSET Entries
      BY <1>0, <2>3 DEF RunType
    <3>2. next = [run[r] EXCEPT !.step = "rewire", !.target = t, !.acted = TRUE,
                                !.todo = rest, !.jobs = js]
      BY <1>0 DEF RunType
    <3> HIDE DEF js, rest, next, batch
    <3> QED BY <1>0, <2>2, <3>1, <3>2 DEF RunType, Steps
  <2>5. Reply(r, next)
    BY <1>2 DEF Write
  <2>6. UNCHANGED <<kind, lineage, source, chosen>>
    BY <1>2, <1>k DEF Write, session
  <2>7. run' \in [Runs -> RunType] /\ \A o \in Runs : RunFits(o)'
    <3> HIDE DEF next
    <3> QED BY <2>4, <2>5, <2>6, RunMoves DEF Pruning
  <2>8. /\ thread' = t
        /\ stored' = stored \cup batch
        /\ parents' = [e \in Entries |->
             IF e \in batch \ stored THEN ParentsOfNew(e, batch) ELSE parents[e]]
        /\ marker' = IF kind = "vault" THEN marker ELSE "none"
    BY <1>2 DEF Write
  <2> HIDE DEF batch, next
  <2>9. parents' \in [Entries -> SUBSET Entries]
    BY <2>1, <2>8 DEF ParentsOfNew, Inv, Typed
  <2>10. Typed'
    BY <2>1, <2>2, <2>6, <2>7, <2>8, <2>9 DEF Inv, Typed
  <2>11. MarkerFits'
    BY <2>6, <2>8 DEF Inv, MarkerFits
  <2>12. ChosenParentsStay'
    BY <2>6, <2>8 DEF Inv, ChosenParentsStay
  <2> QED BY <2>7, <2>10, <2>11, <2>12 DEF Inv
<1> QED BY <1>1, <1>2 DEF AddMemoriesBatch

\* A rewire: a memory with parents, those of the operator among them, keeps them.
LEMMA RewireKeepsInv ==
    ASSUME Inv, NEW r \in Runs, UpdateMemoryParents(r)
    PROVE  Inv'
<1>0. run[r] \in RunType /\ Typed
  BY DEF Inv, Typed
<1>f. Ended(r, "failed") \in RunType /\ Ended(r, "failed").step = "failed"
  BY <1>0, EndedTyped DEF Steps, Resting
<1>k. UNCHANGED <<session, source, thread, stored, chosen, labelled, observed, marker>>
      /\ run[r].step \in {"rewire", "duplicates"}
  BY DEF UpdateMemoryParents
<1>1. PICK j \in run[r].jobs :
         IF run[r].target # thread
         THEN Reply(r, Ended(r, "failed")) /\ UNCHANGED parents
         ELSE /\ parents' = IF Rewirable(j)
                            THEN [parents EXCEPT ![j.entry] = j.parents \cap stored]
                            ELSE parents
              /\ Reply(r, [run[r] EXCEPT !.jobs = @ \ {j}])
  BY DEF UpdateMemoryParents
<1> DEFINE next == [run[r] EXCEPT !.jobs = @ \ {j}]
<1>2. next \in RunType /\ next.step = run[r].step
  BY <1>0 DEF RunType
<1>3. j.entry \in Entries /\ j.parents \in SUBSET Entries
  BY <1>0 DEF RunType, Jobs
<1>4. Reply(r, Ended(r, "failed")) \/ Reply(r, next)
  BY <1>1
<1> HIDE DEF next
<1>5. run' \in [Runs -> RunType] /\ \A o \in Runs : RunFits(o)'
  BY <1>f, <1>k, <1>2, <1>4, RunMoves DEF Pruning, session
<1>6. \/ UNCHANGED parents
      \/ (/\ parents[j.entry] = {}
          /\ parents' = [parents EXCEPT ![j.entry] = j.parents \cap stored])
  BY <1>1 DEF Rewirable
<1>7. parents' \in [Entries -> SUBSET Entries]
  BY <1>0, <1>3, <1>6 DEF Typed
<1>8. ChosenParentsStay'
  BY <1>0, <1>3, <1>6, <1>k DEF Inv, Typed, ChosenParentsStay
<1>9. Typed' /\ MarkerFits'
  BY <1>0, <1>5, <1>7, <1>k DEF Inv, Typed, MarkerFits, session
<1> QED BY <1>5, <1>8, <1>9 DEF Inv

\* Observations and labels are not in the invariant.
LEMMA EndingKeepsInv ==
    ASSUME Inv, NEW r \in Runs, RecordObservations(r) \/ AddLabels(r)
    PROVE  Inv'
<1>0. run[r] \in RunType /\ Typed
  BY DEF Inv, Typed
<1>f. \A s \in Steps : Ended(r, s) \in RunType /\ Ended(r, s).step = s
  BY <1>0, EndedTyped
<1>s. {"done", "failed"} \subseteq Steps
  BY DEF Steps, Resting
<1> DEFINE a == [run[r] EXCEPT !.step = IF run[r].acted THEN "duplicates" ELSE "label"]
           b == [run[r] EXCEPT !.step = "duplicates"]
<1>1. a \in RunType /\ a.step \in {"duplicates", "label"}
      /\ b \in RunType /\ b.step = "duplicates"
  BY <1>0 DEF RunType, Steps
<1>2. /\ UNCHANGED <<kind, lineage, source, thread, stored, parents, chosen, marker>>
      /\ \/ Reply(r, Ended(r, "done")) \/ Reply(r, Ended(r, "failed"))
         \/ Reply(r, a) \/ Reply(r, b)
  BY DEF RecordObservations, AddLabels, session
<1> HIDE DEF a, b
<1>3. run' \in [Runs -> RunType] /\ \A o \in Runs : RunFits(o)'
  BY <1>f, <1>s, <1>1, <1>2, RunMoves DEF Pruning
<1> QED BY <1>0, <1>2, <1>3 DEF Inv, Typed, MarkerFits, ChosenParentsStay

-----------------------------------------------------------------------------
(* Deletions. *)

\* Deletions leave every run where it is.
LEMMA WithoutFits ==
    ASSUME NEW runs \in [Runs -> RunType], NEW es \in SUBSET Entries,
           run' = Without(runs, es), UNCHANGED kind,
           \A o \in Runs : /\ runs[o].step = "send" => runs[o].todo # {}
                           /\ runs[o].step \in Pruning => kind = "vault"
    PROVE  run' \in [Runs -> RunType] /\ \A o \in Runs : RunFits(o)'
<1>1. Without(runs, es) \in [Runs -> RunType]
  <2>1. \A o \in Runs : [runs[o] EXCEPT !.left = @ \ es,
                                        !.dead = @ \cup (runs[o].left \cap es)] \in RunType
    BY DEF RunType
  <2> QED BY <2>1 DEF Without
<1>2. \A o \in Runs : /\ Without(runs, es)[o].step = runs[o].step
                      /\ Without(runs, es)[o].todo = runs[o].todo
  BY WithoutTyped
<1> QED BY <1>1, <1>2 DEF RunFits

\* A thread that is deleted takes its parents and the operator's with it.
LEMMA DeletionKeepsServer ==
    ASSUME Inv, DeleteThread, UNCHANGED <<session, source>>,
           marker' = "none" \/ (marker' \in {"revivable", "forbid"} /\ kind # "vault"),
           run' \in [Runs -> RunType], \A o \in Runs : RunFits(o)'
    PROVE  Inv'
<1>1. \A e \in Entries : chosen'[e] = {}
  BY DEF DeleteThread, NoParents
<1>2. Typed'
  BY DEF Inv, Typed, DeleteThread, NoParents, session
<1>3. MarkerFits'
  BY <1>1 DEF MarkerFits, DeleteThread, session
<1>4. ChosenParentsStay'
  BY <1>1 DEF ChosenParentsStay
<1> QED BY <1>2, <1>3, <1>4 DEF Inv

\* The prune of a vault, in which nobody has set parents.
LEMMA PruneKeepsInv ==
    ASSUME Inv, NEW r \in Runs,
           \/ ListMemories(r) \/ FilterCandidates(r) \/ DeleteMemory(r)
           \/ CountMemories(r) \/ DropThread(r)
    PROVE  Inv'
<1>0. run[r] \in RunType /\ Typed /\ run \in [Runs -> RunType] /\ stored \in SUBSET Entries
  BY DEF Inv, Typed
<1>f. \A s \in Steps : Ended(r, s) \in RunType /\ Ended(r, s).step = s
  BY <1>0, EndedTyped
<1>s. {"done", "failed"} \subseteq Steps
  BY DEF Steps, Resting
<1>v. kind = "vault" /\ run[r].step \in Pruning
  BY DEF Inv, RunFits, Pruning, At, ListMemories, FilterCandidates, DeleteMemory,
         CountMemories, DropThread
<1>c. \A e \in Entries : chosen[e] = {}
  BY <1>v DEF Inv, MarkerFits
<1>1. CASE ListMemories(r)
  <2> DEFINE next == [run[r] EXCEPT !.step = "filter", !.left = stored \ run[r].read,
                                    !.target = thread]
  <2>1. next \in RunType /\ next.step = "filter"
    BY <1>0 DEF RunType, Steps, Typed
  <2>2. Reply(r, next) /\ UNCHANGED <<session, source, server>>
    BY <1>1 DEF ListMemories
  <2> HIDE DEF next
  <2> QED BY <1>v, <2>1, <2>2, RunMoves, ServerRests DEF session
<1>2. CASE FilterCandidates(r)
  <2> DEFINE left == Stale(r, run[r].left)
             dead == Stale(r, run[r].dead)
             next == [run[r] EXCEPT !.step = "prune", !.left = left, !.dead = dead]
  <2>1. left \in SUBSET Entries /\ dead \in SUBSET Entries
    BY <1>0 DEF Stale, RunType
  <2>2. Go(r, Ended(r, "done")) \/ Go(r, next)
    BY <1>2 DEF FilterCandidates
  <2> HIDE DEF left, dead
  <2>3. next \in RunType /\ next.step = "prune"
    BY <1>0, <2>1 DEF RunType, Steps
  <2>4. UNCHANGED <<session, source, server>>
    BY <1>2 DEF FilterCandidates
  <2> HIDE DEF next
  <2> QED BY <1>f, <1>s, <1>v, <2>2, <2>3, <2>4, RunMoves, ServerRests DEF session
<1>3. CASE DeleteMemory(r)
  <2>1. PICK e \in run[r].left \cup run[r].dead, fails \in BOOLEAN, effect \in BOOLEAN :
         LET own == run[r].left \cap {e}
             next == [run[r] EXCEPT !.left = @ \ {e}, !.dead = @ \ {e},
                                    !.acted = @ \/ ~fails, !.error = @ \/ fails]
         IN IF effect
            THEN /\ stored' = stored \ own
                 /\ run' = Without([run EXCEPT ![r] = next], own)
            ELSE run' = [run EXCEPT ![r] = next] /\ UNCHANGED stored
    BY <1>3 DEF DeleteMemory
  <2> DEFINE own == run[r].left \cap {e}
             next == [run[r] EXCEPT !.left = @ \ {e}, !.dead = @ \ {e},
                                    !.acted = @ \/ ~fails, !.error = @ \/ fails]
  <2>2. own \in SUBSET Entries
    BY <1>0 DEF RunType
  <2>3. next \in RunType /\ next.step = run[r].step
    BY <1>0 DEF RunType
  <2>4. UNCHANGED <<session, source, thread, parents, chosen, marker>>
    BY <1>3 DEF DeleteMemory
  <2>5. \/ stored' = stored \ own /\ run' = Without([run EXCEPT ![r] = next], own)
        \/ run' = [run EXCEPT ![r] = next] /\ UNCHANGED stored
    BY <2>1
  <2> HIDE DEF own, next
  <2>6. run[r].step # "send"
    BY <1>v DEF Pruning
  <2>7. run' \in [Runs -> RunType] /\ \A o \in Runs : RunFits(o)'
    <3> DEFINE runs == [run EXCEPT ![r] = next]
    <3>1. runs \in [Runs -> RunType]
      BY <1>0, <2>3
    <3>2. \A o \in Runs : /\ runs[o].step = "send" => runs[o].todo # {}
                          /\ runs[o].step \in Pruning => kind = "vault"
      BY <1>0, <1>v, <2>3, <2>6 DEF Inv, RunFits
    <3>3. CASE run' = runs
      BY <2>4, <3>1, <3>2, <3>3 DEF RunFits, session
    <3>4. CASE run' = Without(runs, own)
      <4> HIDE DEF runs
      <4> QED BY <2>2, <2>4, <3>1, <3>2, <3>4, WithoutFits DEF session
    <3> QED BY <2>5, <3>3, <3>4
  <2>8. stored' \subseteq Entries
    BY <1>0, <2>5
  <2> QED BY <1>0, <1>c, <1>v, <2>4, <2>7, <2>8
          DEF Inv, Typed, MarkerFits, ChosenParentsStay, session
<1>4. CASE CountMemories(r)
  <2> DEFINE next == [run[r] EXCEPT !.step = "drop"]
  <2>1. next \in RunType /\ next.step = "drop"
    BY <1>0 DEF RunType, Steps
  <2>2. /\ Go(r, next) \/ Go(r, Ended(r, "failed")) \/ Go(r, Ended(r, "done"))
        /\ UNCHANGED <<session, source, server>>
    BY <1>4 DEF CountMemories
  <2> HIDE DEF next
  <2> QED BY <1>f, <1>s, <1>v, <2>1, <2>2, RunMoves, ServerRests DEF session
<1>5. CASE DropThread(r)
  <2> DEFINE last == Ended(r, IF run[r].error THEN "failed" ELSE "done")
             ended == [run EXCEPT ![r] = last]
  <2>1. last \in RunType /\ last.step \in {"failed", "done"}
    BY <1>f, <1>s
  <2>2. /\ \/ DeleteThread /\ run' = Without(ended, stored)
           \/ UNCHANGED <<thread, stored, parents, chosen>> /\ run' = ended
        /\ UNCHANGED <<session, source, marker>>
    BY <1>5 DEF DropThread
  <2> HIDE DEF last
  <2>3. ended \in [Runs -> RunType]
    BY <1>0, <2>1
  <2>4. \A o \in Runs : /\ ended[o].step = "send" => ended[o].todo # {}
                        /\ ended[o].step \in Pruning => kind = "vault"
    BY <1>0, <1>v, <2>1 DEF Inv, RunFits
  <2>5. CASE DeleteThread /\ run' = Without(ended, stored)
    <3> HIDE DEF ended
    <3>1. run' \in [Runs -> RunType] /\ \A o \in Runs : RunFits(o)'
      BY <1>0, <2>2, <2>3, <2>4, <2>5, WithoutFits DEF session
    <3>2. marker' = "none"
      BY <1>v, <2>2 DEF Inv, Typed, MarkerFits
    <3> QED BY <2>2, <2>5, <3>1, <3>2, DeletionKeepsServer
  <2>6. CASE UNCHANGED <<thread, stored, parents, chosen>> /\ run' = ended
    <3>1. \A o \in Runs : RunFits(o)'
      BY <2>2, <2>4, <2>6 DEF RunFits, session
    <3> HIDE DEF ended
    <3> QED BY <1>0, <2>2, <2>3, <2>6, <3>1
            DEF Inv, Typed, MarkerFits, ChosenParentsStay, session
  <2> QED BY <2>2, <2>5, <2>6
<1> QED BY <1>1, <1>2, <1>3, <1>4, <1>5

\* The source, the operator and the faults.
LEMMA OthersKeepInv ==
    ASSUME Inv,
           \/ SourceChanges
           \/ \E forbid \in BOOLEAN : OperatorDeletes(forbid)
           \/ \E e \in Entries, ps \in SUBSET Entries : OperatorSetsParents(e, ps)
           \/ \E r \in Runs : Breaks(r) \/ OperatorDeclines(r)
    PROVE  Inv'
<1>0. Typed /\ run \in [Runs -> RunType] /\ stored \in SUBSET Entries
  BY DEF Inv, Typed
<1>1. CASE SourceChanges
  <2>1. source' \subseteq Entries /\ UNCHANGED <<session, server, run>>
    BY <1>0, <1>1 DEF SourceChanges, Typed
  <2> QED BY <1>0, <2>1
          DEF Inv, Typed, MarkerFits, ChosenParentsStay, RunFits, session, server
<1>2. ASSUME NEW forbid \in BOOLEAN, OperatorDeletes(forbid)
      PROVE  Inv'
  <2>1. DeleteThread /\ UNCHANGED <<session, source>> /\ run' = Without(run, stored)
    BY <1>2 DEF OperatorDeletes
  <2>2. marker' = "none" \/ (marker' \in {"revivable", "forbid"} /\ kind # "vault")
    BY <1>2 DEF OperatorDeletes
  <2>3. run' \in [Runs -> RunType] /\ \A o \in Runs : RunFits(o)'
    BY <1>0, <2>1, WithoutFits DEF Inv, RunFits, session
  <2> QED BY <2>1, <2>2, <2>3, DeletionKeepsServer
<1>3. ASSUME NEW e \in Entries, NEW ps \in SUBSET Entries, OperatorSetsParents(e, ps)
      PROVE  Inv'
  <2>1. /\ UNCHANGED <<kind, lineage, source, thread, stored, marker, run>>
        /\ kind # "vault" /\ e \in stored
        /\ parents' = [parents EXCEPT ![e] = ps] /\ chosen' = [chosen EXCEPT ![e] = ps]
    BY <1>3 DEF OperatorSetsParents, session
  <2>2. Typed'
    BY <1>0, <2>1 DEF Typed
  <2>3. ChosenParentsStay'
    BY <1>0, <2>1 DEF Inv, Typed, ChosenParentsStay
  <2>4. MarkerFits' /\ \A r \in Runs : RunFits(r)'
    BY <2>1 DEF Inv, MarkerFits, RunFits
  <2> QED BY <2>2, <2>3, <2>4 DEF Inv
<1>4. ASSUME NEW r \in Runs, Breaks(r) \/ OperatorDeclines(r)
      PROVE  Inv'
  <2>1. \A s \in {"failed", "done"} : Ended(r, s) \in RunType /\ Ended(r, s).step = s
    BY <1>0, EndedTyped DEF Steps, Resting
  <2>2. /\ run' = [run EXCEPT ![r] = Ended(r, "failed")] \/ run' = [run EXCEPT ![r] = Ended(r, "done")]
        /\ UNCHANGED <<session, source, server>>
    BY <1>4 DEF Breaks, OperatorDeclines
  <2> QED BY <2>1, <2>2, RunMoves, ServerRests DEF Pruning, session
<1> QED BY <1>1, <1>2, <1>3, <1>4

LEMMA InvIsInductive == Inv /\ [Next]_vars => Inv'
<1>1. ASSUME Inv, NEW r \in Runs, Step(r) PROVE Inv'
  BY <1>1, ReadingKeepsInv, BatchKeepsInv, RewireKeepsInv, EndingKeepsInv, PruneKeepsInv
     DEF Step
<1>2. ASSUME Inv, UNCHANGED vars PROVE Inv'
  BY <1>2, ServerRests DEF vars, session, server, Inv, Typed, RunFits
<1> QED BY <1>1, <1>2, OthersKeepInv DEF Next

-----------------------------------------------------------------------------
(* Type correctness.  That parents, labels and observations belong to a      *)
(* thread that is there needs what the runs know of the server.               *)

\* The rest of TypeOK that is about single variables.
Bounded ==
    /\ lineage \in Lineages /\ alone \in BOOLEAN
    /\ labelled \in BOOLEAN /\ observed \in BOOLEAN
    /\ changes \in 0 .. MaxChanges /\ acts \in 0 .. MaxActs /\ faults \in 0 .. MaxFaults

\* What hangs on the thread goes with it; a vault has no references.
Attached ==
    /\ thread = None => stored = {} /\ ~labelled /\ ~observed
    /\ \A e \in Entries : parents[e] # {} => e \in stored /\ parents[e] \subseteq stored
    /\ kind = "vault" => lineage = NoParents /\ parents = NoParents

\* A run that labels, observes or rewires has a thread, one that looks up its
\* entries will have one if it has nothing to send, and the memories it is going
\* to rewire are there as long as its thread is.
Ready(w) ==
    /\ w.step \in {"rewire", "observe", "label", "duplicates"} => w.target # None
    /\ w.step \in {"thread", "lookup"} =>
         kind # "vault" /\ (w.target = None => w.left \cup w.todo # {})
    /\ w.target = None \/ kind = "vault" => w.jobs = {} /\ w.orphans = {}
    /\ (w.target = thread /\ thread # None /\ kind # "vault") =>
         w.orphans \subseteq stored /\ \A j \in w.jobs : j.entry \in stored

Waiting == \A r \in Runs : Ready(run[r])

LEMMA EndedReady ==
    ASSUME Typed, NEW r \in Runs, NEW s \in Resting
    PROVE  Ended(r, s) \in RunType /\ Ready(Ended(r, s))
<1>1. Ended(r, s) \in RunType /\ Ended(r, s).step = s
  BY EndedTyped DEF Steps
<1>2. Ended(r, s).jobs = {} /\ Ended(r, s).orphans = {}
  <2>1. Idle \in RunType /\ Idle.jobs = {} /\ Idle.orphans = {}
    BY IdleTyped DEF Idle
  <2>2. run[r].read \in SUBSET Entries /\ run[r].target \in Threads \cup {None}
    BY DEF Typed, RunType
  <2> HIDE DEF Idle
  <2> QED BY <2>1, <2>2 DEF Ended, RunType
<1> HIDE DEF Ended
<1> QED BY <1>1, <1>2 DEF Ready, Resting

\* A step of one run that leaves the thread and its memories alone.
LEMMA RunWaits ==
    ASSUME Inv, Waiting, NEW r \in Runs, NEW next \in RunType, Ready(next),
           UNCHANGED <<kind, thread, stored>>,
           Reply(r, next) \/ Go(r, next) \/ run' = [run EXCEPT ![r] = next]
    PROVE  Waiting'
<1>1. run \in [Runs -> RunType]
  BY DEF Inv, Typed
<1>2. \A o \in Runs : run'[o] = run[o] \/ run'[o] = next
  BY <1>1 DEF Reply, Go
<1>3. \A o \in Runs : Ready(run'[o])
  BY <1>2 DEF Waiting
<1>4. \A o \in Runs : Ready(run[o])'
  BY <1>3 DEF Ready
<1> QED BY <1>4 DEF Waiting

LEMMA ReadingWaits ==
    ASSUME Inv, Waiting, Attached, NEW r \in Runs,
           \/ Start(r) \/ FindThread(r) \/ LookupMemory(r) \/ LookedUp(r)
           \/ Rewired(r) \/ LookupParents(r) \/ RewiredDuplicates(r)
    PROVE  Waiting'
<1>0. /\ run[r] \in RunType /\ kind \in Kinds /\ thread \in Threads \cup {None}
      /\ source \in SUBSET Entries /\ Ready(run[r]) /\ Typed
  BY DEF Inv, Typed, Waiting
<1>f. \A s \in Resting : Ended(r, s) \in RunType /\ Ready(Ended(r, s))
  BY <1>0, EndedReady
<1>s. {"done", "failed"} \subseteq Resting
  BY DEF Resting
<1>k. UNCHANGED <<kind, thread, stored>>
  BY DEF Start, FindThread, LookupMemory, LookedUp, Rewired, LookupParents,
         RewiredDuplicates, session, server
<1>1. CASE Start(r)
  <2>1. PICK snapshot \in IF kind = "append" THEN {thread, None} ELSE {None} :
          Go(r, [Idle EXCEPT
                  !.step = IF kind = "append" THEN "thread"
                           ELSE IF source = {} THEN "list" ELSE "send",
                  !.read = source, !.target = snapshot,
                  !.left = IF kind = "append" THEN source ELSE {},
                  !.todo = IF kind = "append" THEN {} ELSE source])
    BY <1>1 DEF Start
  <2> DEFINE next == [Idle EXCEPT
                  !.step = IF kind = "append" THEN "thread"
                           ELSE IF source = {} THEN "list" ELSE "send",
                  !.read = source, !.target = snapshot,
                  !.left = IF kind = "append" THEN source ELSE {},
                  !.todo = IF kind = "append" THEN {} ELSE source]
  <2>2. snapshot \in Threads \cup {None} /\ (source # {} \/ kind = "vault")
    BY <1>0, <1>1 DEF Start
  <2>3. /\ next \in RunType
        /\ next.step = IF kind = "append" THEN "thread"
                       ELSE IF source = {} THEN "list" ELSE "send"
        /\ next.left = IF kind = "append" THEN source ELSE {}
        /\ next.jobs = {} /\ next.orphans = {}
    <3>1. Idle \in RunType /\ Idle.jobs = {} /\ Idle.orphans = {}
      BY IdleTyped DEF Idle
    <3> HIDE DEF Idle
    <3> QED BY <1>0, <2>2, <3>1 DEF RunType, Steps
  <2> HIDE DEF next
  <2>4. Ready(next)
    BY <2>2, <2>3 DEF Ready
  <2>5. Go(r, next)
    BY <2>1 DEF next
  <2> QED BY <1>k, <2>3, <2>4, <2>5, RunWaits
<1>2. CASE FindThread(r)
  <2> DEFINE a == [run[r] EXCEPT !.step = "lookup"]
             b == [run[r] EXCEPT !.step = "lookup", !.target = thread]
  <2>1. /\ a \in RunType /\ a.step = "lookup" /\ a.target = run[r].target
        /\ a.left = run[r].left /\ a.todo = run[r].todo /\ a.jobs = run[r].jobs
        /\ a.orphans = run[r].orphans
    BY <1>0 DEF RunType, Steps
  <2>2. /\ b \in RunType /\ b.step = "lookup" /\ b.target = thread
        /\ b.left = run[r].left /\ b.todo = run[r].todo /\ b.jobs = run[r].jobs
        /\ b.orphans = run[r].orphans
    BY <1>0 DEF RunType, Steps
  <2>3. run[r].step = "thread" /\ (Go(r, a) \/ (run[r].target = None /\ Reply(r, b)))
    BY <1>2 DEF FindThread, At
  <2> HIDE DEF a, b
  <2>4. Ready(a) /\ (run[r].target = None => Ready(b))
    BY <1>0, <2>1, <2>2, <2>3 DEF Ready
  <2> QED BY <1>k, <2>1, <2>2, <2>3, <2>4, RunWaits
<1>3. CASE LookupMemory(r)
  <2>1. PICK e \in run[r].left :
         LET rest == [run[r] EXCEPT !.left = @ \ {e}] IN
            Reply(r,
              IF e \notin stored THEN [rest EXCEPT !.todo = @ \cup {e}]
              ELSE IF run[r].target # thread THEN Ended(r, "failed")
              ELSE IF parents[e] = {} THEN [rest EXCEPT !.orphans = @ \cup {e}]
              ELSE rest)
    BY <1>3 DEF LookupMemory
  <2> DEFINE rest == [run[r] EXCEPT !.left = @ \ {e}]
             a == [rest EXCEPT !.todo = @ \cup {e}]
             b == [rest EXCEPT !.orphans = @ \cup {e}]
  <2>2. e \in Entries /\ run[r].step = "lookup"
    BY <1>0, <1>3 DEF RunType, LookupMemory, At
  <2>3. /\ rest \in RunType /\ rest.step = "lookup" /\ rest.target = run[r].target
        /\ rest.jobs = run[r].jobs /\ rest.orphans = run[r].orphans
    BY <1>0, <2>2 DEF RunType
  <2>4. \/ Reply(r, a) \/ Reply(r, Ended(r, "failed"))
        \/ (e \in stored /\ run[r].target = thread /\ (Reply(r, b) \/ Reply(r, rest)))
    BY <2>1
  <2> HIDE DEF rest
  <2>5. /\ a \in RunType /\ a.step = "lookup" /\ a.target = rest.target /\ e \in a.todo
        /\ a.jobs = rest.jobs /\ a.orphans = rest.orphans
    BY <2>2, <2>3 DEF RunType
  <2>6. /\ b \in RunType /\ b.step = "lookup" /\ b.target = rest.target
        /\ b.jobs = rest.jobs /\ b.orphans = rest.orphans \cup {e}
    BY <2>2, <2>3 DEF RunType
  <2> HIDE DEF a, b
  <2>7. Ready(a)
    BY <1>0, <2>2, <2>3, <2>5 DEF Ready
  <2>8. (e \in stored /\ run[r].target = thread) => thread # None
    BY DEF Attached
  <2>9. (e \in stored /\ run[r].target = thread) => Ready(b) /\ Ready(rest)
    BY <1>0, <2>2, <2>3, <2>6, <2>8 DEF Ready
  <2> QED BY <1>f, <1>k, <1>s, <2>3, <2>4, <2>5, <2>6, <2>7, <2>9, RunWaits
<1>4. CASE LookedUp(r)
  <2> DEFINE next == [run[r] EXCEPT !.step = IF run[r].todo = {} THEN "observe" ELSE "send"]
  <2>1. /\ next \in RunType /\ next.target = run[r].target
        /\ next.step = IF run[r].todo = {} THEN "observe" ELSE "send"
        /\ next.jobs = run[r].jobs /\ next.orphans = run[r].orphans
    BY <1>0 DEF RunType, Steps
  <2>2. Go(r, next) /\ run[r].step = "lookup" /\ run[r].left = {}
    BY <1>4 DEF LookedUp, At
  <2> HIDE DEF next
  <2>3. Ready(next)
    BY <1>0, <2>1, <2>2 DEF Ready
  <2> QED BY <1>k, <2>1, <2>2, <2>3, RunWaits
<1>5. CASE Rewired(r)
  <2> DEFINE next == [run[r] EXCEPT !.step = IF run[r].todo # {} THEN "send"
                                     ELSE IF kind = "vault" THEN "list" ELSE "observe"]
  <2>1. /\ next \in RunType /\ next.target = run[r].target
        /\ next.step \in {"send", "list", "observe"}
        /\ next.jobs = run[r].jobs /\ next.orphans = run[r].orphans
    BY <1>0 DEF RunType, Steps
  <2>2. Go(r, next) /\ run[r].step = "rewire"
    BY <1>5 DEF Rewired, At
  <2> HIDE DEF next
  <2>3. Ready(next)
    BY <1>0, <2>1, <2>2 DEF Ready
  <2> QED BY <1>k, <2>1, <2>2, <2>3, RunWaits
<1>6. CASE LookupParents(r)
  <2>1. PICK e \in run[r].orphans :
         LET ps == IF run[r].target = thread THEN lineage[e] \cap stored ELSE {} IN
            Reply(r, [run[r] EXCEPT !.orphans = @ \ {e},
                                    !.jobs = IF ps = {} THEN {}
                                             ELSE {[entry |-> e, parents |-> ps]}])
    BY <1>6 DEF LookupParents
  <2> DEFINE ps == IF run[r].target = thread THEN lineage[e] \cap stored ELSE {}
             js == IF ps = {} THEN {} ELSE {[entry |-> e, parents |-> ps]}
             next == [run[r] EXCEPT !.orphans = @ \ {e}, !.jobs = js]
  <2>2. e \in Entries /\ run[r].step = "duplicates"
    BY <1>0, <1>6 DEF RunType, LookupParents, At
  <2>3. /\ js \in SUBSET Jobs
        /\ \A j \in js : j.entry = e
        /\ kind = "vault" => js = {}
    <3>1. ps \in SUBSET Entries /\ (kind = "vault" => ps = {})
      BY <1>0, <2>2 DEF Typed, Attached, NoParents
    <3> HIDE DEF ps
    <3> QED BY <2>2, <3>1 DEF Jobs
  <2>4. Reply(r, next)
    BY <2>1
  <2> HIDE DEF js
  <2>5. /\ next \in RunType /\ next.step = "duplicates" /\ next.target = run[r].target
        /\ next.orphans = run[r].orphans \ {e} /\ next.jobs = js
    BY <1>0, <2>2, <2>3 DEF RunType
  <2> HIDE DEF next
  <2>6. Ready(next)
    BY <1>0, <2>2, <2>3, <2>5 DEF Ready
  <2> QED BY <1>k, <2>4, <2>5, <2>6, RunWaits
<1>7. CASE RewiredDuplicates(r)
  BY <1>7, <1>f, <1>k, <1>s, RunWaits DEF RewiredDuplicates
<1> QED BY <1>1, <1>2, <1>3, <1>4, <1>5, <1>6, <1>7

\* A batch writes to the thread that is there, or to one no run remembers.
LEMMA BatchWaits ==
    ASSUME Inv, Waiting, Attached, NEW r \in Runs, AddMemoriesBatch(r)
    PROVE  Waiting' /\ Attached'
<1>0. run[r] \in RunType /\ Typed /\ run \in [Runs -> RunType]
  BY DEF Inv, Typed
<1>k. UNCHANGED session
  BY DEF AddMemoriesBatch
<1>1. CASE /\ Reply(r, Ended(r, "skipped")) \/ Reply(r, Ended(r, "failed"))
           /\ UNCHANGED server
  <2>1. \A s \in {"skipped", "failed"} : Ended(r, s) \in RunType /\ Ready(Ended(r, s))
    BY <1>0, EndedReady DEF Resting
  <2> QED BY <1>1, <1>k, <2>1, RunWaits DEF session, server, Attached
<1>2. ASSUME NEW t \in Targets, Write(r, t), Acceptable(r)
      PROVE  Waiting' /\ Attached'
  <2> DEFINE batch == Chunk(r)
             js == Outcomes(batch)
             rest == run[r].todo \ batch
             next == [run[r] EXCEPT !.step = "rewire", !.target = t, !.acted = TRUE,
                                    !.todo = rest, !.jobs = js]
  <2>1. batch \in SUBSET Entries /\ rest \in SUBSET Entries
    BY <1>0 DEF Chunk, RunType
  <2>2. t \in Threads /\ (thread # None => t = thread)
        /\ (thread = None => \A o \in Runs : run[o].target # t)
    BY <1>0 DEF Targets, Fresh, Typed
  <2>3. /\ js \in SUBSET Jobs
        /\ \A j \in js : j.entry \in stored
        /\ kind = "vault" => js = {}
    <3> HIDE DEF batch
    <3>1. js \in SUBSET Jobs
      BY <1>0, <2>1 DEF Outcomes, Jobs, Typed
    <3>2. \A j \in js : j.entry \in stored
      BY DEF Outcomes
    <3>3. ASSUME kind = "vault", NEW j \in js PROVE FALSE
      <4>1. j.entry \in Entries /\ j.parents = Resolved(j.entry, batch) /\ j.parents # {}
        BY <3>1 DEF Outcomes, Jobs
      <4> QED BY <3>3, <4>1 DEF Resolved, Attached, NoParents
    <3> QED BY <3>1, <3>2, <3>3
  <2>4. next = [run[r] EXCEPT !.step = "rewire", !.target = t, !.acted = TRUE,
                              !.todo = @ \ batch, !.jobs = Outcomes(batch)]
    BY <1>0 DEF RunType
  <2>5. Reply(r, next)
    BY <1>2, <2>4 DEF Write
  <2>6. /\ thread' = t /\ thread' # None
        /\ stored' = stored \cup batch
        /\ parents' = [e \in Entries |->
             IF e \in batch \ stored THEN ParentsOfNew(e, batch) ELSE parents[e]]
        /\ UNCHANGED <<kind, lineage>>
    BY <1>2, <1>k, <2>2, SessionAssumption DEF Write, session
  <2> HIDE DEF js, rest, batch
  <2>7. /\ next \in RunType /\ next.step = "rewire" /\ next.target = t
        /\ next.jobs = js /\ next.orphans = run[r].orphans
    BY <1>0, <2>1, <2>2, <2>3 DEF RunType, Steps
  <2> HIDE DEF next
  <2>8. ASSUME NEW o \in Runs PROVE Ready(run[o])'
    <3>1. CASE run'[o] = run[o]
      BY <2>2, <2>6, <3>1 DEF Waiting, Ready
    <3>2. CASE o = r /\ run'[o] = next
      <4>1. CASE thread = None
        <5>1. run[r].orphans = {} /\ js = {}
          BY <1>2, <2>3, <4>1 DEF Acceptable, Waiting, Ready, Attached
        <5> QED BY <2>6, <2>7, <3>2, <5>1 DEF Ready
      <4>2. CASE thread # None /\ kind # "vault"
        <5>1. run[r].orphans \subseteq stored
          <6>1. run[r].target = None => run[r].orphans = {}
            BY DEF Waiting, Ready
          <6>2. run[r].target # None => run[r].target = thread
            BY <1>2 DEF Acceptable
          <6> QED BY <4>2, <6>1, <6>2 DEF Waiting, Ready
        <5> QED BY <2>2, <2>3, <2>6, <2>7, <3>2, <4>2, <5>1 DEF Ready
      <4>3. CASE kind = "vault"
        <5>1. run[r].orphans = {}
          BY <4>3 DEF Waiting, Ready
        <5> QED BY <2>3, <2>6, <2>7, <3>2, <4>3, <5>1 DEF Ready
      <4> QED BY <4>1, <4>2, <4>3
    <3> QED BY <1>0, <2>5, <3>1, <3>2 DEF Reply
  <2>9. Attached'
    <3>1. \A e \in Entries : parents'[e] # {} => e \in stored' /\ parents'[e] \subseteq stored'
      BY <2>6 DEF ParentsOfNew, Attached
    <3>2. kind = "vault" => parents' = NoParents
      BY <2>6 DEF ParentsOfNew, Attached, NoParents
    <3> QED BY <2>6, <3>1, <3>2 DEF Attached
  <2> QED BY <2>8, <2>9 DEF Waiting
<1> QED BY <1>1, <1>2 DEF AddMemoriesBatch

\* A rewire finds the memory in the thread of the run.
LEMMA RewireWaits ==
    ASSUME Inv, Waiting, Attached, NEW r \in Runs, UpdateMemoryParents(r)
    PROVE  Waiting' /\ Attached'
<1>0. run[r] \in RunType /\ Typed /\ Ready(run[r])
  BY DEF Inv, Typed, Waiting
<1>f. Ended(r, "failed") \in RunType /\ Ready(Ended(r, "failed"))
  BY <1>0, EndedReady DEF Resting
<1>k. /\ UNCHANGED <<kind, lineage, thread, stored, labelled, observed>>
      /\ run[r].step \in {"rewire", "duplicates"}
  BY DEF UpdateMemoryParents, session
<1>1. PICK j \in run[r].jobs :
         IF run[r].target # thread
         THEN Reply(r, Ended(r, "failed")) /\ UNCHANGED parents
         ELSE /\ parents' = IF Rewirable(j)
                            THEN [parents EXCEPT ![j.entry] = j.parents \cap stored]
                            ELSE parents
              /\ Reply(r, [run[r] EXCEPT !.jobs = @ \ {j}])
  BY DEF UpdateMemoryParents
<1> DEFINE next == [run[r] EXCEPT !.jobs = @ \ {j}]
<1>2. /\ next \in RunType /\ next.step = run[r].step /\ next.target = run[r].target
      /\ next.jobs = run[r].jobs \ {j} /\ next.orphans = run[r].orphans
  BY <1>0 DEF RunType
<1>3. Reply(r, Ended(r, "failed")) \/ Reply(r, next)
  BY <1>1
<1> HIDE DEF next
<1>4. Ready(next)
  BY <1>0, <1>2, <1>k DEF Ready
<1>5. Waiting'
  BY <1>f, <1>k, <1>2, <1>3, <1>4, RunWaits
<1>6. kind # "vault" /\ run[r].target # None
  BY <1>0, <1>k, <1>1 DEF Ready
<1>7. run[r].target = thread => j.entry \in stored
  BY <1>0, <1>6 DEF Ready
<1>8. \/ UNCHANGED parents
      \/ (/\ j.entry \in stored
          /\ parents' = [parents EXCEPT ![j.entry] = j.parents \cap stored])
  BY <1>1, <1>7
<1>9. \A e \in Entries : parents'[e] # {} => e \in stored /\ parents'[e] \subseteq stored
  BY <1>0, <1>8 DEF Attached, Typed
<1> QED BY <1>5, <1>6, <1>9, <1>k DEF Attached

LEMMA EndingWaits ==
    ASSUME Inv, Waiting, Attached, NEW r \in Runs, RecordObservations(r) \/ AddLabels(r)
    PROVE  Waiting' /\ Attached'
<1>0. run[r] \in RunType /\ Typed /\ Ready(run[r])
  BY DEF Inv, Typed, Waiting
<1>f. \A s \in {"done", "failed"} : Ended(r, s) \in RunType /\ Ready(Ended(r, s))
  BY <1>0, EndedReady DEF Resting
<1> DEFINE a == [run[r] EXCEPT !.step = IF run[r].acted THEN "duplicates" ELSE "label"]
           b == [run[r] EXCEPT !.step = "duplicates"]
<1>1. /\ a \in RunType /\ a.step \in {"duplicates", "label"} /\ a.target = run[r].target
      /\ a.jobs = run[r].jobs /\ a.orphans = run[r].orphans
  BY <1>0 DEF RunType, Steps
<1>2. /\ b \in RunType /\ b.step = "duplicates" /\ b.target = run[r].target
      /\ b.jobs = run[r].jobs /\ b.orphans = run[r].orphans
  BY <1>0 DEF RunType, Steps
<1>3. /\ UNCHANGED <<kind, lineage, thread, stored, parents>>
      /\ run[r].step \in {"observe", "label"}
      /\ \/ Reply(r, Ended(r, "done")) \/ Reply(r, Ended(r, "failed"))
         \/ Reply(r, a) \/ Reply(r, b)
      /\ run[r].target = thread \/ UNCHANGED <<labelled, observed>>
  BY DEF RecordObservations, AddLabels, session, At
<1> HIDE DEF a, b
<1>4. Ready(a) /\ Ready(b)
  BY <1>0, <1>1, <1>2, <1>3 DEF Ready
<1>5. Waiting'
  BY <1>f, <1>1, <1>2, <1>3, <1>4, RunWaits
<1>6. run[r].target # None
  BY <1>0, <1>3 DEF Ready
<1> QED BY <1>3, <1>5, <1>6 DEF Attached

\* Nothing that deletes takes a memory from under a run that is to rewire it:
\* prunes are for vaults, and other deletions take the thread.
LEMMA DeletionWaits ==
    ASSUME Waiting, Attached, NEW runs \in [Runs -> RunType], NEW es \in SUBSET Entries,
           \A o \in Runs : Ready(runs[o]),
           run' = Without(runs, es) \/ run' = runs, UNCHANGED <<kind, lineage>>,
           \/ UNCHANGED <<thread, parents, labelled, observed>>
              /\ (UNCHANGED stored \/ (kind = "vault" /\ stored' \subseteq stored))
           \/ DeleteThread
    PROVE  Waiting' /\ Attached'
<1>1. ASSUME NEW o \in Runs
      PROVE  /\ run'[o].step = runs[o].step /\ run'[o].target = runs[o].target
             /\ run'[o].todo = runs[o].todo /\ run'[o].jobs = runs[o].jobs
             /\ run'[o].orphans = runs[o].orphans
             /\ runs[o].step \in {"thread", "lookup"} => run'[o].left = runs[o].left
  <2> DEFINE w == [runs[o] EXCEPT !.left = @ \ es,
                                  !.dead = @ \cup (runs[o].left \cap es)]
  <2>1. runs[o] \in RunType
    OBVIOUS
  <2>2. /\ w.step = runs[o].step /\ w.target = runs[o].target /\ w.todo = runs[o].todo
        /\ w.jobs = runs[o].jobs /\ w.orphans = runs[o].orphans
    BY <2>1 DEF RunType
  <2>3. \/ run'[o] = runs[o]
        \/ (runs[o].step \in {"filter", "prune"} /\ run'[o] = w)
    BY DEF Without
  <2> HIDE DEF w
  <2> QED BY <2>2, <2>3
<1>2. ASSUME NEW o \in Runs PROVE Ready(run[o])'
  <2>1. Ready(runs[o])
    OBVIOUS
  <2>2. thread' = None \/ (UNCHANGED thread /\ (UNCHANGED stored \/ kind = "vault"))
    BY DEF DeleteThread
  <2> QED BY <1>1, <2>1, <2>2 DEF Ready
<1>3. Attached'
  <2>1. CASE DeleteThread
    BY <2>1 DEF DeleteThread, Attached, NoParents
  <2>2. CASE /\ UNCHANGED <<thread, parents, labelled, observed>>
             /\ UNCHANGED stored \/ (kind = "vault" /\ stored' \subseteq stored)
    BY <2>2 DEF Attached, NoParents
  <2> QED BY <2>1, <2>2
<1> QED BY <1>2, <1>3 DEF Waiting

LEMMA PruneWaits ==
    ASSUME Inv, Waiting, Attached, NEW r \in Runs,
           \/ ListMemories(r) \/ FilterCandidates(r) \/ DeleteMemory(r)
           \/ CountMemories(r) \/ DropThread(r)
    PROVE  Waiting' /\ Attached'
<1>0. /\ run[r] \in RunType /\ Typed /\ Ready(run[r]) /\ run \in [Runs -> RunType]
      /\ stored \in SUBSET Entries /\ thread \in Threads \cup {None}
  BY DEF Inv, Typed, Waiting
<1>f. \A s \in {"done", "failed"} : Ended(r, s) \in RunType /\ Ready(Ended(r, s))
  BY <1>0, EndedReady DEF Resting
<1>v. kind = "vault"
  BY DEF Inv, RunFits, Pruning, At, ListMemories, FilterCandidates, DeleteMemory,
         CountMemories, DropThread
<1>k. UNCHANGED <<kind, lineage>>
  BY DEF ListMemories, FilterCandidates, DeleteMemory, CountMemories, DropThread, session
<1>w. ASSUME NEW w \in RunType, w.jobs = {}, w.orphans = {},
             w.step \in {"filter", "prune", "drop"}
      PROVE  Ready(w)
  BY <1>v, <1>w DEF Ready
<1>j. run[r].jobs = {} /\ run[r].orphans = {}
  BY <1>0, <1>v DEF Ready
<1>1. CASE ListMemories(r)
  <2> DEFINE next == [run[r] EXCEPT !.step = "filter", !.left = stored \ run[r].read,
                                    !.target = thread]
  <2>1. next \in RunType /\ next.step = "filter" /\ next.jobs = {} /\ next.orphans = {}
    BY <1>0, <1>j DEF RunType, Steps
  <2>2. Reply(r, next) /\ UNCHANGED server
    BY <1>1 DEF ListMemories
  <2> HIDE DEF next
  <2> QED BY <1>k, <1>w, <2>1, <2>2, RunWaits DEF server, Attached
<1>2. CASE FilterCandidates(r)
  <2> DEFINE left == Stale(r, run[r].left)
             dead == Stale(r, run[r].dead)
             next == [run[r] EXCEPT !.step = "prune", !.left = left, !.dead = dead]
  <2>1. left \in SUBSET Entries /\ dead \in SUBSET Entries
    BY <1>0 DEF Stale, RunType
  <2>2. (Go(r, Ended(r, "done")) \/ Go(r, next)) /\ UNCHANGED server
    BY <1>2 DEF FilterCandidates
  <2> HIDE DEF left, dead
  <2>3. next \in RunType /\ next.step = "prune" /\ next.jobs = {} /\ next.orphans = {}
    BY <1>0, <1>j, <2>1 DEF RunType, Steps
  <2> HIDE DEF next
  <2> QED BY <1>f, <1>k, <1>w, <2>2, <2>3, RunWaits DEF server, Attached
<1>3. CASE DeleteMemory(r)
  <2>1. PICK e \in run[r].left \cup run[r].dead, fails \in BOOLEAN, effect \in BOOLEAN :
         LET own == run[r].left \cap {e}
             next == [run[r] EXCEPT !.left = @ \ {e}, !.dead = @ \ {e},
                                    !.acted = @ \/ ~fails, !.error = @ \/ fails]
         IN IF effect
            THEN /\ stored' = stored \ own
                 /\ run' = Without([run EXCEPT ![r] = next], own)
            ELSE run' = [run EXCEPT ![r] = next] /\ UNCHANGED stored
    BY <1>3 DEF DeleteMemory
  <2> DEFINE own == run[r].left \cap {e}
             next == [run[r] EXCEPT !.left = @ \ {e}, !.dead = @ \ {e},
                                    !.acted = @ \/ ~fails, !.error = @ \/ fails]
             runs == [run EXCEPT ![r] = next]
  <2>2. own \in SUBSET Entries
    BY <1>0 DEF RunType
  <2>3. next \in RunType /\ next.step = "prune" /\ next.jobs = {} /\ next.orphans = {}
    BY <1>0, <1>3, <1>j DEF RunType, DeleteMemory, At
  <2>4. UNCHANGED <<thread, parents, labelled, observed>>
    BY <1>3 DEF DeleteMemory
  <2>5. /\ run' = Without(runs, own) \/ run' = runs
        /\ UNCHANGED stored \/ stored' = stored \ own
    BY <2>1
  <2> HIDE DEF own, next
  <2>6. runs \in [Runs -> RunType] /\ \A o \in Runs : Ready(runs[o])
    BY <1>0, <1>w, <2>3 DEF Waiting
  <2> HIDE DEF runs
  <2> QED BY <1>k, <1>v, <2>2, <2>4, <2>5, <2>6, DeletionWaits
<1>4. CASE CountMemories(r)
  <2> DEFINE next == [run[r] EXCEPT !.step = "drop"]
  <2>1. next \in RunType /\ next.step = "drop" /\ next.jobs = {} /\ next.orphans = {}
    BY <1>0, <1>j DEF RunType, Steps
  <2>2. /\ Go(r, next) \/ Go(r, Ended(r, "failed")) \/ Go(r, Ended(r, "done"))
        /\ UNCHANGED server
    BY <1>4 DEF CountMemories
  <2> HIDE DEF next
  <2> QED BY <1>f, <1>k, <1>w, <2>1, <2>2, RunWaits DEF server, Attached
<1>5. CASE DropThread(r)
  <2> DEFINE last == Ended(r, IF run[r].error THEN "failed" ELSE "done")
             runs == [run EXCEPT ![r] = last]
  <2>1. last \in RunType /\ Ready(last)
    BY <1>f
  <2>2. \/ DeleteThread /\ run' = Without(runs, stored)
        \/ UNCHANGED <<thread, stored, parents, labelled, observed>> /\ run' = runs
    BY <1>5 DEF DropThread
  <2> HIDE DEF last
  <2>3. runs \in [Runs -> RunType] /\ \A o \in Runs : Ready(runs[o])
    BY <1>0, <2>1 DEF Waiting
  <2> HIDE DEF runs
  <2> QED BY <1>0, <1>k, <2>2, <2>3, DeletionWaits
<1> QED BY <1>1, <1>2, <1>3, <1>4, <1>5

LEMMA OthersWait ==
    ASSUME Inv, Waiting, Attached,
           \/ SourceChanges
           \/ \E forbid \in BOOLEAN : OperatorDeletes(forbid)
           \/ \E e \in Entries, ps \in SUBSET Entries : OperatorSetsParents(e, ps)
           \/ \E r \in Runs : Breaks(r) \/ OperatorDeclines(r)
    PROVE  Waiting' /\ Attached'
<1>0. Typed /\ run \in [Runs -> RunType] /\ stored \in SUBSET Entries
  BY DEF Inv, Typed
<1>1. CASE SourceChanges
  BY <1>1 DEF SourceChanges, session, server, Attached, Waiting, Ready
<1>2. ASSUME NEW forbid \in BOOLEAN, OperatorDeletes(forbid)
      PROVE  Waiting' /\ Attached'
  <2>1. DeleteThread /\ UNCHANGED <<kind, lineage>> /\ run' = Without(run, stored)
    BY <1>2 DEF OperatorDeletes, session
  <2> QED BY <1>0, <2>1, DeletionWaits DEF Waiting
<1>3. ASSUME NEW e \in Entries, NEW ps \in SUBSET Entries, OperatorSetsParents(e, ps)
      PROVE  Waiting' /\ Attached'
  <2>1. /\ UNCHANGED <<kind, lineage, thread, stored, labelled, observed, run>>
        /\ kind # "vault" /\ e \in stored /\ ps \subseteq stored
        /\ parents' = [parents EXCEPT ![e] = ps]
    BY <1>3 DEF OperatorSetsParents, session
  <2>2. \A d \in Entries : parents'[d] # {} => d \in stored /\ parents'[d] \subseteq stored
    BY <1>0, <2>1 DEF Typed, Attached
  <2> QED BY <2>1, <2>2 DEF Attached, Waiting, Ready
<1>4. ASSUME NEW r \in Runs, Breaks(r) \/ OperatorDeclines(r)
      PROVE  Waiting' /\ Attached'
  <2>1. \A s \in {"failed", "done"} : Ended(r, s) \in RunType /\ Ready(Ended(r, s))
    BY <1>0, EndedReady DEF Resting
  <2>2. /\ run' = [run EXCEPT ![r] = Ended(r, "failed")] \/ run' = [run EXCEPT ![r] = Ended(r, "done")]
        /\ UNCHANGED <<session, server>>
    BY <1>4 DEF Breaks, OperatorDeclines
  <2> QED BY <2>1, <2>2, RunWaits DEF session, server, Attached
<1> QED BY <1>1, <1>2, <1>3, <1>4

\* Counters stay within their bounds, flags are flags.
LEMMA BoundsHold == Bounded /\ [Next]_vars => Bounded'
<1> SUFFICES ASSUME Bounded, [Next]_vars PROVE Bounded'
  OBVIOUS
<1> USE SizesAssumption DEF Bounded
<1>1. ASSUME NEW r \in Runs, NEW next, Reply(r, next) \/ Go(r, next)
      PROVE  faults' \in 0 .. MaxFaults
  BY <1>1 DEF Reply, Go
<1>2. ASSUME NEW r \in Runs,
             \/ Start(r) \/ FindThread(r) \/ LookupMemory(r) \/ LookedUp(r) \/ Rewired(r)
             \/ LookupParents(r) \/ RewiredDuplicates(r) \/ ListMemories(r)
             \/ FilterCandidates(r) \/ CountMemories(r)
      PROVE  Bounded'
  <2>1. faults' \in 0 .. MaxFaults
    BY <1>1, <1>2 DEF Start, FindThread, LookupMemory, LookedUp, Rewired, LookupParents,
         RewiredDuplicates, ListMemories, FilterCandidates, CountMemories
  <2> QED BY <1>2, <2>1 DEF Start, FindThread, LookupMemory, LookedUp, Rewired,
         LookupParents, RewiredDuplicates, ListMemories, FilterCandidates, CountMemories,
         session, server
<1>3. ASSUME NEW r \in Runs, AddMemoriesBatch(r)
      PROVE  Bounded'
  <2>1. faults' \in 0 .. MaxFaults
    BY <1>1, <1>3 DEF AddMemoriesBatch, Write
  <2> QED BY <1>3, <2>1 DEF AddMemoriesBatch, Write, session, server
<1>4. ASSUME NEW r \in Runs,
             UpdateMemoryParents(r) \/ RecordObservations(r) \/ AddLabels(r)
      PROVE  Bounded'
  <2>1. faults' \in 0 .. MaxFaults
    BY <1>1, <1>4 DEF UpdateMemoryParents, RecordObservations, AddLabels
  <2> QED BY <1>4, <2>1 DEF UpdateMemoryParents, RecordObservations, AddLabels, session
<1>5. ASSUME NEW r \in Runs, DeleteMemory(r) \/ DropThread(r)
      PROVE  Bounded'
  <2>1. faults' = faults \/ (faults < MaxFaults /\ faults' = faults + 1)
    BY <1>5 DEF DeleteMemory, DropThread
  <2>2. faults' \in 0 .. MaxFaults
    BY <2>1
  <2>3. UNCHANGED <<lineage, alone, changes, acts>>
    BY <1>5 DEF DeleteMemory, DropThread, session
  <2>4. labelled' \in BOOLEAN /\ observed' \in BOOLEAN
    <3>1. \/ UNCHANGED <<labelled, observed>>
          \/ (labelled' = FALSE /\ observed' = FALSE)
      BY <1>5, Zenon DEF DeleteMemory, DropThread, DeleteThread
    <3> QED BY <3>1
  <2> QED BY <2>2, <2>3, <2>4
<1>6. ASSUME \/ SourceChanges
             \/ \E forbid \in BOOLEAN : OperatorDeletes(forbid)
             \/ \E e \in Entries, ps \in SUBSET Entries : OperatorSetsParents(e, ps)
             \/ \E r \in Runs : Breaks(r) \/ OperatorDeclines(r)
      PROVE  Bounded'
  <2>1. /\ changes' = changes \/ (changes < MaxChanges /\ changes' = changes + 1)
        /\ acts' = acts \/ (acts < MaxActs /\ acts' = acts + 1)
        /\ faults' = faults \/ (faults < MaxFaults /\ faults' = faults + 1)
    BY <1>6 DEF SourceChanges, OperatorDeletes, OperatorSetsParents, Breaks, OperatorDeclines
  <2>2. changes' \in 0 .. MaxChanges /\ acts' \in 0 .. MaxActs /\ faults' \in 0 .. MaxFaults
    BY <2>1
  <2>3. UNCHANGED <<lineage, alone>>
    BY <1>6 DEF SourceChanges, OperatorDeletes, OperatorSetsParents, Breaks,
         OperatorDeclines, session
  <2>4. labelled' \in BOOLEAN /\ observed' \in BOOLEAN
    <3>1. \/ UNCHANGED <<labelled, observed>>
          \/ (labelled' = FALSE /\ observed' = FALSE)
      BY <1>6, Zenon DEF SourceChanges, OperatorDeletes, OperatorSetsParents, Breaks,
           OperatorDeclines, DeleteThread, server
    <3> QED BY <3>1
  <2> QED BY <2>2, <2>3, <2>4
<1>7. CASE UNCHANGED vars
  BY <1>7 DEF vars
<1> QED BY <1>2, <1>3, <1>4, <1>5, <1>6, <1>7 DEF Next, Step

Whereabouts == Inv /\ Bounded /\ Attached /\ Waiting

LEMMA InitWhereabouts == Init => Whereabouts
<1> SUFFICES ASSUME Init PROVE Bounded /\ Attached /\ Waiting
  BY InitInv DEF Whereabouts
<1>1. Bounded
  <2>1. lineage \in Lineages /\ alone \in BOOLEAN /\ labelled \in BOOLEAN /\ observed \in BOOLEAN
    BY Zenon DEF Init
  <2>2. changes \in 0 .. MaxChanges /\ acts \in 0 .. MaxActs /\ faults \in 0 .. MaxFaults
    BY SizesAssumption DEF Init
  <2> QED BY <2>1, <2>2 DEF Bounded
<1>2. Attached
  BY DEF Init, Attached, NoParents
<1>3. Waiting
  BY DEF Init, Waiting, Ready, Idle
<1> QED BY <1>1, <1>2, <1>3

LEMMA WhereaboutsAreInductive == Whereabouts /\ [Next]_vars => Whereabouts'
<1> SUFFICES ASSUME Whereabouts, [Next]_vars PROVE Waiting' /\ Attached'
  BY InvIsInductive, BoundsHold DEF Whereabouts
<1>0. Inv /\ Waiting /\ Attached
  BY DEF Whereabouts
<1>1. ASSUME NEW r \in Runs,
             \/ Start(r) \/ FindThread(r) \/ LookupMemory(r) \/ LookedUp(r)
             \/ Rewired(r) \/ LookupParents(r) \/ RewiredDuplicates(r)
      PROVE  Waiting' /\ Attached'
  <2>1. UNCHANGED <<session, server>>
    BY <1>1 DEF Start, FindThread, LookupMemory, LookedUp, Rewired, LookupParents,
         RewiredDuplicates
  <2>2. Attached'
    BY <1>0, <2>1 DEF Attached, session, server
  <2> QED BY <1>0, <1>1, <2>2, ReadingWaits
<1>2. ASSUME NEW r \in Runs, Step(r) PROVE Waiting' /\ Attached'
  BY <1>0, <1>1, <1>2, BatchWaits, RewireWaits, EndingWaits, PruneWaits DEF Step
<1>3. CASE UNCHANGED vars
  BY <1>0, <1>3 DEF vars, Waiting, Ready, Attached
<1> QED BY <1>0, <1>2, <1>3, OthersWait DEF Next

-----------------------------------------------------------------------------
(* The theorems. *)

\* Every reachable state is typed: labels, observations and memories belong to a
\* thread that is there, parents are memories of the same thread.
THEOREM TypeCorrect == Spec => []TypeOK
<1>1. Whereabouts => TypeOK
  <2> SUFFICES ASSUME Whereabouts PROVE TypeOK
    OBVIOUS
  <2>1. Typed /\ Bounded /\ Attached
    BY DEF Whereabouts, Inv
  <2> QED BY <2>1 DEF Typed, Bounded, Attached, TypeOK, RunType
<1> QED BY <1>1, InitWhereabouts, WhereaboutsAreInductive, PTL DEF Spec

\* Parents that the operator has set stay as long as their memory, whichever
\* chunks, rewires and repeated requests reach the server afterwards.
THEOREM ChosenParentsAreKept == Spec => []ChosenParentsStay
<1>1. Inv => ChosenParentsStay
  BY DEF Inv
<1> QED BY <1>1, InitInv, InvIsInductive, PTL DEF Spec

\* One step of the deletion's promise: only a batch that is not suppressed
\* takes a marker away, and it puts a thread with a memory in its place.
LEMMA DeletionStep ==
    Inv /\ [Next]_vars =>
      /\ marker = "forbid" => marker' = "forbid" /\ thread' = None
      /\ marker # "none" => thread = None
      /\ marker # "none" /\ marker' = "none" => thread' # None /\ stored' # {}
<1> SUFFICES ASSUME Inv, [Next]_vars, marker # "none"
             PROVE  /\ marker = "forbid" => marker' = "forbid" /\ thread' = None
                    /\ marker' = "none" => thread' # None /\ stored' # {}
  BY DEF Inv, MarkerFits
<1>0. thread = None /\ kind # "vault"
  BY DEF Inv, MarkerFits
<1>1. CASE UNCHANGED <<marker, thread>>
  BY <1>0, <1>1
<1>2. ASSUME NEW r \in Runs, NEW t \in Targets, At(r, "send"), ~Suppressed, Write(r, t)
      PROVE  marker # "forbid" /\ thread' # None /\ stored' # {}
  <2>1. run[r].todo \in SUBSET Entries /\ run[r].todo # {}
    BY <1>2 DEF Inv, Typed, RunType, RunFits, At
  <2>2. Chunk(r) # {}
    BY <2>1, ChunkIsNotEmpty
  <2>3. t \in Threads
    BY <1>0 DEF Targets, Fresh
  <2> QED BY <1>0, <1>2, <2>2, <2>3, SessionAssumption DEF Write, Suppressed
<1>3. ASSUME NEW r \in Runs, AddMemoriesBatch(r)
      PROVE  \/ UNCHANGED <<marker, thread>>
             \/ (marker # "forbid" /\ thread' # None /\ stored' # {})
  BY <1>2, <1>3 DEF AddMemoriesBatch, server
<1>4. ASSUME NEW r \in Runs, Step(r), ~AddMemoriesBatch(r)
      PROVE  UNCHANGED <<marker, thread>>
  <2>1. run[r].step # "drop"
    BY <1>0 DEF Inv, RunFits, Pruning
  <2> QED BY <1>4, <2>1 DEF Step, Start, FindThread, LookupMemory, LookedUp,
        UpdateMemoryParents, Rewired, RecordObservations, AddLabels, LookupParents,
        RewiredDuplicates, ListMemories, FilterCandidates, DeleteMemory, CountMemories,
        DropThread, At, server
<1>5. ASSUME NEW forbid \in BOOLEAN PROVE ~OperatorDeletes(forbid)
  BY <1>0 DEF OperatorDeletes
<1>6. ASSUME \/ SourceChanges
             \/ \E e \in Entries, ps \in SUBSET Entries : OperatorSetsParents(e, ps)
             \/ \E r \in Runs : Breaks(r) \/ OperatorDeclines(r)
      PROVE  UNCHANGED <<marker, thread>>
  BY <1>6 DEF SourceChanges, OperatorSetsParents, Breaks, OperatorDeclines, server
<1>7. CASE UNCHANGED vars
  BY <1>1, <1>7 DEF vars
<1> QED BY <1>0, <1>1, <1>3, <1>4, <1>5, <1>6, <1>7 DEF Next

\* A deletion with forbid_reimport holds: no run, not one in the middle of its
\* chunks and no repeated request, brings the thread back; a marker of either
\* kind goes only when an import has put a thread in its place.
THEOREM DeletionsHold == Spec => DeletionHolds
BY InitInv, InvIsInductive, DeletionStep, PTL DEF Spec, DeletionHolds

-----------------------------------------------------------------------------
(* A run that succeeds has left the whole session.  Sessions are read, sent  *)
(* and stored from the start, a run that goes on meets the thread it has     *)
(* written to, and what it has dealt with stays dealt with.                  *)

\* The references of an entry that Whole asks for.
Early(e) == {p \in lineage[e] : p < e}

\* With an entry, a set has all entries before it.
Prefix(S) == \A e \in S, d \in Entries : d < e => d \in S

\* The parents of a memory are there, or the operator has set others.
Settled(e) == chosen[e] # {} \/ Early(e) \subseteq parents[e]

\* Sessions grow and are stored in order, so that a rewire finds all it needs; a
\* memory with parents has those that are asked for.
Ordered ==
    /\ kind # "vault" => Prefix(source) /\ Prefix(stored)
    /\ \A e \in stored : parents[e] = {} \/ Settled(e)

\* Runs that must not overlap do not.
Solitary ==
    alone => \A r, o \in Runs :
                run[r].step \notin Resting /\ run[o].step \notin Resting => r = o

\* What a run knows of its own progress, whatever happens on the server.
Staged(w) ==
    /\ kind # "vault" => Prefix(w.read)
    /\ w.todo \subseteq w.read
    /\ w.step = "thread" => w.left = w.read
    /\ w.step \in {"thread", "lookup"} => w.left \subseteq w.read /\ ~w.acted
    /\ w.step \in {"thread", "lookup", "send"} /\ w.target = None =>
         w.read \subseteq w.todo \cup w.left
    /\ w.step \in {"send", "rewire", "observe", "label", "duplicates", "list"} => w.left = {}
    /\ w.step \in {"filter", "prune"} => w.left \cap w.read = {}
    /\ w.step \in {"observe", "label", "duplicates", "list", "filter", "prune"} => w.todo = {}
    /\ w.step \in {"thread", "lookup", "label", "duplicates"} => kind = "append"
    /\ w.step \in {"thread", "lookup", "send", "observe", "label"} => w.jobs = {}
    /\ kind # "append" => w.orphans = {}
    /\ \A j \in w.jobs : Early(j.entry) \subseteq j.parents

\* The entries that a run has sent, or found on the server.
Sent(w) == w.read \ (w.todo \cup w.left)

\* The parents of a memory are there, or the run is going to see to them.
Minded(w, e) == Settled(e) \/ e \in w.orphans \/ \E j \in w.jobs : j.entry = e

\* The labels are due with the last chunk, or, if there was none, before the
\* duplicates.
LabelsAreDue(w) ==
    \/ w.step = "rewire" /\ w.todo = {}
    \/ w.step = "observe" /\ (w.acted \/ kind # "append")
    \/ w.step = "duplicates"
    \/ w.step \in {"list", "filter", "prune"} /\ w.read # {}

\* A run under way that has still the thread it has written to has all it has
\* sent in it; if it is alone, there is no other thread.
OnCourse(w) ==
    w.step \notin Resting /\ (kind = "vault" => alone) =>
      /\ kind = "vault" /\ w.step \in {"rewire", "list"} /\ w.read # {} =>
           thread \in {None, w.target}
      /\ thread # None /\ w.target = thread =>
           /\ \A e \in Sent(w) : e \in stored /\ Minded(w, e)
           /\ LabelsAreDue(w) => labelled
           /\ w.step \in {"label", "duplicates"} => observed

Course ==
    /\ Ordered /\ Solitary
    /\ \A r \in Runs : Staged(run[r]) /\ OnCourse(run[r])

-----------------------------------------------------------------------------
(* Chunks, and runs that go on.                                              *)

\* The next chunk is taken from the start of what remains.
LEMMA ChunkIsFirst ==
    ASSUME NEW r \in Runs, run[r].todo \in SUBSET Entries
    PROVE  /\ Chunk(r) \subseteq run[r].todo
           /\ \A e \in Chunk(r), d \in run[r].todo : d < e => d \in Chunk(r)
<1> DEFINE T == run[r].todo
           Upto(e) == {d \in T : d <= e}
<1>1. ASSUME NEW e \in Chunk(r), NEW d \in T, d < e
      PROVE  d \in Chunk(r)
  <2>1. Cardinality(Upto(e)) <= ChunkSize /\ e \in T
    BY <1>1 DEF Chunk
  <2>2. IsFiniteSet(Entries)
    BY FS_Interval, SizesAssumption DEF Entries
  <2>3. IsFiniteSet(Upto(e))
    BY <2>2, FS_Subset
  <2>4. Upto(d) \subseteq Upto(e)
    BY <1>1, <2>1, SizesAssumption DEF Entries
  <2>5. Cardinality(Upto(d)) <= Cardinality(Upto(e))
    BY <2>3, <2>4, FS_Subset
  <2>6. Cardinality(Upto(d)) \in Nat /\ Cardinality(Upto(e)) \in Nat
    BY <2>3, <2>4, FS_Subset, FS_CardinalityType
  <2>7. Cardinality(Upto(d)) <= ChunkSize
    <3> HIDE DEF Upto
    <3> QED BY <2>1, <2>5, <2>6, SizesAssumption
  <2> QED BY <2>7 DEF Chunk
<1>2. Chunk(r) \subseteq T
  BY DEF Chunk
<1> QED BY <1>1, <1>2

\* What a deletion changes in what a run remembers.
Alike(w, v) ==
    /\ v.step = w.step /\ v.read = w.read /\ v.todo = w.todo /\ v.target = w.target
    /\ v.jobs = w.jobs /\ v.orphans = w.orphans
    /\ \/ v.left = w.left /\ v.acted = w.acted
       \/ w.step \in {"filter", "prune"} /\ v.left \subseteq w.left

\* Nothing is lost but with the whole thread, and a new one is new to all.
Gains ==
    \/ thread' = None
    \/ /\ thread' = thread \/ \A o \in Runs : run[o].target # thread'
       /\ stored \subseteq stored'
       /\ \A e \in stored : Settled(e) => Settled(e)'
       /\ labelled => labelled'
       /\ observed => observed'

LEMMA BystandersStay ==
    ASSUME NEW o \in Runs, Staged(run[o]), OnCourse(run[o]), Alike(run[o], run'[o]),
           UNCHANGED session, Gains,
           \/ thread' \in {None, thread}
           \/ kind = "vault" /\ alone => run[o].step \in Resting \cup {"send"}
    PROVE  Staged(run[o])' /\ OnCourse(run[o])'
<1>0. UNCHANGED <<kind, lineage, alone>>
  BY DEF session
<1>1. Staged(run[o])'
  BY <1>0, Zenon DEF Staged, Alike, Prefix, Early
<1>2. Sent(run[o])' = Sent(run[o])
  BY DEF Sent, Staged, Alike
<1>3. OnCourse(run[o])'
  <2> SUFFICES ASSUME run[o].step \notin Resting, kind = "vault" => alone
               PROVE  /\ (kind = "vault" /\ run[o].step \in {"rewire", "list"}
                            /\ run[o].read # {})' => thread' \in {None, run'[o].target}
                      /\ thread' # None /\ run'[o].target = thread' =>
                           /\ \A e \in Sent(run[o])' : e \in stored' /\ Minded(run[o], e)'
                           /\ LabelsAreDue(run[o])' => labelled'
                           /\ run'[o].step \in {"label", "duplicates"} => observed'
    BY <1>0 DEF OnCourse, Alike
  <2>1. ASSUME kind = "vault", run[o].step \in {"rewire", "list"}, run[o].read # {}
        PROVE  thread' \in {None, run[o].target}
    BY <2>1 DEF OnCourse
  <2>2. ASSUME thread' # None, run[o].target = thread'
        PROVE  /\ \A e \in Sent(run[o]) : e \in stored' /\ Minded(run[o], e)'
               /\ LabelsAreDue(run[o])' => labelled'
               /\ run[o].step \in {"label", "duplicates"} => observed'
    <3>1. thread # None /\ run[o].target = thread
      BY <2>2 DEF Gains
    <3>2. ASSUME NEW e \in Sent(run[o]) PROVE e \in stored' /\ Minded(run[o], e)'
      <4>1. e \in stored /\ Minded(run[o], e)
        BY <3>1 DEF OnCourse
      <4> QED BY <2>2, <4>1 DEF Gains, Minded, Alike
    <3>3. LabelsAreDue(run[o])' => LabelsAreDue(run[o])
      BY <1>0 DEF LabelsAreDue, Alike
    <3> QED BY <2>2, <3>1, <3>2, <3>3 DEF Gains, OnCourse
  <2> QED BY <1>0, <1>2, <2>1, <2>2 DEF Alike
<1> QED BY <1>1, <1>3

\* A step of the server, for one run that goes on or repeats its request.
LEMMA RunGoesOn ==
    ASSUME Whereabouts, Course, NEW r \in Runs, NEW next \in RunType,
           UNCHANGED session, Ordered', Gains,
           thread' \in {None, thread} \/ run[r].step = "send",
           run[r].step \notin Resting,
           run' = [run EXCEPT ![r] = next] \/ UNCHANGED run,
           run'[r] = next => Staged(run[r])' /\ OnCourse(run[r])'
    PROVE  Course'
<1>1. run \in [Runs -> RunType]
  BY DEF Whereabouts, Inv, Typed
<1>2. UNCHANGED <<kind, lineage, alone>>
  BY DEF session
<1>3. ASSUME NEW o \in Runs, run'[o] = run[o]
      PROVE  Staged(run[o])' /\ OnCourse(run[o])'
  <2>1. Alike(run[o], run'[o])
    BY <1>3 DEF Alike
  <2>2. \/ thread' \in {None, thread}
        \/ kind = "vault" /\ alone => run[o].step \in Resting \cup {"send"}
    BY DEF Course, Solitary
  <2> QED BY <2>1, <2>2, BystandersStay DEF Course
<1>4. \A o \in Runs : Staged(run[o])' /\ OnCourse(run[o])'
  BY <1>1, <1>3
<1>5. Solitary'
  <2>1. \A o \in Runs : run'[o].step \notin Resting => run[o].step \notin Resting
    BY <1>1
  <2> QED BY <1>2, <2>1, Zenon DEF Course, Solitary
<1> QED BY <1>4, <1>5 DEF Course

\* A step of one run that leaves the server as it is.
LEMMA RunReads ==
    ASSUME Whereabouts, Course, NEW r \in Runs, NEW next \in RunType,
           UNCHANGED <<session, source, server>>,
           run[r].step \notin Resting,
           Reply(r, next) \/ Go(r, next) \/ run' = [run EXCEPT ![r] = next],
           Staged(next), OnCourse(next)
    PROVE  Course'
<1>1. UNCHANGED <<kind, lineage, alone, source, thread, stored, parents, chosen, labelled,
                  observed>>
  BY DEF session, server
<1>2. Ordered'
  BY <1>1 DEF Course, Ordered, Prefix, Settled, Early
<1>3. Gains
  BY <1>1 DEF Gains, Settled, Early
<1>4. run'[r] = next => Staged(run[r])' /\ OnCourse(run[r])'
  <2> SUFFICES ASSUME run'[r] = next PROVE Staged(run[r])' /\ OnCourse(run[r])'
    OBVIOUS
  <2>1. Staged(run[r])'
    BY <1>1 DEF Staged, Prefix, Early
  <2>2. OnCourse(run[r])'
    BY <1>1 DEF OnCourse, Sent, Minded, Settled, Early, LabelsAreDue
  <2> QED BY <2>1, <2>2
<1> QED BY <1>1, <1>2, <1>3, <1>4, RunGoesOn DEF Reply, Go

\* A run that ends keeps what it has read and the thread, and asks for nothing.
LEMMA EndedIsOver ==
    ASSUME Whereabouts, NEW r \in Runs, Staged(run[r]), NEW s \in Resting
    PROVE  /\ Ended(r, s) \in RunType /\ Ended(r, s).step = s
           /\ Ended(r, s).read = run[r].read /\ Ended(r, s).target = run[r].target
           /\ Staged(Ended(r, s)) /\ OnCourse(Ended(r, s))
<1>1. Ended(r, s) \in RunType /\ Ended(r, s).step = s
  BY EndedTyped DEF Whereabouts, Inv, Steps
<1>2. /\ Ended(r, s).read = run[r].read /\ Ended(r, s).target = run[r].target
      /\ Ended(r, s).todo = {} /\ Ended(r, s).left = {} /\ Ended(r, s).jobs = {}
      /\ Ended(r, s).orphans = {}
  <2>1. /\ Idle \in RunType /\ Idle.jobs = {} /\ Idle.orphans = {}
        /\ Idle.todo = {} /\ Idle.left = {}
    BY IdleTyped DEF Idle
  <2>2. run[r].read \in SUBSET Entries /\ run[r].target \in Threads \cup {None}
    BY DEF Whereabouts, Inv, Typed, RunType
  <2> HIDE DEF Idle
  <2> QED BY <2>1, <2>2 DEF Ended, RunType
<1> HIDE DEF Ended
<1>3. Staged(Ended(r, s))
  BY <1>1, <1>2 DEF Staged, Resting
<1>4. OnCourse(Ended(r, s))
  BY <1>1 DEF OnCourse
<1> QED BY <1>1, <1>2, <1>3, <1>4

-----------------------------------------------------------------------------
(* Every step keeps to the course.                                           *)

LEMMA InitCourse == Init => Course
<1> SUFFICES ASSUME Init PROVE Course
  OBVIOUS
<1>1. Ordered
  BY SizesAssumption DEF Init, Ordered, Prefix, Entries
<1>2. \A r \in Runs : run[r] = Idle
  BY DEF Init
<1>3. Solitary
  BY <1>2 DEF Solitary, Idle, Resting
<1>4. Staged(Idle) /\ OnCourse(Idle)
  BY DEF Staged, OnCourse, Idle, Resting, Prefix
<1> QED BY <1>1, <1>2, <1>3, <1>4 DEF Course

LEMMA StartKeepsCourse ==
    ASSUME Whereabouts, Course, NEW r \in Runs, Start(r)
    PROVE  Course'
<1>1. PICK snapshot \in IF kind = "append" THEN {thread, None} ELSE {None} :
        Go(r, [Idle EXCEPT
                !.step = IF kind = "append" THEN "thread"
                         ELSE IF source = {} THEN "list" ELSE "send",
                !.read = source, !.target = snapshot,
                !.left = IF kind = "append" THEN source ELSE {},
                !.todo = IF kind = "append" THEN {} ELSE source])
  BY DEF Start
<1> DEFINE next == [Idle EXCEPT
                !.step = IF kind = "append" THEN "thread"
                         ELSE IF source = {} THEN "list" ELSE "send",
                !.read = source, !.target = snapshot,
                !.left = IF kind = "append" THEN source ELSE {},
                !.todo = IF kind = "append" THEN {} ELSE source]
<1>2. /\ next.step = IF kind = "append" THEN "thread"
                     ELSE IF source = {} THEN "list" ELSE "send"
      /\ next.read = source /\ next.jobs = {} /\ next.orphans = {}
      /\ next.left = (IF kind = "append" THEN source ELSE {})
      /\ next.todo = (IF kind = "append" THEN {} ELSE source)
      /\ next.acted = FALSE
  BY DEF Idle
<1>3. run' = [run EXCEPT ![r] = next]
  BY <1>1 DEF Go
<1> HIDE DEF next
<1>4. /\ run \in [Runs -> RunType]
      /\ UNCHANGED <<kind, lineage, alone, source, thread, stored, parents, chosen,
                     labelled, observed>>
      /\ source = {} => kind = "vault"
      /\ alone => \A o \in Runs : run[o].step \in Resting
  BY DEF Start, session, server, Whereabouts, Inv, Typed
<1>5. Staged(next)
  BY <1>2, <1>4 DEF Staged, Course, Ordered
<1>6. OnCourse(next)
  BY <1>2, <1>4 DEF OnCourse, Sent, LabelsAreDue
<1>7. ASSUME NEW o \in Runs PROVE Staged(run[o])' /\ OnCourse(run[o])'
  <2> DEFINE w == run'[o]
  <2>1. Staged(w) /\ OnCourse(w)
    BY <1>3, <1>4, <1>5, <1>6 DEF Course
  <2>2. Staged(run[o])'
    BY <1>4, <2>1 DEF Staged, Prefix, Early
  <2>3. OnCourse(run[o])'
    BY <1>4, <2>1 DEF OnCourse, Sent, Minded, Settled, Early, LabelsAreDue
  <2> QED BY <2>2, <2>3
<1>8. Ordered'
  BY <1>4 DEF Course, Ordered, Prefix, Settled, Early
<1>9. Solitary'
  <2>1. alone => \A o \in Runs : run'[o].step \notin Resting => o = r
    BY <1>3, <1>4
  <2> QED BY <1>4, <2>1, Zenon DEF Solitary
<1> QED BY <1>7, <1>8, <1>9 DEF Course

\* The entries are looked up one after the other: those that are there may
\* need parents, the others are to be sent.
LEMMA LookupKeepsCourse ==
    ASSUME Whereabouts, Course, NEW r \in Runs,
           FindThread(r) \/ LookupMemory(r) \/ LookedUp(r)
    PROVE  Course'
<1>0. /\ run[r] \in RunType /\ Staged(run[r]) /\ OnCourse(run[r]) /\ Ready(run[r])
      /\ thread \in Threads \cup {None}
      /\ run[r].step \in {"thread", "lookup"}
      /\ UNCHANGED <<session, source, server>>
  BY DEF Whereabouts, Inv, Typed, Course, Waiting, FindThread, LookupMemory, LookedUp, At
<1>r. run[r].step \notin Resting
  BY <1>0 DEF Resting
<1>f. /\ Ended(r, "failed") \in RunType
      /\ Staged(Ended(r, "failed")) /\ OnCourse(Ended(r, "failed"))
  BY <1>0, EndedIsOver DEF Resting
<1>g. run[r].target = None => run[r].read \subseteq run[r].todo \cup run[r].left
  BY <1>0 DEF Staged
<1>a. kind = "append" /\ ~run[r].acted /\ run[r].left \subseteq run[r].read
  BY <1>0 DEF Staged
<1>1. CASE FindThread(r)
  <2> DEFINE a == [run[r] EXCEPT !.step = "lookup"]
             b == [run[r] EXCEPT !.step = "lookup", !.target = thread]
  <2>1. /\ a \in RunType /\ a.step = "lookup" /\ a.target = run[r].target
        /\ a.left = run[r].left /\ a.todo = run[r].todo /\ a.jobs = run[r].jobs
        /\ a.orphans = run[r].orphans /\ a.read = run[r].read /\ a.acted = run[r].acted
    BY <1>0 DEF RunType, Steps
  <2>2. /\ b \in RunType /\ b.step = "lookup" /\ b.target = thread
        /\ b.left = run[r].left /\ b.todo = run[r].todo /\ b.jobs = run[r].jobs
        /\ b.orphans = run[r].orphans /\ b.read = run[r].read /\ b.acted = run[r].acted
    BY <1>0 DEF RunType, Steps
  <2>3. run[r].step = "thread" /\ (Go(r, a) \/ Reply(r, b))
    BY <1>1 DEF FindThread, At
  <2> HIDE DEF a, b
  <2>4. run[r].left = run[r].read
    BY <1>0, <2>3 DEF Staged
  <2>5. Staged(a) /\ Staged(b)
    BY <1>0, <2>1, <2>2, <2>3, <2>4 DEF Staged
  <2>6. Sent(a) = {} /\ Sent(b) = {}
    BY <2>1, <2>2, <2>4 DEF Sent
  <2>7. OnCourse(a) /\ OnCourse(b)
    BY <2>1, <2>2, <2>6 DEF OnCourse, LabelsAreDue
  <2> QED BY <1>0, <1>r, <2>1, <2>2, <2>3, <2>5, <2>7, RunReads
<1>2. CASE LookupMemory(r)
  <2>1. PICK e \in run[r].left :
         LET rest == [run[r] EXCEPT !.left = @ \ {e}] IN
            Reply(r,
              IF e \notin stored THEN [rest EXCEPT !.todo = @ \cup {e}]
              ELSE IF run[r].target # thread THEN Ended(r, "failed")
              ELSE IF parents[e] = {} THEN [rest EXCEPT !.orphans = @ \cup {e}]
              ELSE rest)
    BY <1>2 DEF LookupMemory
  <2> DEFINE rest == [run[r] EXCEPT !.left = @ \ {e}]
             a == [rest EXCEPT !.todo = @ \cup {e}]
             b == [rest EXCEPT !.orphans = @ \cup {e}]
  <2>2. e \in Entries /\ run[r].step = "lookup"
    BY <1>0, <1>2 DEF RunType, LookupMemory, At
  <2>3. /\ rest \in RunType /\ rest.step = "lookup" /\ rest.target = run[r].target
        /\ rest.jobs = run[r].jobs /\ rest.orphans = run[r].orphans
        /\ rest.left = run[r].left \ {e} /\ rest.todo = run[r].todo
        /\ rest.read = run[r].read /\ rest.acted = run[r].acted
    BY <1>0, <2>2 DEF RunType
  <2>4. \/ Reply(r, a) \/ Reply(r, Ended(r, "failed"))
        \/ e \in stored /\ run[r].target = thread /\ parents[e] = {} /\ Reply(r, b)
        \/ e \in stored /\ run[r].target = thread /\ parents[e] # {} /\ Reply(r, rest)
    BY <2>1
  <2> HIDE DEF rest
  <2>5. /\ a \in RunType /\ a.step = "lookup" /\ a.target = rest.target
        /\ a.jobs = rest.jobs /\ a.orphans = rest.orphans /\ a.left = rest.left
        /\ a.todo = rest.todo \cup {e} /\ a.read = rest.read /\ a.acted = rest.acted
    BY <2>2, <2>3 DEF RunType
  <2>6. /\ b \in RunType /\ b.step = "lookup" /\ b.target = rest.target
        /\ b.jobs = rest.jobs /\ b.orphans = rest.orphans \cup {e} /\ b.left = rest.left
        /\ b.todo = rest.todo /\ b.read = rest.read /\ b.acted = rest.acted
    BY <2>2, <2>3 DEF RunType
  <2> HIDE DEF a, b
  <2>7. Staged(a)
    BY <1>0, <1>a, <1>g, <2>2, <2>3, <2>5 DEF Staged
  <2>8. e \in stored /\ run[r].target = thread => run[r].target # None
    BY DEF Whereabouts, Attached
  <2>9. e \in stored /\ run[r].target = thread => Staged(b) /\ Staged(rest)
    BY <1>0, <1>a, <2>2, <2>3, <2>6, <2>8 DEF Staged
  <2>10. OnCourse(a)
    <3>1. Sent(a) = Sent(run[r])
      BY <2>3, <2>5 DEF Sent
    <3>2. ~LabelsAreDue(a)
      BY <2>5 DEF LabelsAreDue
    <3>3. \A d \in Sent(run[r]) : Minded(run[r], d) => Minded(a, d)
      BY <2>3, <2>5 DEF Minded
    <3> QED BY <1>0, <1>r, <2>3, <2>5, <3>1, <3>2, <3>3 DEF OnCourse
  <2>11. e \in stored => OnCourse(b)
    <3>1. Sent(b) \subseteq Sent(run[r]) \cup {e}
      BY <2>3, <2>6 DEF Sent
    <3>2. ~LabelsAreDue(b)
      BY <2>6 DEF LabelsAreDue
    <3>3. Minded(b, e) /\ \A d \in Sent(run[r]) : Minded(run[r], d) => Minded(b, d)
      BY <2>3, <2>6 DEF Minded
    <3> QED BY <1>0, <1>r, <2>3, <2>6, <3>1, <3>2, <3>3 DEF OnCourse
  <2>12. e \in stored /\ parents[e] # {} => OnCourse(rest)
    <3>1. Sent(rest) \subseteq Sent(run[r]) \cup {e}
      BY <2>3 DEF Sent
    <3>2. ~LabelsAreDue(rest)
      BY <2>3 DEF LabelsAreDue
    <3>3. e \in stored /\ parents[e] # {} => Minded(rest, e)
      BY DEF Minded, Course, Ordered
    <3>4. \A d \in Sent(run[r]) : Minded(run[r], d) => Minded(rest, d)
      BY <2>3 DEF Minded
    <3> QED BY <1>0, <1>r, <2>3, <3>1, <3>2, <3>3, <3>4 DEF OnCourse
  <2> QED BY <1>0, <1>f, <1>r, <2>3, <2>4, <2>5, <2>6, <2>7, <2>9, <2>10, <2>11, <2>12,
             RunReads
<1>3. CASE LookedUp(r)
  <2> DEFINE next == [run[r] EXCEPT !.step = IF run[r].todo = {} THEN "observe" ELSE "send"]
  <2>1. /\ next \in RunType /\ next.target = run[r].target
        /\ next.step = (IF run[r].todo = {} THEN "observe" ELSE "send")
        /\ next.jobs = run[r].jobs /\ next.orphans = run[r].orphans
        /\ next.left = run[r].left /\ next.todo = run[r].todo /\ next.read = run[r].read
        /\ next.acted = run[r].acted
    BY <1>0 DEF RunType, Steps
  <2>2. Go(r, next) /\ run[r].step = "lookup" /\ run[r].left = {}
    BY <1>3 DEF LookedUp, At
  <2> HIDE DEF next
  <2>3. Staged(next)
    BY <1>0, <1>a, <1>g, <2>1, <2>2 DEF Staged
  <2>4. OnCourse(next)
    <3>1. Sent(next) = Sent(run[r]) /\ \A d \in Sent(run[r]) : Minded(run[r], d) => Minded(next, d)
      BY <2>1 DEF Sent, Minded
    <3>2. ~LabelsAreDue(next)
      BY <1>a, <2>1 DEF LabelsAreDue
    <3> QED BY <1>0, <1>r, <2>1, <3>1, <3>2 DEF OnCourse
  <2> QED BY <1>0, <1>r, <2>1, <2>2, <2>3, <2>4, RunReads
<1> QED BY <1>1, <1>2, <1>3

\* Between chunks and between duplicates: a job is done when the parents are.
LEMMA RewiredKeepsCourse ==
    ASSUME Whereabouts, Course, NEW r \in Runs,
           Rewired(r) \/ LookupParents(r) \/ RewiredDuplicates(r)
    PROVE  Course'
<1>0. /\ run[r] \in RunType /\ Staged(run[r]) /\ OnCourse(run[r]) /\ Ready(run[r])
      /\ run[r].step \in {"rewire", "duplicates"} /\ run[r].jobs = {}
      /\ UNCHANGED <<session, source, server>>
  BY DEF Whereabouts, Inv, Typed, Course, Waiting, Rewired, LookupParents,
         RewiredDuplicates, At
<1>r. run[r].step \notin Resting /\ run[r].target # None
  BY <1>0 DEF Resting, Ready
<1>1. CASE Rewired(r)
  <2> DEFINE next == [run[r] EXCEPT !.step = IF run[r].todo # {} THEN "send"
                                     ELSE IF kind = "vault" THEN "list" ELSE "observe"]
  <2>1. /\ next \in RunType /\ next.target = run[r].target
        /\ next.step = (IF run[r].todo # {} THEN "send"
                        ELSE IF kind = "vault" THEN "list" ELSE "observe")
        /\ next.jobs = run[r].jobs /\ next.orphans = run[r].orphans
        /\ next.left = run[r].left /\ next.todo = run[r].todo /\ next.read = run[r].read
    BY <1>0 DEF RunType, Steps
  <2>2. Go(r, next) /\ run[r].step = "rewire"
    BY <1>1 DEF Rewired, At
  <2> HIDE DEF next
  <2>3. Staged(next)
    BY <1>0, <1>r, <2>1, <2>2 DEF Staged
  <2>4. OnCourse(next)
    <3>1. Sent(next) = Sent(run[r]) /\ \A d \in Sent(run[r]) : Minded(run[r], d) => Minded(next, d)
      BY <2>1 DEF Sent, Minded
    <3>2. LabelsAreDue(next) => LabelsAreDue(run[r])
      BY <2>1, <2>2 DEF LabelsAreDue
    <3>3. next.step \notin {"label", "duplicates"}
      BY <2>1
    <3> QED BY <1>0, <1>r, <2>1, <2>2, <3>1, <3>2, <3>3 DEF OnCourse
  <2> QED BY <1>0, <1>r, <2>1, <2>2, <2>3, <2>4, RunReads
<1>2. CASE LookupParents(r)
  <2>1. PICK e \in run[r].orphans :
         LET ps == IF run[r].target = thread THEN lineage[e] \cap stored ELSE {} IN
            Reply(r, [run[r] EXCEPT !.orphans = @ \ {e},
                                    !.jobs = IF ps = {} THEN {}
                                             ELSE {[entry |-> e, parents |-> ps]}])
    BY <1>2 DEF LookupParents
  <2> DEFINE ps == IF run[r].target = thread THEN lineage[e] \cap stored ELSE {}
             js == IF ps = {} THEN {} ELSE {[entry |-> e, parents |-> ps]}
             next == [run[r] EXCEPT !.orphans = @ \ {e}, !.jobs = js]
  <2>2. e \in Entries /\ run[r].step = "duplicates" /\ kind = "append"
    BY <1>0, <1>2 DEF RunType, LookupParents, At, Staged
  <2>3. ps \in SUBSET Entries
    BY <2>2 DEF Whereabouts, Inv, Typed
  <2>4. js \in SUBSET Jobs
    <3> HIDE DEF ps
    <3> QED BY <2>2, <2>3 DEF Jobs
  <2>5. ps # {} => Early(e) \subseteq ps
    <3> SUFFICES ASSUME ps # {} PROVE Early(e) \subseteq ps
      OBVIOUS
    <3>1. thread # None /\ run[r].target = thread
      BY DEF Whereabouts, Attached
    <3>2. e \in stored
      BY <1>0, <2>2, <3>1 DEF Ready
    <3>3. Early(e) \subseteq stored
      BY <2>2, <3>2 DEF Early, Course, Ordered, Prefix, Whereabouts, Inv, Typed
    <3> QED BY <3>1, <3>3 DEF Early
  <2>6. thread # None /\ run[r].target = thread /\ ps = {} => Early(e) = {}
    <3> SUFFICES ASSUME thread # None, run[r].target = thread, ps = {} PROVE Early(e) = {}
      OBVIOUS
    <3>1. e \in stored
      BY <1>0, <2>2 DEF Ready
    <3>2. Early(e) \subseteq stored
      BY <2>2, <3>1 DEF Early, Course, Ordered, Prefix, Whereabouts, Inv, Typed
    <3> QED BY <3>2 DEF Early
  <2>7. Reply(r, next)
    BY <2>1
  <2> HIDE DEF ps
  <2>8. /\ ps # {} => \E j \in js : j.entry = e
        /\ \A j \in js : Early(j.entry) \subseteq j.parents
    <3> DEFINE job == [entry |-> e, parents |-> ps]
    <3>1. job.entry = e /\ job.parents = ps
      OBVIOUS
    <3>2. js = IF ps = {} THEN {} ELSE {job}
      OBVIOUS
    <3> HIDE DEF job, js
    <3> QED BY <2>5, <3>1, <3>2
  <2> HIDE DEF js
  <2>9. /\ next \in RunType /\ next.step = "duplicates" /\ next.target = run[r].target
        /\ next.orphans = run[r].orphans \ {e} /\ next.jobs = js
        /\ next.left = run[r].left /\ next.todo = run[r].todo /\ next.read = run[r].read
    BY <1>0, <2>2, <2>4 DEF RunType
  <2> HIDE DEF next
  <2>10. Staged(next)
    BY <1>0, <2>2, <2>8, <2>9 DEF Staged
  <2>11. OnCourse(next)
    <3>1. Sent(next) = Sent(run[r])
      BY <2>9 DEF Sent
    <3>2. thread # None /\ run[r].target = thread =>
            \A d \in Sent(run[r]) : Minded(run[r], d) => Minded(next, d)
      BY <1>0, <2>6, <2>8, <2>9 DEF Minded, Settled
    <3>3. LabelsAreDue(run[r])
      BY <2>2 DEF LabelsAreDue
    <3> QED BY <1>0, <1>r, <2>2, <2>9, <3>1, <3>2, <3>3 DEF OnCourse
  <2> QED BY <1>0, <1>r, <2>7, <2>9, <2>10, <2>11, RunReads
<1>3. CASE RewiredDuplicates(r)
  <2>1. "done" \in Resting /\ Go(r, Ended(r, "done"))
    BY <1>3 DEF Resting, RewiredDuplicates
  <2> QED BY <1>0, <1>r, <2>1, EndedIsOver, RunReads
<1> QED BY <1>1, <1>2, <1>3

\* A batch takes the next entries in order, so that all references to earlier
\* ones are resolved, now or by the rewires that it leaves to the client.
LEMMA BatchKeepsCourse ==
    ASSUME Whereabouts, Course, NEW r \in Runs, AddMemoriesBatch(r)
    PROVE  Course'
<1>0. /\ run[r] \in RunType /\ Staged(run[r]) /\ OnCourse(run[r]) /\ Ready(run[r])
      /\ thread \in Threads \cup {None} /\ stored \in SUBSET Entries
      /\ run[r].step = "send" /\ Ordered
      /\ UNCHANGED <<session, source>>
      /\ lineage \in [Entries -> SUBSET Entries] /\ parents \in [Entries -> SUBSET Entries]
  BY DEF Whereabouts, Inv, Typed, Course, Waiting, AddMemoriesBatch, At
<1>r. run[r].step \notin Resting
  BY <1>0 DEF Resting
<1>k. UNCHANGED <<kind, lineage, alone, source>>
  BY <1>0 DEF session
<1>1. CASE /\ Reply(r, Ended(r, "skipped")) \/ Reply(r, Ended(r, "failed"))
           /\ UNCHANGED server
  <2>1. \A s \in {"skipped", "failed"} :
          Ended(r, s) \in RunType /\ Staged(Ended(r, s)) /\ OnCourse(Ended(r, s))
    BY <1>0, EndedIsOver DEF Resting
  <2> QED BY <1>0, <1>1, <1>r, <2>1, RunReads
<1>2. ASSUME NEW t \in Targets, Write(r, t), Acceptable(r)
      PROVE  Course'
  <2> DEFINE batch == Chunk(r)
             js == Outcomes(batch)
             rest == run[r].todo \ batch
             next == [run[r] EXCEPT !.step = "rewire", !.target = t, !.acted = TRUE,
                                    !.todo = rest, !.jobs = js]
  <2>1. /\ batch \in SUBSET Entries /\ rest \in SUBSET Entries
        /\ batch \subseteq run[r].todo /\ run[r].todo \subseteq run[r].read
        /\ run[r].read \in SUBSET Entries
        /\ \A e \in batch, d \in run[r].todo : d < e => d \in batch
    <3>1. run[r].todo \in SUBSET Entries /\ run[r].read \in SUBSET Entries
      BY <1>0 DEF RunType
    <3>2. run[r].todo \subseteq run[r].read
      BY <1>0 DEF Staged
    <3> QED BY <3>1, <3>2, ChunkIsFirst
  <2>2. t \in Threads /\ t # None /\ (thread # None => t = thread)
        /\ (thread = None => \A o \in Runs : run[o].target # t)
    BY <1>0, SessionAssumption DEF Targets, Fresh
  <2>3. js \in SUBSET Jobs
    <3> HIDE DEF batch
    <3> QED BY <1>0, <2>1 DEF Outcomes, Jobs
  <2>4. next = [run[r] EXCEPT !.step = "rewire", !.target = t, !.acted = TRUE,
                              !.todo = @ \ batch, !.jobs = Outcomes(batch)]
    BY <1>0 DEF RunType
  <2>5. Reply(r, next)
    BY <1>2, <2>4 DEF Write
  <2>6. /\ thread' = t
        /\ stored' = stored \cup batch
        /\ parents' = [e \in Entries |->
             IF e \in batch \ stored THEN ParentsOfNew(e, batch) ELSE parents[e]]
        /\ labelled' = (labelled \/ LastChunk(r) \/ (kind = "append" /\ run[r].target = None))
        /\ UNCHANGED <<chosen, observed>>
    BY <1>2 DEF Write
  <2>7. /\ next \in RunType /\ next.step = "rewire" /\ next.target = t
        /\ next.jobs = js /\ next.orphans = run[r].orphans /\ next.todo = rest
        /\ next.read = run[r].read /\ next.left = run[r].left
    BY <1>0, <2>1, <2>2, <2>3 DEF RunType, Steps
  <2>8. LastChunk(r) <=> rest = {}
    BY <2>1 DEF LastChunk
  <2>9. \A j \in js : /\ j.entry \in batch \cap stored
                      /\ j.parents = Resolved(j.entry, batch)
    BY DEF Outcomes
  <2>10. ASSUME NEW e \in batch \cap stored, parents[e] = {}, Resolved(e, batch) # {}
         PROVE  \E j \in js : j.entry = e
    <3> DEFINE job == [entry |-> e, parents |-> Resolved(e, batch)]
    <3>1. job.entry = e /\ job.parents = Resolved(e, batch)
      OBVIOUS
    <3>2. Resolved(e, batch) \in SUBSET (stored \cup batch)
      BY DEF Resolved
    <3>3. job \in [entry : batch \cap stored, parents : SUBSET (stored \cup batch)]
      <4> HIDE DEF batch
      <4> QED BY <3>2
    <3>4. job \in js
      <4> HIDE DEF batch, job
      <4> QED BY <2>10, <3>1, <3>3 DEF Outcomes
    <3> QED BY <3>1, <3>4
  <2> HIDE DEF js, rest, batch, next
  <2>11. run[r].target = thread \/ (run[r].target = None /\ run[r].read \subseteq run[r].todo)
    <3>1. run[r].target # None => run[r].target = thread
      BY <1>2 DEF Acceptable
    <3>2. run[r].target = None => run[r].read \subseteq run[r].todo
      BY <1>0 DEF Staged
    <3> QED BY <3>1, <3>2
  <2>12. run[r].target = None => run[r].read \subseteq run[r].todo
    BY <1>0 DEF Staged
  <2>14. ASSUME kind = "vault" => alone, NEW d \in run[r].read \ run[r].todo
         PROVE  d \in stored /\ Minded(run[r], d)
    <3>1. run[r].target = thread /\ thread # None
      BY <2>11, <2>12, <2>14
    <3>2. d \in Sent(run[r])
      BY <1>0, <2>14 DEF Sent, Staged
    <3> QED BY <1>0, <1>r, <2>14, <3>1, <3>2 DEF OnCourse
  <2>15. ASSUME kind # "vault", NEW e \in batch, NEW d \in Entries, d < e
         PROVE  d \in stored \cup batch
    <3>1. d \in run[r].read
      BY <1>0, <2>1, <2>15 DEF Staged, Prefix
    <3> QED BY <2>1, <2>14, <2>15, <3>1
  <2>16. ASSUME NEW e \in batch
         PROVE  Early(e) \subseteq lineage[e] \cap (stored \cup {d \in batch : d < e})
    <3>1. CASE kind = "vault"
      <4>1. Early(e) = {}
        BY <2>1, <3>1 DEF Early, Whereabouts, Attached, NoParents
      <4> QED BY <4>1
    <3>2. CASE kind # "vault"
      BY <1>0, <2>1, <2>15, <3>2 DEF Early
    <3> QED BY <3>1, <3>2
  <2>17. ASSUME NEW e \in batch
         PROVE  /\ Early(e) \subseteq Resolved(e, batch)
                /\ Early(e) \subseteq ParentsOfNew(e, batch)
    BY <2>16 DEF Resolved, ParentsOfNew
  <2>18. \A e \in stored : Settled(e) => Settled(e)'
    BY <1>k, <1>0, <2>6 DEF Settled, Early
  <2>19. \A e \in batch \ stored : Settled(e)'
    BY <1>k, <2>1, <2>6, <2>17 DEF Settled, Early
  <2>20. \A e \in stored : parents'[e] = parents[e]
    BY <1>0, <2>6
  <2>21. Ordered'
    <3>1. kind # "vault" => Prefix(source') /\ Prefix(stored')
      <4>1. kind # "vault" => Prefix(source) /\ Prefix(stored)
        BY <1>0 DEF Ordered
      <4> QED BY <1>k, <2>6, <2>15, <4>1 DEF Prefix
    <3>2. \A e \in stored' : parents'[e] = {} \/ Settled(e)'
      BY <1>0, <2>6, <2>18, <2>19, <2>20 DEF Ordered
    <3> QED BY <1>k, <3>1, <3>2 DEF Ordered, Prefix
  <2>22. Gains
    BY <2>2, <2>6, <2>18 DEF Gains
  <2>23. Staged(next)
    <3>1. \A j \in js : Early(j.entry) \subseteq j.parents
      BY <2>9, <2>17
    <3>2. rest \subseteq run[r].read /\ run[r].left = {}
      BY <1>0, <2>1 DEF Staged, rest
    <3>3. /\ kind # "vault" => Prefix(run[r].read)
          /\ kind # "append" => run[r].orphans = {}
      BY <1>0 DEF Staged
    <3> QED BY <2>7, <3>1, <3>2, <3>3 DEF Staged
  <2>24. ASSUME run'[r] = next PROVE Staged(run[r])' /\ OnCourse(run[r])'
    <3>1. Staged(run[r])'
      BY <1>k, <2>23, <2>24 DEF Staged, Prefix, Early
    <3>2. ASSUME kind = "vault" => alone, NEW e \in run[r].read \ rest
          PROVE  e \in stored' /\ (Settled(e)' \/ e \in run[r].orphans \/ \E j \in js : j.entry = e)
      <4>1. CASE e \notin run[r].todo
        <5>1. e \in stored /\ Minded(run[r], e)
          BY <2>14, <3>2, <4>1
        <5>2. run[r].jobs = {}
          BY <1>0 DEF Staged
        <5> QED BY <2>6, <2>18, <5>1, <5>2 DEF Minded
      <4>2. CASE e \in batch \ stored
        BY <2>6, <2>19, <4>2
      <4>3. CASE e \in batch \cap stored
        <5>1. CASE parents[e] # {}
          BY <1>0, <2>6, <2>18, <4>3, <5>1 DEF Ordered
        <5>2. CASE parents[e] = {} /\ Resolved(e, batch) # {}
          BY <2>6, <2>10, <4>3, <5>2
        <5>3. CASE parents[e] = {} /\ Resolved(e, batch) = {}
          <6>1. Settled(e)
            BY <2>17, <4>3, <5>3 DEF Settled
          <6> QED BY <2>6, <2>18, <4>3, <6>1
        <5> QED BY <5>1, <5>2, <5>3
      <4>4. e \in run[r].todo => e \in batch
        BY <3>2 DEF rest
      <4> QED BY <4>1, <4>2, <4>3, <4>4
    <3>3. Sent(run[r])' \subseteq run[r].read \ rest
      BY <2>7, <2>24 DEF Sent
    <3>4. LabelsAreDue(run[r])' => labelled'
      BY <2>6, <2>7, <2>8, <2>24 DEF LabelsAreDue
    <3>6. ASSUME kind = "vault" => alone, NEW e \in Sent(run[r])'
          PROVE  e \in stored' /\ Minded(run[r], e)'
      BY <2>7, <2>24, <3>2, <3>3, <3>6 DEF Minded
    <3>7. OnCourse(run[r])'
      BY <1>k, <2>6, <2>7, <2>24, <3>4, <3>6 DEF OnCourse
    <3> QED BY <3>1, <3>7
  <2> QED BY <1>0, <1>r, <2>5, <2>7, <2>21, <2>22, <2>24, RunGoesOn DEF Reply
<1> QED BY <1>1, <1>2 DEF AddMemoriesBatch

\* A rewire gives a memory all the parents it was waiting for, and leaves one
\* that has some.
LEMMA RewireKeepsCourse ==
    ASSUME Whereabouts, Course, NEW r \in Runs, UpdateMemoryParents(r)
    PROVE  Course'
<1>0. /\ run[r] \in RunType /\ Staged(run[r]) /\ OnCourse(run[r]) /\ Ready(run[r])
      /\ run[r].step \in {"rewire", "duplicates"} /\ Ordered
      /\ UNCHANGED <<session, source, thread, stored, chosen, labelled, observed>>
      /\ stored \in SUBSET Entries
      /\ lineage \in [Entries -> SUBSET Entries] /\ parents \in [Entries -> SUBSET Entries]
  BY DEF Whereabouts, Inv, Typed, Course, Waiting, UpdateMemoryParents
<1>r. run[r].step \notin Resting /\ run[r].target # None
  BY <1>0 DEF Resting, Ready
<1>k. UNCHANGED <<kind, lineage, alone>>
  BY <1>0 DEF session
<1>1. PICK j \in run[r].jobs :
         IF run[r].target # thread
         THEN Reply(r, Ended(r, "failed")) /\ UNCHANGED parents
         ELSE /\ parents' = IF Rewirable(j)
                            THEN [parents EXCEPT ![j.entry] = j.parents \cap stored]
                            ELSE parents
              /\ Reply(r, [run[r] EXCEPT !.jobs = @ \ {j}])
  BY DEF UpdateMemoryParents
<1>2. j.entry \in Entries /\ j.parents \in SUBSET Entries /\ Early(j.entry) \subseteq j.parents
  BY <1>0 DEF RunType, Jobs, Staged
<1>3. kind # "vault"
  BY <1>0, <1>1 DEF Ready
<1>4. CASE run[r].target # thread
  <2>1. /\ Ended(r, "failed") \in RunType
        /\ Staged(Ended(r, "failed")) /\ OnCourse(Ended(r, "failed"))
    BY <1>0, EndedIsOver DEF Resting
  <2> QED BY <1>0, <1>1, <1>4, <1>r, <2>1, RunReads DEF server, UpdateMemoryParents
<1>5. CASE run[r].target = thread
  <2> DEFINE next == [run[r] EXCEPT !.jobs = @ \ {j}]
  <2>1. /\ next \in RunType /\ next.step = run[r].step /\ next.target = run[r].target
        /\ next.jobs = run[r].jobs \ {j} /\ next.orphans = run[r].orphans
        /\ next.todo = run[r].todo /\ next.left = run[r].left /\ next.read = run[r].read
        /\ next.acted = run[r].acted
    BY <1>0 DEF RunType
  <2>2. Reply(r, next)
    BY <1>1, <1>5
  <2> HIDE DEF next
  <2>3. j.entry \in stored /\ thread # None
    BY <1>0, <1>1, <1>3, <1>5, <1>r DEF Ready
  <2>4. Early(j.entry) \subseteq j.parents \cap stored
    <3>1. Early(j.entry) \subseteq stored
      BY <1>0, <1>2, <1>3, <2>3 DEF Ordered, Prefix, Early
    <3> QED BY <1>2, <3>1
  <2>5. Settled(j.entry)'
    <3>1. CASE parents[j.entry] = {}
      <4>1. parents'[j.entry] = j.parents \cap stored
        BY <1>0, <1>1, <1>2, <1>5, <3>1 DEF Rewirable
      <4> QED BY <1>k, <2>4, <4>1 DEF Settled, Early
    <3>2. CASE parents[j.entry] # {}
      <4>1. Settled(j.entry) /\ UNCHANGED parents
        BY <1>0, <1>1, <1>5, <2>3, <3>2 DEF Rewirable, Ordered
      <4> QED BY <1>0, <1>k, <4>1 DEF Settled, Early
    <3> QED BY <3>1, <3>2
  <2>6. \A e \in Entries \ {j.entry} : parents'[e] = parents[e]
    BY <1>0, <1>1, <1>2, <1>5
  <2>7. \A e \in stored : Settled(e) => Settled(e)'
    BY <1>0, <1>k, <2>5, <2>6 DEF Settled, Early
  <2>8. Ordered'
    <3>1. \A e \in stored : parents'[e] = {} \/ Settled(e)'
      BY <1>0, <2>5, <2>6, <2>7 DEF Ordered
    <3> QED BY <1>0, <1>k, <3>1 DEF Ordered, Prefix
  <2>9. Gains
    BY <1>0, <2>7 DEF Gains
  <2>10. ASSUME run'[r] = next PROVE Staged(run[r])' /\ OnCourse(run[r])'
    <3>1. Staged(next)
      BY <1>0, <1>r, <2>1 DEF Staged
    <3>2. Staged(run[r])'
      BY <1>k, <2>10, <3>1 DEF Staged, Prefix, Early
    <3>3. Sent(run[r])' = Sent(run[r])
      BY <2>1, <2>10 DEF Sent
    <3>4. ASSUME NEW e \in Sent(run[r]) PROVE e \in stored' /\ Minded(run[r], e)'
      <4>1. e \in stored /\ Minded(run[r], e)
        BY <1>0, <1>3, <1>5, <1>r, <2>3 DEF OnCourse
      <4>2. CASE e = j.entry
        BY <1>0, <2>3, <2>5, <4>2 DEF Minded
      <4>3. CASE e # j.entry
        BY <1>0, <2>1, <2>7, <2>10, <4>1, <4>3 DEF Minded
      <4> QED BY <4>2, <4>3
    <3>5. LabelsAreDue(run[r])' => LabelsAreDue(run[r])
      BY <1>k, <2>1, <2>10 DEF LabelsAreDue
    <3>6. OnCourse(run[r])'
      BY <1>0, <1>3, <1>5, <1>k, <1>r, <2>1, <2>3, <2>10, <3>3, <3>4, <3>5 DEF OnCourse
    <3> QED BY <3>2, <3>6
  <2> QED BY <1>0, <1>r, <2>1, <2>2, <2>8, <2>9, <2>10, RunGoesOn DEF Reply
<1> QED BY <1>4, <1>5

\* Observations and labels come last, the duplicates of an append after them.
LEMMA EndingKeepsCourse ==
    ASSUME Whereabouts, Course, NEW r \in Runs, RecordObservations(r) \/ AddLabels(r)
    PROVE  Course'
<1>0. /\ run[r] \in RunType /\ Staged(run[r]) /\ OnCourse(run[r]) /\ Ready(run[r])
      /\ run[r].step \in {"observe", "label"} /\ Ordered
      /\ UNCHANGED <<session, source, thread, stored, parents, chosen>>
  BY DEF Whereabouts, Inv, Typed, Course, Waiting, RecordObservations, AddLabels, At
<1>r. run[r].step \notin Resting /\ run[r].target # None
  BY <1>0 DEF Resting, Ready
<1>k. UNCHANGED <<kind, lineage, alone>>
  BY <1>0 DEF session
<1>f. \A s \in {"done", "failed"} :
        /\ Ended(r, s) \in RunType /\ Ended(r, s).step = s
        /\ Staged(Ended(r, s)) /\ OnCourse(Ended(r, s))
  BY <1>0, EndedIsOver DEF Resting
<1>1. CASE Reply(r, Ended(r, "failed")) /\ UNCHANGED server
  BY <1>0, <1>1, <1>f, <1>r, RunReads
<1>2. ASSUME observed => observed', labelled => labelled',
             NEW next \in RunType, Reply(r, next), Staged(next),
             run'[r] = next => OnCourse(run[r])'
      PROVE  Course'
  <2>1. Ordered'
    BY <1>0, <1>k DEF Ordered, Prefix, Settled, Early
  <2>2. Gains
    BY <1>0, <1>k, <1>2 DEF Gains, Settled, Early
  <2>3. run'[r] = next => Staged(run[r])'
    BY <1>k, <1>2 DEF Staged, Prefix, Early
  <2> QED BY <1>0, <1>r, <1>2, <2>1, <2>2, <2>3, RunGoesOn DEF Reply
<1>3. CASE RecordObservations(r) /\ observed' = TRUE /\ kind # "append"
           /\ Reply(r, Ended(r, "done"))
  <2>1. run'[r] = Ended(r, "done") => OnCourse(run[r])'
    BY <1>f DEF OnCourse, Resting
  <2> QED BY <1>2, <1>3, <1>f, <2>1 DEF RecordObservations
<1>4. ASSUME NEW next \in RunType, Reply(r, next),
             next.target = run[r].target, next.jobs = run[r].jobs,
             next.orphans = run[r].orphans, next.todo = run[r].todo,
             next.left = run[r].left, next.read = run[r].read, next.acted = run[r].acted,
             kind = "append", observed' \in BOOLEAN, labelled' \in BOOLEAN,
             observed', labelled => labelled',
             \/ /\ next.step = "duplicates"
                /\ (run[r].acted /\ run[r].step = "observe") \/ labelled'
             \/ next.step = "label"
      PROVE  Course'
  <2>1. Staged(next)
    BY <1>0, <1>4 DEF Staged
  <2>2. ASSUME run'[r] = next PROVE OnCourse(run[r])'
    <3>1. Sent(run[r])' = Sent(run[r])
      BY <1>4, <2>2 DEF Sent
    <3>2. \A e \in Sent(run[r]) : Minded(run[r], e) => Minded(run[r], e)'
      BY <1>0, <1>k, <1>4, <2>2 DEF Minded, Settled, Early
    <3>3. LabelsAreDue(run[r])' => LabelsAreDue(run[r]) \/ labelled'
      BY <1>k, <1>4, <2>2 DEF LabelsAreDue
    <3> QED BY <1>0, <1>k, <1>4, <1>r, <2>2, <3>1, <3>2, <3>3 DEF OnCourse
  <2> QED BY <1>2, <1>4, <2>1, <2>2
<1> DEFINE a == [run[r] EXCEPT !.step = IF run[r].acted THEN "duplicates" ELSE "label"]
           b == [run[r] EXCEPT !.step = "duplicates"]
<1>5. /\ a \in RunType /\ a.target = run[r].target /\ a.jobs = run[r].jobs
      /\ a.step = (IF run[r].acted THEN "duplicates" ELSE "label")
      /\ a.orphans = run[r].orphans /\ a.todo = run[r].todo /\ a.left = run[r].left
      /\ a.read = run[r].read /\ a.acted = run[r].acted
  BY <1>0 DEF RunType, Steps
<1>6. /\ b \in RunType /\ b.target = run[r].target /\ b.jobs = run[r].jobs
      /\ b.step = "duplicates"
      /\ b.orphans = run[r].orphans /\ b.todo = run[r].todo /\ b.left = run[r].left
      /\ b.read = run[r].read /\ b.acted = run[r].acted
  BY <1>0 DEF RunType, Steps
<1>7. CASE RecordObservations(r) /\ observed' = TRUE /\ kind = "append" /\ Reply(r, a)
  <2> HIDE DEF a, b
  <2>1. run[r].step = "observe" /\ labelled' = labelled
    BY <1>7 DEF RecordObservations, At
  <2>2. labelled' \in BOOLEAN
    BY <2>1 DEF Whereabouts, Bounded
  <2> QED BY <1>4, <1>5, <1>7, <2>1, <2>2
<1>8. CASE AddLabels(r) /\ labelled' = TRUE /\ Reply(r, b) /\ run[r].target = thread
  <2> HIDE DEF a, b
  <2>1. run[r].step = "label" /\ observed' = observed /\ kind = "append"
    BY <1>0, <1>8 DEF AddLabels, At, Staged
  <2>2. thread # None /\ observed
    BY <1>0, <1>8, <1>r, <2>1 DEF OnCourse
  <2>3. observed' \in BOOLEAN
    BY <2>1 DEF Whereabouts, Bounded
  <2> QED BY <1>4, <1>6, <1>8, <2>1, <2>2, <2>3
<1> QED BY <1>0, <1>1, <1>3, <1>7, <1>8 DEF RecordObservations, AddLabels, server

\* A step that leaves every run where it is.
LEMMA AllStay ==
    ASSUME Course, UNCHANGED session, Gains, thread' \in {None, thread}, Ordered',
           \A o \in Runs : Alike(run[o], run'[o])
    PROVE  Course'
<1>1. \A o \in Runs : Staged(run[o])' /\ OnCourse(run[o])'
  BY BystandersStay DEF Course
<1>2. Solitary'
  BY DEF Course, Solitary, Alike, session
<1> QED BY <1>1, <1>2 DEF Course

LEMMA WithoutIsAlike ==
    ASSUME NEW runs \in [Runs -> RunType], NEW es \in SUBSET Entries, NEW o \in Runs
    PROVE  /\ Alike(runs[o], Without(runs, es)[o])
           /\ runs[o].step \in Resting => Without(runs, es)[o] = runs[o]
<1> DEFINE w == [runs[o] EXCEPT !.left = @ \ es, !.dead = @ \cup (runs[o].left \cap es)]
<1>1. runs[o] \in RunType
  OBVIOUS
<1>2. /\ w.step = runs[o].step /\ w.target = runs[o].target /\ w.todo = runs[o].todo
      /\ w.jobs = runs[o].jobs /\ w.orphans = runs[o].orphans /\ w.read = runs[o].read
      /\ w.left = runs[o].left \ es
  BY <1>1 DEF RunType
<1>3. /\ runs[o].step \notin {"filter", "prune"} => Without(runs, es)[o] = runs[o]
      /\ runs[o].step \in {"filter", "prune"} => Without(runs, es)[o] = w
  BY DEF Without
<1> HIDE DEF w
<1> QED BY <1>2, <1>3 DEF Alike, Resting

\* Of a vault that nobody else imports, a prune deletes what the run has not read.
LEMMA PruneKeepsCourse ==
    ASSUME Whereabouts, Course, NEW r \in Runs,
           \/ ListMemories(r) \/ FilterCandidates(r) \/ DeleteMemory(r)
           \/ CountMemories(r) \/ DropThread(r)
    PROVE  Course'
<1>0. /\ run[r] \in RunType /\ Staged(run[r]) /\ OnCourse(run[r]) /\ Ready(run[r])
      /\ run[r].step \in Pruning /\ Ordered
      /\ run \in [Runs -> RunType] /\ thread \in Threads \cup {None}
      /\ stored \in SUBSET Entries
      /\ UNCHANGED <<session, source>>
  BY DEF Whereabouts, Inv, Typed, Course, Waiting, Pruning, At, ListMemories,
         FilterCandidates, DeleteMemory, CountMemories, DropThread
<1>v. kind = "vault"
  BY <1>0 DEF Whereabouts, Inv, RunFits
<1>r. run[r].step \notin Resting
  BY <1>0 DEF Resting, Pruning
<1>k. UNCHANGED <<kind, lineage, alone>>
  BY <1>0 DEF session
<1>f. \A s \in {"done", "failed"} :
        /\ Ended(r, s) \in RunType /\ Ended(r, s).step = s
        /\ Staged(Ended(r, s)) /\ OnCourse(Ended(r, s))
  BY <1>0, EndedIsOver DEF Resting
<1>1. CASE ListMemories(r)
  <2> DEFINE next == [run[r] EXCEPT !.step = "filter", !.left = stored \ run[r].read,
                                    !.target = thread]
  <2>1. /\ next \in RunType /\ next.step = "filter" /\ next.target = thread
        /\ next.left = stored \ run[r].read /\ next.read = run[r].read
        /\ next.todo = run[r].todo /\ next.jobs = run[r].jobs
        /\ next.orphans = run[r].orphans
    BY <1>0 DEF RunType, Steps
  <2>2. /\ Reply(r, next) /\ UNCHANGED <<session, source, server>>
        /\ run[r].step = "list"
    BY <1>1 DEF ListMemories, At
  <2> HIDE DEF next
  <2>3. Staged(next)
    BY <1>0, <1>v, <2>1, <2>2 DEF Staged
  <2>4. OnCourse(next)
    <3> SUFFICES ASSUME alone, thread # None, run[r].read # {}
                 PROVE  /\ \A e \in run[r].read : e \in stored /\ Minded(next, e)
                        /\ labelled
      BY <1>v, <2>1 DEF OnCourse, Sent, LabelsAreDue
    <3>1. run[r].target = thread
      BY <1>0, <1>r, <1>v, <2>2 DEF OnCourse
    <3>2. Sent(run[r]) = run[r].read /\ LabelsAreDue(run[r])
      BY <1>0, <2>2 DEF Sent, Staged, LabelsAreDue
    <3>3. (\A e \in run[r].read : e \in stored /\ Minded(run[r], e)) /\ labelled
      BY <1>0, <1>r, <3>1, <3>2 DEF OnCourse
    <3> QED BY <2>1, <3>3 DEF Minded
  <2> QED BY <1>r, <2>1, <2>2, <2>3, <2>4, RunReads
<1>2. CASE FilterCandidates(r)
  <2> DEFINE left == Stale(r, run[r].left)
             dead == Stale(r, run[r].dead)
             next == [run[r] EXCEPT !.step = "prune", !.left = left, !.dead = dead]
  <2>1. left \in SUBSET Entries /\ dead \in SUBSET Entries /\ left \subseteq run[r].left
    BY <1>0 DEF Stale, RunType
  <2>2. /\ Go(r, Ended(r, "done")) \/ Go(r, next)
        /\ UNCHANGED server /\ run[r].step = "filter"
    BY <1>2 DEF FilterCandidates, At
  <2> HIDE DEF left, dead
  <2>3. /\ next \in RunType /\ next.step = "prune" /\ next.target = run[r].target
        /\ next.left = left /\ next.read = run[r].read
        /\ next.todo = run[r].todo /\ next.jobs = run[r].jobs
        /\ next.orphans = run[r].orphans
    BY <1>0, <2>1 DEF RunType, Steps
  <2> HIDE DEF next
  <2>4. Staged(next)
    BY <1>0, <1>v, <2>1, <2>2, <2>3 DEF Staged
  <2>5. OnCourse(next)
    <3>1. Sent(next) \subseteq run[r].read /\ Sent(run[r]) = run[r].read
      BY <1>0, <2>2, <2>3 DEF Sent, Staged
    <3>2. LabelsAreDue(next) => LabelsAreDue(run[r])
      BY <2>2, <2>3 DEF LabelsAreDue
    <3>3. \A e \in Entries : Minded(run[r], e) => Minded(next, e)
      BY <2>3 DEF Minded
    <3> QED BY <1>0, <1>r, <2>3, <3>1, <3>2, <3>3 DEF OnCourse, RunType
  <2> QED BY <1>0, <1>f, <1>r, <2>2, <2>3, <2>4, <2>5, RunReads
<1>3. CASE DeleteMemory(r)
  <2>1. PICK e \in run[r].left \cup run[r].dead, fails \in BOOLEAN, effect \in BOOLEAN :
         LET own == run[r].left \cap {e}
             next == [run[r] EXCEPT !.left = @ \ {e}, !.dead = @ \ {e},
                                    !.acted = @ \/ ~fails, !.error = @ \/ fails]
         IN IF effect
            THEN /\ stored' = stored \ own
                 /\ run' = Without([run EXCEPT ![r] = next], own)
            ELSE run' = [run EXCEPT ![r] = next] /\ UNCHANGED stored
    BY <1>3 DEF DeleteMemory
  <2> DEFINE own == run[r].left \cap {e}
             next == [run[r] EXCEPT !.left = @ \ {e}, !.dead = @ \ {e},
                                    !.acted = @ \/ ~fails, !.error = @ \/ fails]
             runs == [run EXCEPT ![r] = next]
  <2>2. own \in SUBSET Entries /\ own \subseteq run[r].left
    BY <1>0 DEF RunType
  <2>3. /\ next \in RunType /\ next.step = "prune" /\ next.target = run[r].target
        /\ next.left \subseteq run[r].left /\ next.read = run[r].read
        /\ next.todo = run[r].todo /\ next.jobs = run[r].jobs
        /\ next.orphans = run[r].orphans /\ run[r].step = "prune"
    BY <1>0, <1>3 DEF RunType, DeleteMemory, At
  <2>4. UNCHANGED <<thread, parents, chosen, labelled, observed>>
    BY <1>3 DEF DeleteMemory
  <2>5. /\ run' = Without(runs, own) \/ run' = runs
        /\ UNCHANGED stored \/ stored' = stored \ own
    BY <2>1
  <2> HIDE DEF own, next
  <2>6. runs \in [Runs -> RunType] /\ runs[r] = next
        /\ \A o \in Runs \ {r} : runs[o] = run[o]
    BY <1>0, <2>3
  <2> HIDE DEF runs
  <2>7. \A o \in Runs : Alike(runs[o], run'[o])
    <3>1. run' = runs => \A o \in Runs : Alike(runs[o], run'[o])
      BY DEF Alike
    <3> QED BY <2>2, <2>5, <2>6, <3>1, WithoutIsAlike
  <2>8. Alike(run[r], run'[r])
    BY <2>3, <2>6, <2>7 DEF Alike
  <2>9. \A o \in Runs : Alike(run[o], run'[o])
    BY <2>6, <2>7, <2>8
  <2>10. \A o \in Runs : Staged(run[o])'
    BY <1>k, <2>9 DEF Course, Staged, Alike, Prefix, Early
  <2>11. Solitary'
    BY <1>k, <2>9 DEF Course, Solitary, Alike
  <2>12. Ordered'
    BY <1>0, <1>k, <1>v, <2>4, <2>5 DEF Ordered, Settled, Early
  <2>13. ASSUME NEW o \in Runs PROVE OnCourse(run[o])'
    <3>1. CASE ~alone \/ run[o].step \in Resting
      BY <1>k, <1>v, <2>9, <3>1 DEF OnCourse, Alike
    <3>2. CASE alone /\ run[o].step \notin Resting
      <4>1. o = r
        BY <1>r, <3>2 DEF Course, Solitary
      <4>2. Sent(run[r])' = run[r].read /\ Sent(run[r]) = run[r].read
        BY <1>0, <2>3, <2>8 DEF Sent, Staged, Alike
      <4>3. \A d \in run[r].read : d \in stored => d \in stored'
        BY <1>0, <2>2, <2>3, <2>5 DEF Staged
      <4>4. \A d \in run[r].read : Minded(run[r], d) => Minded(run[r], d)'
        BY <1>k, <2>4, <2>8 DEF Minded, Settled, Early, Alike
      <4>5. LabelsAreDue(run[r])' => LabelsAreDue(run[r])
        BY <2>3, <2>8 DEF LabelsAreDue, Alike
      <4>6. run'[r].step = "prune" /\ run'[r].target = run[r].target
        BY <2>3, <2>8 DEF Alike
      <4> QED BY <1>0, <1>k, <1>r, <2>4, <3>2, <4>1, <4>2, <4>3, <4>4, <4>5, <4>6 DEF OnCourse
    <3> QED BY <3>1, <3>2
  <2> QED BY <2>10, <2>11, <2>12, <2>13 DEF Course
<1>4. CASE CountMemories(r)
  <2> DEFINE next == [run[r] EXCEPT !.step = "drop"]
  <2>1. /\ next \in RunType /\ next.step = "drop" /\ next.target = run[r].target
        /\ next.left = run[r].left /\ next.read = run[r].read
        /\ next.todo = run[r].todo /\ next.jobs = run[r].jobs
        /\ next.orphans = run[r].orphans
    BY <1>0 DEF RunType, Steps
  <2>2. /\ Go(r, next) \/ Go(r, Ended(r, "failed")) \/ Go(r, Ended(r, "done"))
        /\ UNCHANGED server /\ run[r].step = "prune"
    BY <1>4 DEF CountMemories, At
  <2> HIDE DEF next
  <2>3. Staged(next)
    BY <1>0, <1>v, <2>1 DEF Staged
  <2>4. OnCourse(next)
    <3>1. Sent(next) = Sent(run[r]) /\ \A e \in Sent(run[r]) : Minded(run[r], e) => Minded(next, e)
      BY <2>1 DEF Sent, Minded
    <3>2. ~LabelsAreDue(next)
      BY <2>1 DEF LabelsAreDue
    <3> QED BY <1>0, <1>r, <2>1, <3>1, <3>2 DEF OnCourse
  <2> QED BY <1>0, <1>f, <1>r, <2>1, <2>2, <2>3, <2>4, RunReads
<1>5. CASE DropThread(r)
  <2> DEFINE last == Ended(r, IF run[r].error THEN "failed" ELSE "done")
             runs == [run EXCEPT ![r] = last]
  <2>1. last \in RunType /\ Staged(last) /\ OnCourse(last) /\ last.step \in Resting
    BY <1>f DEF Resting
  <2>2. \/ DeleteThread /\ run' = Without(runs, stored)
        \/ UNCHANGED server /\ run' = runs
    BY <1>5 DEF DropThread, server
  <2> HIDE DEF last
  <2>3. CASE UNCHANGED server /\ run' = runs
    BY <1>0, <1>r, <2>1, <2>3, RunReads
  <2>4. CASE DeleteThread /\ run' = Without(runs, stored)
    <3>1. runs \in [Runs -> RunType] /\ runs[r] = last
          /\ \A o \in Runs \ {r} : runs[o] = run[o]
      BY <1>0, <2>1
    <3> HIDE DEF runs
    <3>2. run'[r] = last /\ \A o \in Runs \ {r} : Alike(run[o], run'[o])
      BY <1>0, <2>1, <2>4, <3>1, WithoutIsAlike
    <3>3. thread' = None /\ Gains
      BY <2>4 DEF DeleteThread, Gains
    <3>4. \A o \in Runs \ {r} : Staged(run[o])' /\ OnCourse(run[o])'
      BY <1>0, <3>2, <3>3, BystandersStay DEF Course
    <3>5. Staged(run[r])' /\ OnCourse(run[r])'
      BY <1>k, <2>1, <3>2 DEF Staged, OnCourse, Prefix, Early
    <3>6. Ordered'
      BY <1>k, <1>v, <2>4 DEF Ordered, DeleteThread
    <3>7. Solitary'
      <4>1. \A o \in Runs : run'[o].step \notin Resting => run[o].step \notin Resting
        BY <2>1, <3>2 DEF Alike
      <4> QED BY <1>k, <4>1, Zenon DEF Course, Solitary
    <3> QED BY <3>4, <3>5, <3>6, <3>7 DEF Course
  <2> QED BY <2>2, <2>3, <2>4
<1> QED BY <1>1, <1>2, <1>3, <1>4, <1>5

\* The source, the operator and the faults.
LEMMA OthersKeepCourse ==
    ASSUME Whereabouts, Course,
           \/ SourceChanges
           \/ \E forbid \in BOOLEAN : OperatorDeletes(forbid)
           \/ \E e \in Entries, ps \in SUBSET Entries : OperatorSetsParents(e, ps)
           \/ \E r \in Runs : Breaks(r) \/ OperatorDeclines(r)
    PROVE  Course'
<1>0. /\ run \in [Runs -> RunType] /\ Ordered /\ source \in SUBSET Entries
      /\ stored \in SUBSET Entries /\ chosen \in [Entries -> SUBSET Entries]
      /\ parents \in [Entries -> SUBSET Entries]
  BY DEF Whereabouts, Inv, Typed, Course
<1>1. CASE SourceChanges
  <2>1. UNCHANGED <<session, server, run>>
    BY <1>1 DEF SourceChanges
  <2>2. kind # "vault" => Prefix(source')
    <3> SUFFICES ASSUME kind # "vault" PROVE Prefix(source')
      OBVIOUS
    <3>1. PICK e \in Entries \ source :
            (\A d \in Entries \ source : e <= d) /\ source' = source \cup {e}
      BY <1>1 DEF SourceChanges
    <3>2. \A d \in Entries : d < e => d \in source
      BY <3>1, SizesAssumption DEF Entries
    <3> QED BY <1>0, <3>1, <3>2 DEF Prefix, Ordered
  <2>3. Ordered'
    BY <1>0, <2>1, <2>2 DEF Ordered, Prefix, Settled, Early, session, server
  <2>4. Gains /\ thread' \in {None, thread}
    BY <2>1 DEF Gains, Settled, Early, session, server
  <2>5. \A o \in Runs : Alike(run[o], run'[o])
    BY <2>1 DEF Alike
  <2> QED BY <2>1, <2>3, <2>4, <2>5, AllStay
<1>2. ASSUME NEW forbid \in BOOLEAN, OperatorDeletes(forbid)
      PROVE  Course'
  <2>1. DeleteThread /\ UNCHANGED <<session, source>> /\ run' = Without(run, stored)
    BY <1>2 DEF OperatorDeletes
  <2>2. Ordered'
    BY <1>0, <2>1 DEF Ordered, DeleteThread, Prefix, session
  <2>3. Gains /\ thread' \in {None, thread}
    BY <2>1 DEF Gains, DeleteThread
  <2>4. \A o \in Runs : Alike(run[o], run'[o])
    BY <1>0, <2>1, WithoutIsAlike
  <2> QED BY <2>1, <2>2, <2>3, <2>4, AllStay
<1>3. ASSUME NEW e \in Entries, NEW ps \in SUBSET Entries, OperatorSetsParents(e, ps)
      PROVE  Course'
  <2>1. /\ UNCHANGED <<session, source, thread, stored, labelled, observed, run>>
        /\ ps # {}
        /\ parents' = [parents EXCEPT ![e] = ps] /\ chosen' = [chosen EXCEPT ![e] = ps]
    BY <1>3 DEF OperatorSetsParents
  <2>2. UNCHANGED <<kind, lineage, alone>>
    BY <2>1 DEF session
  <2>3. Settled(e)' /\ \A d \in Entries \ {e} : parents'[d] = parents[d] /\ chosen'[d] = chosen[d]
    BY <1>0, <2>1 DEF Settled
  <2>4. \A d \in stored : Settled(d) => Settled(d)'
    BY <1>0, <2>2, <2>3 DEF Settled, Early
  <2>5. Ordered'
    <3>1. \A d \in stored : parents'[d] = {} \/ Settled(d)'
      BY <1>0, <2>3, <2>4 DEF Ordered
    <3> QED BY <1>0, <2>1, <2>2, <3>1 DEF Ordered, Prefix
  <2>6. Gains /\ thread' \in {None, thread}
    BY <2>1, <2>4 DEF Gains
  <2>7. \A o \in Runs : Alike(run[o], run'[o])
    BY <2>1 DEF Alike
  <2> QED BY <2>1, <2>5, <2>6, <2>7, AllStay
<1>4. ASSUME NEW r \in Runs, Breaks(r) \/ OperatorDeclines(r)
      PROVE  Course'
  <2>1. \A s \in {"done", "failed"} :
          Ended(r, s) \in RunType /\ Staged(Ended(r, s)) /\ OnCourse(Ended(r, s))
    BY EndedIsOver DEF Resting, Course
  <2>2. /\ run' = [run EXCEPT ![r] = Ended(r, "failed")] \/ run' = [run EXCEPT ![r] = Ended(r, "done")]
        /\ UNCHANGED <<session, source, server>> /\ run[r].step \notin Resting
    BY <1>4 DEF Breaks, OperatorDeclines, At, Resting
  <2> QED BY <2>1, <2>2, RunReads
<1> QED BY <1>1, <1>2, <1>3, <1>4

LEMMA CourseIsInductive == Whereabouts /\ Course /\ [Next]_vars => Course'
<1>1. ASSUME Whereabouts, Course, NEW r \in Runs, Step(r) PROVE Course'
  BY <1>1, StartKeepsCourse, LookupKeepsCourse, BatchKeepsCourse, RewireKeepsCourse,
     RewiredKeepsCourse, EndingKeepsCourse, PruneKeepsCourse DEF Step
<1>2. ASSUME Whereabouts, Course, UNCHANGED vars PROVE Course'
  <2>1. Ordered'
    BY <1>2 DEF vars, Course, Ordered, Prefix, Settled, Early
  <2>2. Gains /\ thread' \in {None, thread} /\ UNCHANGED session
    BY <1>2 DEF vars, Gains, Settled, Early, session
  <2>3. \A o \in Runs : Alike(run[o], run'[o])
    BY <1>2 DEF vars, Alike
  <2> QED BY <1>2, <2>1, <2>2, <2>3, AllStay
<1> QED BY <1>1, <1>2, OthersKeepCourse DEF Next

-----------------------------------------------------------------------------
(* The end of a run.                                                         *)

\* A run on its course that has dealt with all entries and owes nothing.
LEMMA AllIsWhole ==
    ASSUME Whereabouts, Course, NEW r \in Runs, run[r].step \notin Resting,
           kind = "vault" => alone,
           thread # None, run[r].target = thread,
           Sent(run[r]) = run[r].read, run[r].jobs = {}, run[r].orphans = {},
           LabelsAreDue(run[r]) \/ run[r].read = {},
           kind # "vault" => observed',
           run'[r].read = run[r].read,
           UNCHANGED <<kind, lineage, stored, parents, chosen, labelled>>
    PROVE  Whole(r)'
<1>1. \A e \in run[r].read : e \in stored /\ Settled(e)
  BY DEF Course, OnCourse, Minded
<1>2. run[r].read # {} => labelled
  BY DEF Course, OnCourse
<1>3. \A e \in run[r].read : chosen[e] = {} => {p \in lineage[e] : p < e} \subseteq parents[e]
  BY <1>1 DEF Settled, Early
<1> QED BY <1>1, <1>2, <1>3 DEF Whole

\* Steps after which a run has not succeeded.
LEMMA NotDoneYet ==
    ASSUME Whereabouts, Course, NEW r \in Runs, run[r].step # "done",
           \/ Start(r) \/ FindThread(r) \/ LookupMemory(r) \/ LookedUp(r)
           \/ AddMemoriesBatch(r) \/ UpdateMemoryParents(r) \/ Rewired(r)
           \/ AddLabels(r) \/ LookupParents(r) \/ ListMemories(r) \/ DeleteMemory(r)
           \/ Breaks(r)
    PROVE  run'[r].step # "done"
<1>0. run \in [Runs -> RunType] /\ run[r] \in RunType
  BY DEF Whereabouts, Inv, Typed
<1>f. \A s \in {"skipped", "failed"} : Ended(r, s).step = s
  BY EndedIsOver DEF Course, Resting
<1>g. ASSUME NEW next, next.step # "done", Reply(r, next) \/ Go(r, next)
      PROVE  run'[r].step # "done"
  BY <1>0, <1>g DEF Reply, Go
<1>1. CASE Start(r)
  <2>1. PICK snapshot : Go(r, [Idle EXCEPT
                !.step = IF kind = "append" THEN "thread"
                         ELSE IF source = {} THEN "list" ELSE "send",
                !.read = source, !.target = snapshot,
                !.left = IF kind = "append" THEN source ELSE {},
                !.todo = IF kind = "append" THEN {} ELSE source])
    BY <1>1 DEF Start
  <2> DEFINE next == [Idle EXCEPT
                !.step = IF kind = "append" THEN "thread"
                         ELSE IF source = {} THEN "list" ELSE "send",
                !.read = source, !.target = snapshot,
                !.left = IF kind = "append" THEN source ELSE {},
                !.todo = IF kind = "append" THEN {} ELSE source]
  <2>2. next.step \in {"thread", "list", "send"}
    BY DEF Idle
  <2>3. Go(r, next)
    BY <2>1
  <2> HIDE DEF next
  <2> QED BY <1>g, <2>2, <2>3
<1>2. CASE FindThread(r)
  <2> DEFINE a == [run[r] EXCEPT !.step = "lookup"]
             b == [run[r] EXCEPT !.step = "lookup", !.target = thread]
  <2>1. a.step = "lookup" /\ b.step = "lookup"
    BY <1>0 DEF RunType
  <2>2. Go(r, a) \/ Reply(r, b)
    BY <1>2 DEF FindThread
  <2> HIDE DEF a, b
  <2> QED BY <1>g, <2>1, <2>2
<1>3. CASE LookupMemory(r)
  <2>1. PICK e \in run[r].left :
         LET rest == [run[r] EXCEPT !.left = @ \ {e}] IN
            Reply(r,
              IF e \notin stored THEN [rest EXCEPT !.todo = @ \cup {e}]
              ELSE IF run[r].target # thread THEN Ended(r, "failed")
              ELSE IF parents[e] = {} THEN [rest EXCEPT !.orphans = @ \cup {e}]
              ELSE rest)
    BY <1>3 DEF LookupMemory
  <2> DEFINE rest == [run[r] EXCEPT !.left = @ \ {e}]
             a == [rest EXCEPT !.todo = @ \cup {e}]
             b == [rest EXCEPT !.orphans = @ \cup {e}]
  <2>2. rest \in RunType /\ rest.step = run[r].step
    BY <1>0 DEF RunType
  <2>3. Reply(r, a) \/ Reply(r, Ended(r, "failed")) \/ Reply(r, b) \/ Reply(r, rest)
    BY <2>1
  <2> HIDE DEF rest
  <2>4. a.step = rest.step /\ b.step = rest.step
    BY <2>2 DEF RunType
  <2> HIDE DEF a, b
  <2> QED BY <1>f, <1>g, <2>2, <2>3, <2>4
<1>4. CASE LookedUp(r)
  <2> DEFINE next == [run[r] EXCEPT !.step = IF run[r].todo = {} THEN "observe" ELSE "send"]
  <2>1. next.step \in {"observe", "send"} /\ Go(r, next)
    BY <1>0, <1>4 DEF RunType, LookedUp
  <2> HIDE DEF next
  <2> QED BY <1>g, <2>1
<1>5. CASE AddMemoriesBatch(r)
  <2>1. CASE Reply(r, Ended(r, "skipped")) \/ Reply(r, Ended(r, "failed"))
    BY <1>f, <1>g, <2>1
  <2>2. ASSUME NEW t \in Targets, Write(r, t) PROVE run'[r].step # "done"
    <3> DEFINE next == [run[r] EXCEPT !.step = "rewire", !.target = t, !.acted = TRUE,
                                 !.todo = @ \ Chunk(r), !.jobs = Outcomes(Chunk(r))]
    <3>1. next.step = "rewire" /\ Reply(r, next)
      BY <1>0, <2>2 DEF RunType, Write
    <3> HIDE DEF next
    <3> QED BY <1>g, <3>1
  <2> QED BY <1>5, <2>1, <2>2 DEF AddMemoriesBatch
<1>6. CASE UpdateMemoryParents(r)
  <2>1. PICK j \in run[r].jobs :
          Reply(r, Ended(r, "failed")) \/ Reply(r, [run[r] EXCEPT !.jobs = @ \ {j}])
    BY <1>6 DEF UpdateMemoryParents
  <2> DEFINE next == [run[r] EXCEPT !.jobs = @ \ {j}]
  <2>2. next.step = run[r].step
    BY <1>0 DEF RunType
  <2>3. Reply(r, Ended(r, "failed")) \/ Reply(r, next)
    BY <2>1
  <2> HIDE DEF next
  <2> QED BY <1>f, <1>g, <2>2, <2>3
<1>7. CASE Rewired(r)
  <2> DEFINE next == [run[r] EXCEPT !.step = IF run[r].todo # {} THEN "send"
                                     ELSE IF kind = "vault" THEN "list" ELSE "observe"]
  <2>1. next.step \in {"send", "list", "observe"} /\ Go(r, next)
    BY <1>0, <1>7 DEF RunType, Rewired
  <2> HIDE DEF next
  <2> QED BY <1>g, <2>1
<1>8. CASE AddLabels(r)
  <2> DEFINE next == [run[r] EXCEPT !.step = "duplicates"]
  <2>1. next.step = "duplicates" /\ (Reply(r, next) \/ Reply(r, Ended(r, "failed")))
    BY <1>0, <1>8 DEF RunType, AddLabels
  <2> HIDE DEF next
  <2> QED BY <1>f, <1>g, <2>1
<1>9. CASE LookupParents(r)
  <2>1. PICK e, js :
          Reply(r, [run[r] EXCEPT !.orphans = @ \ {e}, !.jobs = js])
    BY <1>9 DEF LookupParents
  <2> DEFINE next == [run[r] EXCEPT !.orphans = @ \ {e}, !.jobs = js]
  <2>2. next.step = run[r].step /\ Reply(r, next)
    BY <1>0, <2>1 DEF RunType
  <2> HIDE DEF next
  <2> QED BY <1>g, <2>2
<1>10. CASE ListMemories(r)
  <2> DEFINE next == [run[r] EXCEPT !.step = "filter", !.left = stored \ run[r].read,
                                    !.target = thread]
  <2>1. next.step = "filter" /\ Reply(r, next)
    BY <1>0, <1>10 DEF RunType, ListMemories
  <2> HIDE DEF next
  <2> QED BY <1>g, <2>1
<1>11. CASE DeleteMemory(r)
  <2>1. PICK e \in run[r].left \cup run[r].dead, fails \in BOOLEAN :
         LET own == run[r].left \cap {e}
             next == [run[r] EXCEPT !.left = @ \ {e}, !.dead = @ \ {e},
                                    !.acted = @ \/ ~fails, !.error = @ \/ fails]
         IN \/ run' = Without([run EXCEPT ![r] = next], own)
            \/ run' = [run EXCEPT ![r] = next]
    BY <1>11 DEF DeleteMemory
  <2> DEFINE own == run[r].left \cap {e}
             next == [run[r] EXCEPT !.left = @ \ {e}, !.dead = @ \ {e},
                                    !.acted = @ \/ ~fails, !.error = @ \/ fails]
             runs == [run EXCEPT ![r] = next]
  <2>2. next \in RunType /\ next.step = run[r].step /\ own \in SUBSET Entries
    BY <1>0 DEF RunType
  <2>3. run' = Without(runs, own) \/ run' = runs
    BY <2>1
  <2> HIDE DEF own, next
  <2>4. runs \in [Runs -> RunType] /\ runs[r] = next
    BY <1>0, <2>2
  <2> HIDE DEF runs
  <2> QED BY <2>2, <2>3, <2>4, WithoutIsAlike DEF Alike
<1>12. CASE Breaks(r)
  BY <1>0, <1>12, <1>f DEF Breaks
<1> QED BY <1>1, <1>2, <1>3, <1>4, <1>5, <1>6, <1>7, <1>8, <1>9, <1>10, <1>11, <1>12

\* A step of one run leaves the others where they are.
LEMMA OthersRest ==
    ASSUME Whereabouts, NEW r \in Runs, NEW o \in Runs \ {r},
           Step(r) \/ Breaks(r) \/ OperatorDeclines(r)
    PROVE  run'[o].step = run[o].step
<1>0. run \in [Runs -> RunType] /\ run[r] \in RunType /\ stored \in SUBSET Entries
  BY DEF Whereabouts, Inv, Typed
<1>1. ASSUME NEW next, Reply(r, next) \/ Go(r, next) \/ run' = [run EXCEPT ![r] = next]
      PROVE  run'[o] = run[o]
  BY <1>0, <1>1 DEF Reply, Go
<1>2. CASE DropThread(r)
  <2>1. PICK last \in RunType : \/ run' = Without([run EXCEPT ![r] = last], stored)
                                \/ run' = [run EXCEPT ![r] = last]
    <3> DEFINE last == Ended(r, IF run[r].error THEN "failed" ELSE "done")
    <3>1. last \in RunType
      BY EndedTyped DEF Whereabouts, Inv, Steps, Resting
    <3>2. \/ run' = Without([run EXCEPT ![r] = last], stored)
          \/ run' = [run EXCEPT ![r] = last]
      BY <1>2 DEF DropThread
    <3> HIDE DEF last
    <3> QED BY <3>1, <3>2
  <2> DEFINE runs == [run EXCEPT ![r] = last]
  <2>2. runs \in [Runs -> RunType] /\ runs[o] = run[o]
    BY <1>0
  <2>3. run' = Without(runs, stored) \/ run' = runs
    BY <2>1
  <2> HIDE DEF runs
  <2> QED BY <1>0, <2>2, <2>3, WithoutIsAlike DEF Alike
<1>3. CASE DeleteMemory(r)
  <2>1. PICK e \in run[r].left \cup run[r].dead, fails \in BOOLEAN :
         LET own == run[r].left \cap {e}
             next == [run[r] EXCEPT !.left = @ \ {e}, !.dead = @ \ {e},
                                    !.acted = @ \/ ~fails, !.error = @ \/ fails]
         IN \/ run' = Without([run EXCEPT ![r] = next], own)
            \/ run' = [run EXCEPT ![r] = next]
    BY <1>3 DEF DeleteMemory
  <2> DEFINE own == run[r].left \cap {e}
             next == [run[r] EXCEPT !.left = @ \ {e}, !.dead = @ \ {e},
                                    !.acted = @ \/ ~fails, !.error = @ \/ fails]
             runs == [run EXCEPT ![r] = next]
  <2>2. next \in RunType /\ own \in SUBSET Entries
    BY <1>0 DEF RunType
  <2>3. run' = Without(runs, own) \/ run' = runs
    BY <2>1
  <2> HIDE DEF own, next
  <2>4. runs \in [Runs -> RunType] /\ runs[o] = run[o]
    BY <1>0, <2>2
  <2> HIDE DEF runs
  <2> QED BY <2>2, <2>3, <2>4, WithoutIsAlike DEF Alike
<1>4. ASSUME Step(r) \/ Breaks(r) \/ OperatorDeclines(r), ~DropThread(r), ~DeleteMemory(r)
      PROVE  \E next : Reply(r, next) \/ Go(r, next) \/ run' = [run EXCEPT ![r] = next]
  <2>1. CASE Start(r) \/ FindThread(r) \/ LookupMemory(r) \/ LookedUp(r)
    BY <2>1, Zenon DEF Start, FindThread, LookupMemory, LookedUp
  <2>2. CASE AddMemoriesBatch(r)
    BY <2>2, Zenon DEF AddMemoriesBatch, Write
  <2>3. CASE UpdateMemoryParents(r) \/ Rewired(r) \/ RecordObservations(r) \/ AddLabels(r)
    BY <2>3, Zenon DEF UpdateMemoryParents, Rewired, RecordObservations, AddLabels
  <2>4. CASE LookupParents(r) \/ RewiredDuplicates(r) \/ ListMemories(r) \/ FilterCandidates(r)
    BY <2>4, Zenon DEF LookupParents, RewiredDuplicates, ListMemories, FilterCandidates
  <2>5. CASE CountMemories(r) \/ Breaks(r) \/ OperatorDeclines(r)
    BY <2>5, Zenon DEF CountMemories, Breaks, OperatorDeclines
  <2> QED BY <1>4, <2>1, <2>2, <2>3, <2>4, <2>5 DEF Step
<1> QED BY <1>1, <1>2, <1>3, <1>4

\* What the last step of a run that succeeds leaves behind.
LEMMA DoneIsWhole ==
    ASSUME Whereabouts, Course, [Next]_vars, NEW r \in Runs,
           run[r].step # "done", run'[r].step = "done",
           thread' # None, thread' = run'[r].target, kind = "vault" => alone
    PROVE  Whole(r)'
<1>0. /\ run[r] \in RunType /\ Staged(run[r]) /\ Ready(run[r]) /\ RunFits(r)
      /\ run \in [Runs -> RunType] /\ stored \in SUBSET Entries
  BY DEF Whereabouts, Inv, Typed, Course, Waiting
<1>e. /\ Ended(r, "done").read = run[r].read /\ Ended(r, "done").target = run[r].target
      /\ Ended(r, "done").step = "done" /\ Ended(r, "done") \in RunType
  BY <1>0, EndedIsOver DEF Resting
<1>d. ASSUME Reply(r, Ended(r, "done")) \/ Go(r, Ended(r, "done"))
               \/ run' = [run EXCEPT ![r] = Ended(r, "done")]
      PROVE  run'[r].read = run[r].read /\ run'[r].target = run[r].target
  BY <1>0, <1>d, <1>e DEF Reply, Go
<1>1. CASE RecordObservations(r)
  <2>1. run[r].step = "observe" /\ UNCHANGED <<kind, lineage, thread, stored, parents, chosen, labelled>>
    BY <1>1 DEF RecordObservations, At, session
  <2>2. observed' = TRUE /\ Reply(r, Ended(r, "done")) /\ kind # "append"
    <3> DEFINE a == [run[r] EXCEPT !.step = IF run[r].acted THEN "duplicates" ELSE "label"]
    <3>1. a.step \in {"duplicates", "label"}
      BY <1>0 DEF RunType
    <3>2. \/ observed' = TRUE /\ Reply(r, Ended(r, "done")) /\ kind # "append"
          \/ Reply(r, a) \/ Reply(r, Ended(r, "failed"))
      BY <1>1 DEF RecordObservations
    <3> HIDE DEF a
    <3>3. Ended(r, "failed").step = "failed"
      BY <1>0, EndedIsOver DEF Resting
    <3> QED BY <1>0, <2>1, <3>1, <3>2, <3>3 DEF Reply
  <2>3. run'[r].read = run[r].read /\ run'[r].target = run[r].target
    BY <1>d, <2>2
  <2>4. Sent(run[r]) = run[r].read /\ run[r].jobs = {} /\ run[r].orphans = {}
        /\ LabelsAreDue(run[r])
    BY <1>0, <2>1, <2>2 DEF Sent, Staged, LabelsAreDue
  <2> QED BY <2>1, <2>2, <2>3, <2>4, AllIsWhole DEF Resting
<1>2. CASE RewiredDuplicates(r)
  <2>1. /\ run[r].step = "duplicates" /\ UNCHANGED <<session, server>>
        /\ run[r].jobs = {} /\ run[r].orphans = {}
        /\ run'[r].read = run[r].read /\ run'[r].target = run[r].target
    BY <1>2, <1>d DEF RewiredDuplicates, At
  <2>2. Sent(run[r]) = run[r].read /\ LabelsAreDue(run[r])
    BY <1>0, <2>1 DEF Sent, Staged, LabelsAreDue
  <2>3. thread # None /\ run[r].target = thread
    BY <2>1 DEF server
  <2>4. observed'
    BY <2>1, <2>3 DEF Course, OnCourse, Resting, server
  <2> QED BY <2>1, <2>2, <2>3, <2>4, AllIsWhole DEF Resting, session, server
<1>3. CASE FilterCandidates(r) \/ CountMemories(r) \/ OperatorDeclines(r)
  <2>1. /\ run[r].step \in {"filter", "prune"} /\ UNCHANGED <<session, server>>
        /\ run'[r].read = run[r].read /\ run'[r].target = run[r].target
    <3> DEFINE a == [run[r] EXCEPT !.step = "prune", !.left = Stale(r, run[r].left),
                                   !.dead = Stale(r, run[r].dead)]
               b == [run[r] EXCEPT !.step = "drop"]
    <3>1. a.step = "prune" /\ b.step = "drop"
      BY <1>0 DEF RunType
    <3>2. \/ Go(r, a) \/ Go(r, b) \/ Go(r, Ended(r, "failed"))
          \/ Go(r, Ended(r, "done")) \/ run' = [run EXCEPT ![r] = Ended(r, "done")]
      BY <1>3 DEF FilterCandidates, CountMemories, OperatorDeclines
    <3> HIDE DEF a, b
    <3>3. Ended(r, "failed").step = "failed"
      BY <1>0, EndedIsOver DEF Resting
    <3>4. Go(r, Ended(r, "done")) \/ run' = [run EXCEPT ![r] = Ended(r, "done")]
      BY <1>0, <3>1, <3>2, <3>3 DEF Go
    <3>5. run[r].step \in {"filter", "prune"} /\ UNCHANGED <<session, server>>
      BY <1>3 DEF FilterCandidates, CountMemories, OperatorDeclines, At
    <3> QED BY <1>d, <3>4, <3>5
  <2>2. kind = "vault"
    BY <1>0, <2>1 DEF RunFits, Pruning
  <2>3. /\ Sent(run[r]) = run[r].read /\ (LabelsAreDue(run[r]) \/ run[r].read = {})
        /\ run[r].jobs = {} /\ run[r].orphans = {}
    BY <1>0, <2>1, <2>2 DEF Sent, Staged, LabelsAreDue, Ready
  <2> QED BY <2>1, <2>2, <2>3, AllIsWhole DEF Resting, session, server
<1>4. CASE DropThread(r)
  <2> DEFINE last == Ended(r, IF run[r].error THEN "failed" ELSE "done")
  <2>1. last.target = run[r].target
    BY <1>0, EndedIsOver DEF Resting
  <2>2. \/ DeleteThread
        \/ run[r].target # thread /\ UNCHANGED thread /\ run' = [run EXCEPT ![r] = last]
    BY <1>4 DEF DropThread
  <2> HIDE DEF last
  <2>3. ~DeleteThread
    BY DEF DeleteThread
  <2> QED BY <1>0, <2>1, <2>2, <2>3
<1>5. ASSUME NEW o \in Runs, Step(o) \/ Breaks(o) \/ OperatorDeclines(o)
      PROVE  o = r
  BY <1>5, OthersRest
<1>6. CASE \E o \in Runs : Step(o) \/ Breaks(o) \/ OperatorDeclines(o)
  <2>1. Step(r) \/ Breaks(r) \/ OperatorDeclines(r)
    BY <1>5, <1>6
  <2> QED BY <1>1, <1>2, <1>3, <1>4, <2>1, NotDoneYet DEF Step
<1>7. CASE \/ SourceChanges
           \/ \E e \in Entries, ps \in SUBSET Entries : OperatorSetsParents(e, ps)
           \/ UNCHANGED vars
  BY <1>7 DEF SourceChanges, OperatorSetsParents, vars
<1>8. ASSUME NEW forbid \in BOOLEAN PROVE ~OperatorDeletes(forbid)
  BY DEF OperatorDeletes, DeleteThread
<1> QED BY <1>6, <1>7, <1>8 DEF Next

\* A run that ends without an error has left the whole session in the thread it
\* has written to, if that is still there: with its labels, observations and
\* references to earlier entries, whatever other runs, stopped runs, deletions
\* and repeated requests did in between; a vault if its runs do not overlap.
THEOREM SuccessIsWhole == Spec => SuccessMeansWhole
<1>1. Whereabouts /\ Course /\ [Next]_vars =>
        [\A r \in Runs :
           /\ run[r].step # "done" /\ run'[r].step = "done"
           /\ thread' # None /\ thread' = run'[r].target
           /\ kind = "vault" => alone
           => Whole(r)']_vars
  BY DoneIsWhole
<1>2. Init => Course
  BY InitCourse
<1>3. Whereabouts /\ Course /\ [Next]_vars => Course'
  BY CourseIsInductive
<1> QED BY <1>1, <1>2, <1>3, InitWhereabouts, WhereaboutsAreInductive, PTL
        DEF Spec, SuccessMeansWhole

=============================================================================
