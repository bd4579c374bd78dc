-------------------------- MODULE MediaObjectsProofs --------------------------
(***************************************************************************)
(* Proofs about MediaObjects, for any contents, memories and workers: the  *)
(* counts cover the references, a removal is its worker's own, and no      *)
(* memory points at media without bytes except in three named situations.  *)
(***************************************************************************)
EXTENDS MediaObjects, FiniteSetTheorems, TLAPS

(* The invariants.                                                         *)

\* Steps that only the sweep takes.
SweepSteps == {"reclaim", "drop_reservation", "recover", "revert_promoting",
               "revert_deleting", "reclaim_failed", "reconcile", "refetch"}

\* A task that is about a row.
About(t) == t.step \notin {"idle", "insert", "register"}

\* What a task knows fits what there is.
Known(t) ==
    /\ About(t) => t.sha \in Shas /\ t.id \in 1 .. made[t.sha]
    /\ t.step = "register" => t.sha \in Shas /\ t.uri = None
    /\ t.step \in {"insert", "link"} => t.memory \in Memories /\ t.uri = None
    /\ t.step \in {"promote", "register_promote"} => t.gc_state \in {"active", "orphan"}
    /\ t.step = "revert_deleting" => t.uri # None

\* Ids are counted up and never used again; tasks belong to the workers that
\* may have them, and a sweep holds one task per content.
Base ==
    /\ TypeOK
    /\ \A s \in Shas : row[s] # None => row[s].id = made[s]
    /\ \A m \in Memories : link[m] # None => link[m].id <= made[link[m].sha]
    /\ \A w \in Workers : Known(task[w])
    /\ \A w \in Workers \ Sweepers : task[w].step \notin SweepSteps
    /\ \A g \in Sweepers : \A t \in todo[g] :
        /\ Known(t) /\ About(t)
        /\ t.step = FirstStep[phase[g]]
        /\ task[g].step # "idle" => task[g].sha # t.sha
        /\ \A u \in todo[g] : u.sha = t.sha => u = t

OneSweep == \A g, h \in Sweepers : g = h

\* What is between the count of a row and its references only grows, until
\* the sweep takes it away again.
Covers(t) ==
    t.step = "reconcile" /\ Present(t.sha, t.id) =>
        row[t.sha].ref_count + t.actual >= Actual(t.sha) + t.expected

Counted ==
    /\ CountCovers
    /\ \A s \in Shas : row[s] # None /\ ~Referable(row[s]) => row[s].ref_count = 0
    /\ \A m \in Memories : link[m] # None => Present(link[m].sha, link[m].id)
    /\ \A w \in Workers : Covers(task[w])
    /\ \A g \in Sweepers : \A t \in todo[g] : Covers(t)

\* The three things to do with a row, each by one worker at a time.
Reserving == {"copy", "confirm", "reclaim", "drop_reservation"}
Promoting == {"recopy", "reread", "promote", "recover", "revert_promoting"}
Deleting == {"erase", "drop", "revert_deleting"}

\* The row is as the worker on it left it.
Fits(t) ==
    /\ About(t) /\ Present(t.sha, t.id) =>
        LET r == row[t.sha] IN
        /\ t.uri # None => r.storage_uri # None
        /\ t.step \in Reserving => r.storage_uri = None /\ r.gc_state \in {"orphan", "deleting"}
        /\ t.step \in Promoting => r.gc_state = "promoting"
        /\ t.step \in {"recover", "revert_promoting"} => r.storage_uri = None
        /\ t.step \in Deleting => r.gc_state = "deleting"
    /\ t.step \in {"erase", "drop"} /\ t.uri # None => Present(t.sha, t.id)

SameDuty(a, b) ==
    \/ a \in Reserving /\ b \in Reserving
    \/ a \in Promoting /\ b \in Promoting
    \/ a \in Deleting /\ b \in Deleting

Apart(t, u) ==
    ~(SameDuty(t.step, u.step) /\ t.sha = u.sha /\ t.id = u.id /\ Present(t.sha, t.id))

Owned ==
    /\ \A w \in Workers : Fits(task[w])
    /\ \A g \in Sweepers : \A t \in todo[g] : Fits(t)
    /\ \A v, w \in Workers : v # w => Apart(task[v], task[w])
    /\ \A w \in Workers : \A g \in Sweepers : \A t \in todo[g] : Apart(task[w], t)

-----------------------------------------------------------------------------
(* Values.                                                                 *)

LEMMA IdleIs == Idle \in Tasks /\ Idle.step = "idle"
BY DEF Idle, Tasks, Steps

LEMMA RowIs ==
    ASSUME Base, NEW s \in Shas, row[s] # None
    PROVE  /\ row[s] \in MediaRows
           /\ row[s].id = made[s] /\ made[s] \in Ids
           /\ row[s].gc_state \in GcStates /\ row[s].storage_uri \in Keys \cup {None}
           /\ row[s].ref_count \in Nat
BY DEF Base, TypeOK, MediaRows

LEMMA MineIs ==
    ASSUME Base, NEW w \in Workers, About(task[w]), Mine(w)
    PROVE  /\ task[w].sha \in Shas /\ MyRow(w) # None /\ MyRow(w) = row[task[w].sha]
           /\ MyRow(w).id = task[w].id
BY DEF Base, Known, Mine, Present, MyRow

\* A worker's task is replaced.
LEMMA TaskIs ==
    ASSUME Base, NEW w \in Workers, NEW u \in Tasks, task' = [task EXCEPT ![w] = u]
    PROVE  /\ task' \in [Workers -> Tasks] /\ task'[w] = u
           /\ \A v \in Workers \ {w} : task'[v] = task[v]
BY DEF Base, TypeOK

\* The sweep's lists stay; a worker goes on to u.
LEMMA BaseGoesOn ==
    ASSUME Base, NEW w \in Workers, NEW u \in Tasks, task' = [task EXCEPT ![w] = u],
           UNCHANGED <<phase, todo>>,
           row' \in [Shas -> MediaRows \cup {None}], made' \in [Shas -> 0 .. MaxRows],
           object' \in [Shas -> SUBSET Keys], link' \in [Memories -> References \cup {None}],
           page' \in [Migrators -> (SUBSET Memories) \cup {None}],
           failures' \in 0 .. MaxFailures, stops' \in 0 .. MaxStops, puts' \in 0 .. MaxPuts,
           \A s \in Shas : made[s] <= made'[s],
           \A s \in Shas : row'[s] # None => row'[s].id = made'[s],
           \A m \in Memories : link'[m] # None => link'[m].id <= made'[link'[m].sha],
           Known(u)', w \notin Sweepers => u.step \notin SweepSteps,
           w \in Sweepers => u.step = "idle" \/ (task[w].step # "idle" /\ u.sha = task[w].sha)
    PROVE  Base'
<1>1. TypeOK'
  BY TaskIs DEF Base, TypeOK
<1>2. \A t \in Tasks : Known(t) => Known(t)'
  <2> SUFFICES ASSUME NEW t \in Tasks, Known(t) PROVE Known(t)'
    OBVIOUS
  <2>1. About(t) => t.id \in 1 .. made'[t.sha]
    <3>1. About(t) => /\ t.sha \in Shas /\ t.id \in 1 .. made[t.sha]
                      /\ made[t.sha] <= made'[t.sha]
      BY DEF Known
    <3>2. \A s \in Shas : made[s] \in Int /\ made'[s] \in Int
      BY MediaAssumption DEF Base, TypeOK
    <3> QED BY <3>1, <3>2
  <2> QED BY <2>1 DEF Known, About
<1>3. \A v \in Workers : Known(task[v])' /\ (v \notin Sweepers => task'[v].step \notin SweepSteps)
  BY <1>2, TaskIs DEF Base, TypeOK
<1>4. ASSUME NEW g \in Sweepers, NEW t \in todo[g]
      PROVE  /\ Known(t)' /\ About(t) /\ t.step = FirstStep[phase[g]]
             /\ task'[g].step # "idle" => task'[g].sha # t.sha
             /\ \A x \in todo[g] : x.sha = t.sha => x = t
  <2>1. t \in Tasks /\ g \in Workers
    BY DEF Base, TypeOK, Workers
  <2>2. Known(t)'
    BY <1>2, <2>1 DEF Base
  <2>3. task'[g].step # "idle" => task'[g].sha # t.sha
    BY <2>1, TaskIs DEF Base
  <2> QED BY <2>2, <2>3 DEF Base
<1> QED BY <1>1, <1>3, <1>4 DEF Base, About

\* A row is written, or not.
LEMMA RowsAre ==
    ASSUME Base, NEW s \in Shas, NEW r \in MediaRows \cup {None},
           row' = [row EXCEPT ![s] = r], UNCHANGED made, r # None => r.id = made[s]
    PROVE  /\ row' \in [Shas -> MediaRows \cup {None}]
           /\ \A x \in Shas : row'[x] # None => row'[x].id = made'[x]
           /\ \A x \in Shas : made[x] <= made'[x]
           /\ made' \in [Shas -> 0 .. MaxRows]
<1>1. \A x \in Shas : made[x] \in Int
  BY MediaAssumption DEF Base, TypeOK
<1> QED BY <1>1 DEF Base, TypeOK

LEMMA Inserted ==
    ASSUME Base, NEW s \in Shas, NEW r \in MediaRows, r.id = made[s] + 1, Insert(s, r)
    PROVE  /\ row' \in [Shas -> MediaRows \cup {None}]
           /\ row'[s] = r /\ made'[s] = made[s] + 1
           /\ \A x \in Shas \ {s} : row'[x] = row[x] /\ made'[x] = made[x]
           /\ \A x \in Shas : row'[x] # None => row'[x].id = made'[x]
           /\ \A x \in Shas : made[x] <= made'[x]
           /\ made' \in [Shas -> 0 .. MaxRows]
           /\ made'[s] \in 1 .. made'[s]
<1>1. made \in [Shas -> 0 .. MaxRows] /\ MaxRows \in Nat /\ row \in [Shas -> MediaRows \cup {None}]
  BY MediaAssumption DEF Base, TypeOK
<1>2. made[s] < MaxRows /\ made' = [made EXCEPT ![s] = made[s] + 1] /\ row' = [row EXCEPT ![s] = r]
  BY DEF Insert
<1>3. /\ row'[s] = r /\ made'[s] = made[s] + 1
      /\ \A x \in Shas \ {s} : row'[x] = row[x] /\ made'[x] = made[x]
  BY <1>1, <1>2
<1>4. \A x \in Shas : made'[x] \in 0 .. MaxRows /\ made[x] <= made'[x]
  BY <1>1, <1>2, <1>3
<1>5. made' \in [Shas -> 0 .. MaxRows]
  BY <1>1, <1>2, <1>4
<1>6. \A x \in Shas : row'[x] # None => row'[x].id = made'[x]
  BY <1>3 DEF Base
<1>7. made'[s] \in 1 .. made'[s]
  BY <1>1, <1>3
<1>8. row' \in [Shas -> MediaRows \cup {None}]
  BY <1>1, <1>2
<1> QED BY <1>3, <1>4, <1>5, <1>6, <1>7, <1>8

LEMMA FreshIs ==
    ASSUME Base, NEW s \in Shas, made[s] < MaxRows, NEW gc \in GcStates, NEW uri \in Keys \cup {None}
    PROVE  /\ FreshRow(s, gc, uri) \in MediaRows
           /\ FreshRow(s, gc, uri).id = made[s] + 1
           /\ FreshRow(s, gc, uri).ref_count = 0
           /\ FreshRow(s, gc, uri).gc_state = gc
           /\ FreshRow(s, gc, uri).storage_uri = uri
           /\ made[s] + 1 \in Ids
<1>1. made[s] \in 0 .. MaxRows /\ MaxRows \in Nat
  BY MediaAssumption DEF Base, TypeOK
<1>2. made[s] + 1 \in Ids
  BY <1>1 DEF Ids
<1> QED BY <1>2 DEF FreshRow, MediaRows

\* No link is changed.
LEMMA LinksStand ==
    ASSUME Base, UNCHANGED link, \A s \in Shas : made[s] <= made'[s],
           made' \in [Shas -> 0 .. MaxRows]
    PROVE  /\ link' \in [Memories -> References \cup {None}]
           /\ \A m \in Memories : link'[m] # None => link'[m].id <= made'[link'[m].sha]
<1>1. link \in [Memories -> References \cup {None}]
  BY DEF Base, TypeOK
<1>2. SUFFICES ASSUME NEW m \in Memories, link[m] # None PROVE link[m].id <= made'[link[m].sha]
  BY <1>1
<1>3. link[m].sha \in Shas /\ link[m].id \in Ids /\ link[m].id <= made[link[m].sha]
  BY <1>1, <1>2 DEF Base, References
<1>4. \A s \in Shas : made[s] \in Int /\ made'[s] \in Int
  BY MediaAssumption DEF Base, TypeOK
<1> QED BY <1>3, <1>4 DEF Ids

\* A task goes on to its next step.
LEMMA NextIs ==
    ASSUME Base, NEW w \in Workers, NEW step \in Steps,
           About(task[w]) \/ step = "idle"
    PROVE  LET u == [task[w] EXCEPT !.step = step] IN
           /\ u \in Tasks /\ u.step = step /\ u.sha = task[w].sha /\ u.id = task[w].id
           /\ u.uri = task[w].uri /\ u.gc_state = task[w].gc_state
           /\ u.memory = task[w].memory /\ u.actual = task[w].actual
           /\ u.expected = task[w].expected
<1>1. task[w] \in Tasks
  BY DEF Base, TypeOK
<1> QED BY <1>1 DEF Tasks

\* The steps of a worker on its own row: the task of w and its row change.
OwnRow(w, u, r) ==
    /\ task' = [task EXCEPT ![w] = u]
    /\ row' = [row EXCEPT ![task[w].sha] = r]
    /\ UNCHANGED <<made, link, phase, todo, page>>

LEMMA OwnRowKeepsBase ==
    ASSUME Base, NEW w \in Workers, NEW u \in Tasks, NEW r \in MediaRows \cup {None},
           OwnRow(w, u, r), task[w].sha \in Shas, r # None => r.id = made[task[w].sha],
           object' \in [Shas -> SUBSET Keys],
           failures' \in 0 .. MaxFailures, stops' \in 0 .. MaxStops, puts' \in 0 .. MaxPuts,
           Known(u), w \notin Sweepers => u.step \notin SweepSteps,
           w \in Sweepers => u.step = "idle" \/ (task[w].step # "idle" /\ u.sha = task[w].sha)
    PROVE  Base'
<1>1. /\ row' \in [Shas -> MediaRows \cup {None}]
      /\ \A x \in Shas : row'[x] # None => row'[x].id = made'[x]
      /\ \A x \in Shas : made[x] <= made'[x]
      /\ made' \in [Shas -> 0 .. MaxRows]
  BY RowsAre DEF OwnRow
<1>2. /\ link' \in [Memories -> References \cup {None}]
      /\ \A m \in Memories : link'[m] # None => link'[m].id <= made'[link'[m].sha]
  BY <1>1, LinksStand DEF OwnRow
<1>3. page' \in [Migrators -> (SUBSET Memories) \cup {None}] /\ UNCHANGED <<phase, todo>>
  BY DEF OwnRow, Base, TypeOK
<1>4. Known(u)'
  BY DEF OwnRow, Known, About
<1>5. task' = [task EXCEPT ![w] = u]
  BY DEF OwnRow
<1> QED BY <1>1, <1>2, <1>3, <1>4, <1>5, BaseGoesOn

-----------------------------------------------------------------------------
(* The steps of a worker that has a row, in one form: what becomes of its  *)
(* task, of the row and of the objects.                                    *)

\* A deletion ends after its claim and leaves the row: only if it stops.
GivenUp(t, o) ==
    /\ t.step \in {"erase", "drop"}
    /\ o # None /\ o.id = t.id /\ o.gc_state = "deleting"
    /\ stops' = stops

\* The task goes on to another step of the same duty, or is given up; the row
\* stays as it is.
GoesOn(t, u, o) ==
    \/ u = Idle /\ UNCHANGED object /\ ~GivenUp(t, o)
    \/ t.step = "copy" /\ u = Idle /\ object' = [object EXCEPT ![t.sha] = @ \cup {"final"}]
    \/ /\ t.step = "erase" /\ t.uri # None /\ u = Idle
       /\ ~(o # None /\ o.id = t.id /\ o.gc_state = "deleting")
       /\ object' = [object EXCEPT ![t.sha] = @ \ {t.uri}]
    \/ /\ u.sha = t.sha /\ u.id = t.id /\ u.uri = t.uri
       /\ \/ /\ \/ t.step = "copy" /\ u.step = "confirm"
                \/ t.step = "recopy" /\ u.step = "reread"
             /\ object' = [object EXCEPT ![t.sha] = @ \cup {"final"}]
          \/ /\ t.step = "reread" /\ u.step = "promote"
             /\ o # None /\ o.id = t.id
             /\ u.gc_state \in {"active", "orphan"}
             /\ UNCHANGED object
          \/ /\ t.step = "erase" /\ u.step = "drop"
             /\ object' = [object EXCEPT ![t.sha] = @ \ {t.uri}]
          \/ /\ \/ t.step = "reclaim" /\ u.step = "drop_reservation"
                \/ t.step = "recover" /\ u.step = "revert_promoting"
             /\ object' \in {object, [object EXCEPT ![t.sha] = @ \ {"final"}]}
    \/ /\ t.step = "refetch" /\ u.step = "claim_delete"
       /\ o # None /\ o.id = t.id
       /\ u.sha = t.sha /\ u.id = t.id /\ u.uri = o.storage_uri
       /\ UNCHANGED object

\* The row is taken over, or given back, or settled.
Settles(t, u, o, r) ==
    \/ /\ u.step = "erase" /\ u.sha = t.sha /\ u.id = t.id /\ u.uri = t.uri
       /\ o.ref_count = 0
       /\ \/ t.step = "claim_delete" /\ o.gc_state \in {"active", "orphan"}
          \/ t.step = "reclaim_failed" /\ o.gc_state = "deleted_failed"
       /\ r = [o EXCEPT !.gc_state = "deleting"]
       /\ UNCHANGED object
    \/ /\ t.step = "claim" /\ u.step = "recopy"
       /\ u.sha = t.sha /\ u.id = t.id /\ u.uri = t.uri
       /\ o.gc_state \in {"deleted_failed", "unresolvable"}
       /\ r = [o EXCEPT !.gc_state = "promoting"]
       /\ UNCHANGED object
    \/ /\ t.step = "confirm" /\ u = Idle
       /\ o.gc_state = "orphan" /\ o.storage_uri = None
       /\ r = [o EXCEPT !.storage_uri = "final"]
       /\ UNCHANGED object
    \/ /\ t.step = "promote" /\ u = Idle
       /\ o.gc_state = "promoting"
       /\ r = [o EXCEPT !.storage_uri = "final", !.gc_state = t.gc_state]
       /\ UNCHANGED object
    \/ /\ t.step = "register_promote" /\ u = Idle
       /\ o.gc_state \in {"deleted_failed", "unresolvable"}
       /\ r = [o EXCEPT !.storage_uri = "external", !.gc_state = t.gc_state]
       /\ UNCHANGED object
    \/ /\ t.step \in {"erase", "drop"} /\ u = Idle
       /\ o.gc_state = "deleting"
       /\ t.step = "erase" => t.uri # None
       /\ t.step = "drop" => o.ref_count # 0
       /\ r = [o EXCEPT !.gc_state = "deleted_failed"]
       /\ \/ UNCHANGED object
          \/ t.step = "erase" /\ object' = [object EXCEPT ![t.sha] = @ \ {t.uri}]
    \/ /\ u = Idle
       /\ \/ /\ t.step = "revert_promoting" /\ o.gc_state = "promoting"
             /\ r = [o EXCEPT !.gc_state = "unresolvable"]
          \/ /\ t.step = "revert_deleting" /\ o.gc_state = "deleting"
             /\ r = [o EXCEPT !.gc_state = "orphan"]
       /\ UNCHANGED object
    \/ /\ t.step = "reconcile"
       /\ u = Idle \/ (u.step = "refetch" /\ u.sha = t.sha /\ u.id = t.id /\ u.uri = t.uri)
       /\ o.ref_count = t.expected /\ o.gc_state \in {"active", "orphan"}
       /\ r = [o EXCEPT !.ref_count = t.actual]
       /\ UNCHANGED object
    \/ /\ t.step \in {"copy", "drop", "drop_reservation"} /\ u = Idle
       /\ o.ref_count = 0 /\ o.gc_state \in {"active", "orphan", "deleting"}
       /\ r = None
       /\ \/ UNCHANGED object
          \/ t.step = "copy" /\ object' = [object EXCEPT ![t.sha] = @ \cup {"final"}]

Outcome(w, u, r) ==
    \/ r = MyRow(w) /\ GoesOn(task[w], u, MyRow(w))
    \/ Mine(w) /\ Settles(task[w], u, MyRow(w), r)

OwnStep(w) ==
    \/ CopyFresh(w) \/ CopyFails(w) \/ Confirm(w) \/ ClaimPromote(w) \/ LoseClaim(w)
    \/ CopyPromoted(w) \/ Reread(w) \/ Promote(w) \/ RegisterPromote(w)
    \/ DeleteStep(w)
    \/ ReclaimReservation(w) \/ DropReservation(w)
    \/ RecoverPromoting(w) \/ RevertPromoting(w) \/ RevertDeleting(w)
    \/ ReclaimFailed(w) \/ Reconcile(w) \/ Refetch(w)
    \/ About(task[w]) /\ Stops(w)

OwnEffect(w, u, r) ==
    /\ About(task[w])
    /\ OwnRow(w, u, r)
    /\ Outcome(w, u, r)
    /\ Known(u)
    /\ u.step = "idle" \/ u.sha = task[w].sha
    /\ u.step \in SweepSteps => task[w].step \in SweepSteps
    /\ r # None => r.id = made[task[w].sha]
    /\ object' \in [Shas -> SUBSET Keys]
    /\ failures' \in 0 .. MaxFailures
    /\ stops' \in 0 .. MaxStops
    /\ puts' \in 0 .. MaxPuts

LEMMA MyRowIs ==
    ASSUME Base, NEW w \in Workers, About(task[w])
    PROVE  /\ task[w] \in Tasks /\ task[w].sha \in Shas
           /\ MyRow(w) = row[task[w].sha] /\ MyRow(w) \in MediaRows \cup {None}
           /\ MyRow(w) # None => MyRow(w).id = made[task[w].sha]
           /\ Mine(w) <=> MyRow(w) # None /\ MyRow(w).id = task[w].id
           /\ row = [row EXCEPT ![task[w].sha] = MyRow(w)]
           /\ object \in [Shas -> SUBSET Keys]
BY DEF Base, TypeOK, Known, MyRow, Mine, Present

\* Storage calls change the objects of one content.
LEMMA ObjectsAre ==
    ASSUME Base, NEW s \in Shas, NEW k,
           object' \in {object, [object EXCEPT ![s] = @ \cup {"final"}], [object EXCEPT ![s] = @ \ {k}]}
    PROVE  /\ object' \in [Shas -> SUBSET Keys]
BY DEF Base, TypeOK, Keys

LEMMA CountersAre ==
    ASSUME Base,
           failures' = failures \/ (failures < MaxFailures /\ failures' = failures + 1),
           stops' = stops \/ (stops < MaxStops /\ stops' = stops + 1),
           puts' = puts
    PROVE  /\ failures' \in 0 .. MaxFailures /\ stops' \in 0 .. MaxStops
           /\ puts' \in 0 .. MaxPuts
BY MediaAssumption DEF Base, TypeOK

\* A step that ends the task or takes it to another step, and leaves the row.
LEMMA RowStays ==
    ASSUME Base, NEW w \in Workers, About(task[w]), NEW u \in Tasks,
           task' = [task EXCEPT ![w] = u], UNCHANGED <<row, made, link, phase, todo, page>>
    PROVE  OwnRow(w, u, MyRow(w))
BY MyRowIs DEF OwnRow

\* The step of a worker that stays with its row.
LEMMA GotoIs ==
    ASSUME Base, NEW w \in Workers, NEW step \in Steps, About(task[w]), Goto(w, step)
    PROVE  LET u == [task[w] EXCEPT !.step = step] IN
           /\ u \in Tasks /\ task' = [task EXCEPT ![w] = u]
           /\ u.step = step /\ u.sha = task[w].sha /\ u.id = task[w].id
           /\ u.uri = task[w].uri /\ u.gc_state = task[w].gc_state /\ u.memory = task[w].memory
           /\ step \notin {"promote", "register_promote", "revert_deleting", "insert", "link", "register"} => Known(u)
<1> DEFINE u == [task[w] EXCEPT !.step = step]
<1>1. /\ u \in Tasks /\ u.step = step /\ u.sha = task[w].sha /\ u.id = task[w].id
      /\ u.uri = task[w].uri /\ u.gc_state = task[w].gc_state /\ u.memory = task[w].memory
  BY NextIs
<1>2. task' = [task EXCEPT ![w] = u]
  BY DEF Goto, Base, TypeOK
<1>3. Known(task[w])
  BY DEF Base
<1>4. step \notin {"promote", "register_promote", "revert_deleting", "insert", "link", "register"} => Known(u)
  BY <1>1, <1>3 DEF Known, About
<1> QED BY <1>1, <1>2, <1>4

\* How a row may be written.
LEMMA WrittenIs ==
    ASSUME Base, NEW w \in Workers, About(task[w]), Mine(w),
           NEW gc \in GcStates, NEW uri \in Keys \cup {None}, NEW n \in Nat
    PROVE  LET o == MyRow(w) IN
           /\ [o EXCEPT !.gc_state = gc] \in MediaRows
           /\ [o EXCEPT !.gc_state = gc].id = made[task[w].sha]
           /\ [o EXCEPT !.storage_uri = uri] \in MediaRows
           /\ [o EXCEPT !.storage_uri = uri].id = made[task[w].sha]
           /\ [o EXCEPT !.storage_uri = uri, !.gc_state = gc] \in MediaRows
           /\ [o EXCEPT !.storage_uri = uri, !.gc_state = gc].id = made[task[w].sha]
           /\ [o EXCEPT !.ref_count = n] \in MediaRows
           /\ [o EXCEPT !.ref_count = n].id = made[task[w].sha]
BY MyRowIs DEF MediaRows

LEMMA IdleKnown == Known(Idle)
BY DEF Idle, Known, About

LEMMA EndsIs ==
    ASSUME Base, NEW w \in Workers, About(task[w]), Finish(w),
           UNCHANGED <<row, made, link, phase, todo, puts, page, object>>,
           failures' = failures \/ (failures < MaxFailures /\ failures' = failures + 1),
           stops' = stops \/ (stops < MaxStops /\ stops' = stops + 1),
           ~GivenUp(task[w], MyRow(w))
    PROVE  OwnEffect(w, Idle, MyRow(w))
<1>1. OwnRow(w, Idle, MyRow(w))
  BY IdleIs, RowStays DEF Finish
<1>2. Outcome(w, Idle, MyRow(w))
  BY DEF Outcome, GoesOn
<1>3. Idle.step = "idle" /\ "idle" \notin SweepSteps
  BY IdleIs DEF SweepSteps
<1> QED BY <1>1, <1>2, <1>3, IdleKnown, MyRowIs, CountersAre DEF OwnEffect

\* The row is written and the task ends.
LEMMA WritesIs ==
    ASSUME Base, NEW w \in Workers, About(task[w]), Mine(w), Finish(w),
           NEW r \in MediaRows \cup {None}, r # None => r.id = made[task[w].sha],
           SetRow(w, r), UNCHANGED <<made, link, phase, todo, puts, page>>,
           Settles(task[w], Idle, MyRow(w), r),
           object' \in [Shas -> SUBSET Keys],
           failures' = failures \/ (failures < MaxFailures /\ failures' = failures + 1),
           stops' = stops
    PROVE  OwnEffect(w, Idle, r)
<1>1. OwnRow(w, Idle, r)
  BY DEF OwnRow, SetRow, Finish
<1>2. Outcome(w, Idle, r)
  BY DEF Outcome
<1>3. Idle.step = "idle" /\ "idle" \notin SweepSteps
  BY IdleIs DEF SweepSteps
<1> QED BY <1>1, <1>2, <1>3, IdleKnown, CountersAre DEF OwnEffect

Effective(w) == \E u \in Tasks, r \in MediaRows \cup {None} : OwnEffect(w, u, r)

LEMMA ExistsEffect ==
    ASSUME NEW w \in Workers, NEW u \in Tasks, NEW r \in MediaRows \cup {None}, OwnEffect(w, u, r)
    PROVE  Effective(w)
BY DEF Effective

\* The row stays and the task goes to another step.
LEMMA StepsIs ==
    ASSUME Base, NEW w \in Workers, About(task[w]), NEW step \in Steps, Goto(w, step),
           step \in {"confirm", "reread", "drop", "drop_reservation", "revert_promoting"},
           UNCHANGED <<row, made, link, phase, todo, puts, page>>,
           step \in SweepSteps => task[w].step \in SweepSteps,
           GoesOn(task[w], [task[w] EXCEPT !.step = step], MyRow(w)),
           object' \in [Shas -> SUBSET Keys],
           failures' = failures \/ (failures < MaxFailures /\ failures' = failures + 1),
           stops' = stops
    PROVE  Effective(w)
<1> DEFINE u == [task[w] EXCEPT !.step = step]
<1>1. /\ u \in Tasks /\ task' = [task EXCEPT ![w] = u] /\ Known(u)
      /\ u.step = step /\ u.sha = task[w].sha
  BY GotoIs
<1>2. GoesOn(task[w], u, MyRow(w))
  OBVIOUS
<1> HIDE DEF u
<1>3. OwnRow(w, u, MyRow(w))
  BY <1>1, RowStays
<1>4. Outcome(w, u, MyRow(w))
  BY <1>2 DEF Outcome
<1>5. OwnEffect(w, u, MyRow(w))
  BY <1>1, <1>3, <1>4, MyRowIs, CountersAre DEF OwnEffect
<1> QED BY <1>1, <1>5, MyRowIs, ExistsEffect

LEMMA CopiesAre ==
    ASSUME Base, NEW w \in Workers, CopyFresh(w) \/ CopyPromoted(w)
    PROVE  Effective(w)
<1>1. ASSUME NEW after \in {"confirm", "reread"}, CopyFinal(w, after),
             \/ task[w].step = "copy" /\ after = "confirm"
             \/ task[w].step = "recopy" /\ after = "reread"
      PROVE  Effective(w)
  <2>1. About(task[w]) /\ after \in Steps /\ Goto(w, after)
        /\ object' = [object EXCEPT ![task[w].sha] = @ \cup {"final"}]
        /\ UNCHANGED <<row, made, link, phase, todo, puts, page, failures, stops>>
    BY <1>1 DEF About, Steps, CopyFinal
  <2>2. object' \in [Shas -> SUBSET Keys]
    BY <2>1, MyRowIs, ObjectsAre
  <2>3. GoesOn(task[w], [task[w] EXCEPT !.step = after], MyRow(w))
    BY <1>1, <2>1, GotoIs DEF GoesOn
  <2>4. after \notin SweepSteps
    BY <1>1 DEF SweepSteps
  <2> QED BY <1>1, <2>1, <2>2, <2>3, <2>4, StepsIs
<1> QED BY <1>1 DEF CopyFresh, CopyPromoted, At

LEMMA DeletesFinal ==
    ASSUME Base, NEW w \in Workers, ReclaimReservation(w) \/ RecoverPromoting(w)
    PROVE  Effective(w)
<1>1. ASSUME NEW after \in {"drop_reservation", "revert_promoting"}, DeleteFinal(w, after),
             \/ task[w].step = "reclaim" /\ after = "drop_reservation"
             \/ task[w].step = "recover" /\ after = "revert_promoting"
      PROVE  Effective(w)
  <2>1. /\ About(task[w]) /\ after \in Steps /\ Goto(w, after)
        /\ object' \in {object, [object EXCEPT ![task[w].sha] = @ \ {"final"}]}
        /\ failures' = failures \/ (failures < MaxFailures /\ failures' = failures + 1)
        /\ UNCHANGED <<row, made, link, phase, todo, puts, page, stops>>
    BY <1>1 DEF About, Steps, DeleteFinal
  <2>2. object' \in [Shas -> SUBSET Keys]
    BY <2>1, MyRowIs, ObjectsAre
  <2>3. GoesOn(task[w], [task[w] EXCEPT !.step = after], MyRow(w))
    BY <1>1, <2>1, GotoIs DEF GoesOn
  <2>4. task[w].step \in SweepSteps
    BY <1>1 DEF SweepSteps
  <2> QED BY <1>1, <2>1, <2>2, <2>3, <2>4, StepsIs
<1> QED BY <1>1 DEF ReclaimReservation, RecoverPromoting, At

LEMMA EraseIs == ASSUME Base, NEW w \in Workers, Erase(w) PROVE Effective(w)
<1>1. /\ About(task[w]) /\ task[w].step = "erase" /\ "drop" \in Steps /\ Goto(w, "drop")
      /\ object' = [object EXCEPT ![task[w].sha] = @ \ {task[w].uri}]
      /\ UNCHANGED <<row, made, link, phase, todo, puts, page, failures, stops>>
  BY DEF Erase, At, About, Steps
<1>2. object' \in [Shas -> SUBSET Keys]
  BY <1>1, MyRowIs, ObjectsAre
<1>3. GoesOn(task[w], [task[w] EXCEPT !.step = "drop"], MyRow(w))
  BY <1>1, GotoIs DEF GoesOn
<1>4. "drop" \notin SweepSteps
  BY DEF SweepSteps
<1> QED BY <1>1, <1>2, <1>3, <1>4, StepsIs

\* A task whose row is as it should not be ends and leaves it.
LEMMA CopyFailsIs == ASSUME Base, NEW w \in Workers, CopyFails(w) PROVE Effective(w)
<1>1. /\ About(task[w]) /\ task[w].step = "copy" /\ Finish(w)
      /\ object' \in {object, [object EXCEPT ![task[w].sha] = @ \cup {"final"}]}
      /\ failures' = failures \/ (failures < MaxFailures /\ failures' = failures + 1)
      /\ UNCHANGED <<made, link, phase, todo, stops, puts, page>>
  BY DEF CopyFails, At, About
<1>2. object' \in [Shas -> SUBSET Keys]
  BY <1>1, MyRowIs, ObjectsAre
<1>3. CASE Deletable(w)
  <2>1. Mine(w) /\ SetRow(w, None)
    BY <1>3 DEF CopyFails, Deletable
  <2>2. Settles(task[w], Idle, MyRow(w), None)
    BY <1>1, <1>3 DEF Settles, Deletable
  <2>3. OwnEffect(w, Idle, None)
    BY <1>1, <1>2, <2>1, <2>2, WritesIs
  <2> QED BY <2>3, IdleIs, ExistsEffect
<1>4. CASE ~Deletable(w)
  <2>1. UNCHANGED row
    BY <1>4 DEF CopyFails
  <2>2. OwnRow(w, Idle, MyRow(w))
    BY <1>1, <2>1, IdleIs, RowStays DEF Finish
  <2>3. Outcome(w, Idle, MyRow(w))
    BY <1>1 DEF Outcome, GoesOn, GivenUp
  <2>4. Idle.step = "idle" /\ "idle" \notin SweepSteps
    BY IdleIs DEF SweepSteps
  <2>5. OwnEffect(w, Idle, MyRow(w))
    BY <1>1, <1>2, <2>2, <2>3, <2>4, IdleKnown, MyRowIs, CountersAre DEF OwnEffect
  <2> QED BY <1>1, <2>5, IdleIs, MyRowIs, ExistsEffect
<1> QED BY <1>3, <1>4

\* One statement on the row, after which the task ends.
LEMMA StatementIs ==
    ASSUME Base, NEW w \in Workers,
           \/ Confirm(w) \/ Promote(w) \/ RegisterPromote(w) \/ Drop(w) \/ DropReservation(w)
           \/ RevertPromoting(w) \/ RevertDeleting(w)
    PROVE  Effective(w)
<1>1. /\ About(task[w]) /\ Finish(w)
      /\ UNCHANGED <<made, object, link, phase, todo, failures, stops, puts, page>>
  BY DEF Confirm, Promote, RegisterPromote, Drop, DropReservation, RevertPromoting,
         RevertDeleting, Revert, At, About
<1>2. object' \in [Shas -> SUBSET Keys]
  BY <1>1, MyRowIs
<1>3. CASE UNCHANGED row
  <2>1. ~GivenUp(task[w], MyRow(w))
    <3> SUFFICES ASSUME task[w].step = "drop", Mine(w), MyRow(w) # None, MyRow(w).gc_state = "deleting"
                 PROVE  FALSE
      BY <1>1, MyRowIs DEF GivenUp, Confirm, Promote, RegisterPromote, Drop, DropReservation,
         RevertPromoting, RevertDeleting, Revert, At
    <3>1. Drop(w)
      BY DEF Confirm, Promote, RegisterPromote, Drop, DropReservation,
         RevertPromoting, RevertDeleting, Revert, At
    <3>2. task[w].sha \in Shas /\ MyRow(w) = row[task[w].sha] /\ row \in [Shas -> MediaRows \cup {None}]
          /\ MyRow(w) \in MediaRows
      BY <1>1, MyRowIs DEF Base, TypeOK
    <3>3. ~SetRow(w, None)
      BY <1>3, <3>2 DEF SetRow
    <3>4. ~SetRow(w, [MyRow(w) EXCEPT !.gc_state = "deleted_failed"])
      <4>1. [MyRow(w) EXCEPT !.gc_state = "deleted_failed"] # MyRow(w)
        BY <3>2 DEF MediaRows
      <4> QED BY <1>3, <3>2, <4>1 DEF SetRow
    <3> QED BY <3>1, <3>3, <3>4 DEF Drop, MarkDeleteFailed
  <2> QED BY <1>1, <1>3, <2>1, EndsIs, IdleIs, MyRowIs, ExistsEffect
<1>4. ASSUME NEW r \in MediaRows \cup {None}, r # None => r.id = made[task[w].sha],
             Mine(w), SetRow(w, r), Settles(task[w], Idle, MyRow(w), r)
      PROVE  Effective(w)
  <2>1. OwnEffect(w, Idle, r)
    BY <1>1, <1>2, <1>4, WritesIs
  <2> QED BY <2>1, IdleIs, ExistsEffect
<1>5. Known(task[w])
  BY DEF Base
<1>6. "final" \in Keys /\ "external" \in Keys /\ GcStates = {"active", "orphan", "deleted_failed",
              "unresolvable", "promoting", "deleting"}
  BY DEF Keys, GcStates
<1>7. CASE Confirm(w) /\ ~UNCHANGED row
  <2> DEFINE r == [MyRow(w) EXCEPT !.storage_uri = "final"]
  <2>1. /\ Mine(w) /\ SetRow(w, r) /\ task[w].step = "confirm"
        /\ MyRow(w).gc_state = "orphan" /\ MyRow(w).storage_uri = None
    BY <1>7 DEF Confirm, At
  <2>2. r \in MediaRows /\ r.id = made[task[w].sha]
    BY <1>1, <1>6, <2>1, WrittenIs
  <2>3. Settles(task[w], Idle, MyRow(w), r)
    BY <1>1, <2>1 DEF Settles
  <2> QED BY <1>4, <2>1, <2>2, <2>3
<1>8. CASE Promote(w) /\ ~UNCHANGED row
  <2> DEFINE r == [MyRow(w) EXCEPT !.storage_uri = "final", !.gc_state = task[w].gc_state]
  <2>1. /\ Mine(w) /\ SetRow(w, r) /\ task[w].step = "promote"
        /\ MyRow(w).gc_state = "promoting"
    BY <1>8 DEF Promote, At
  <2>2. r \in MediaRows /\ r.id = made[task[w].sha]
    <3>1. task[w].gc_state \in GcStates
      BY <1>5, <1>6, <2>1 DEF Known
    <3> QED BY <1>1, <1>6, <2>1, <3>1, MyRowIs DEF MediaRows
  <2>3. Settles(task[w], Idle, MyRow(w), r)
    BY <1>1, <2>1 DEF Settles
  <2> QED BY <1>4, <2>1, <2>2, <2>3
<1>9. CASE RegisterPromote(w) /\ ~UNCHANGED row
  <2> DEFINE r == [MyRow(w) EXCEPT !.storage_uri = "external", !.gc_state = task[w].gc_state]
  <2>1. /\ Mine(w) /\ SetRow(w, r) /\ task[w].step = "register_promote"
        /\ MyRow(w).gc_state \in {"deleted_failed", "unresolvable"}
    BY <1>9 DEF RegisterPromote, Promotable, At
  <2>2. r \in MediaRows /\ r.id = made[task[w].sha]
    <3>1. task[w].gc_state \in GcStates
      BY <1>5, <1>6, <2>1 DEF Known
    <3> QED BY <1>1, <1>6, <2>1, <3>1, MyRowIs DEF MediaRows
  <2>3. Settles(task[w], Idle, MyRow(w), r)
    BY <1>1, <2>1 DEF Settles
  <2> QED BY <1>4, <2>1, <2>2, <2>3
<1>10. CASE (Drop(w) \/ DropReservation(w)) /\ Deletable(w)
  <2>1. /\ Mine(w) /\ SetRow(w, None) /\ task[w].step \in {"drop", "drop_reservation"}
        /\ MyRow(w).ref_count = 0 /\ MyRow(w).gc_state \in {"active", "orphan", "deleting"}
    BY <1>10 DEF Drop, DropReservation, Deletable, At
  <2>2. Settles(task[w], Idle, MyRow(w), None)
    BY <1>1, <2>1 DEF Settles
  <2> QED BY <1>4, <2>1, <2>2
<1>11. CASE Drop(w) /\ ~Deletable(w) /\ ~UNCHANGED row
  <2> DEFINE r == [MyRow(w) EXCEPT !.gc_state = "deleted_failed"]
  <2>1. /\ Mine(w) /\ SetRow(w, r) /\ task[w].step = "drop"
        /\ MyRow(w).gc_state = "deleting" /\ MyRow(w).ref_count # 0
    BY <1>11 DEF Drop, MarkDeleteFailed, Deletable, At
  <2>2. r \in MediaRows /\ r.id = made[task[w].sha]
    BY <1>1, <1>6, <2>1, WrittenIs
  <2>3. Settles(task[w], Idle, MyRow(w), r)
    BY <1>1, <2>1 DEF Settles
  <2> QED BY <1>4, <2>1, <2>2, <2>3
<1>12. CASE DropReservation(w) /\ ~Deletable(w)
  BY <1>3, <1>12 DEF DropReservation
<1>13. ASSUME NEW from \in GcStates, NEW to \in GcStates, ~UNCHANGED row,
              \/ /\ RevertPromoting(w) /\ task[w].step = "revert_promoting"
                 /\ from = "promoting" /\ to = "unresolvable"
              \/ /\ RevertDeleting(w) /\ task[w].step = "revert_deleting"
                 /\ from = "deleting" /\ to = "orphan"
       PROVE  Effective(w)
  <2> DEFINE r == [MyRow(w) EXCEPT !.gc_state = to]
  <2>1. Mine(w) /\ SetRow(w, r) /\ MyRow(w).gc_state = from
    BY <1>13 DEF RevertPromoting, RevertDeleting, Revert, At
  <2>2. r \in MediaRows /\ r.id = made[task[w].sha]
    BY <1>1, <2>1, WrittenIs
  <2>3. Settles(task[w], Idle, MyRow(w), r)
    BY <1>1, <1>13, <2>1 DEF Settles
  <2> QED BY <1>4, <2>1, <2>2, <2>3
<1>14. RevertPromoting(w) => task[w].step = "revert_promoting"
  BY DEF RevertPromoting, Revert, At
<1>15. RevertDeleting(w) => task[w].step = "revert_deleting"
  BY DEF RevertDeleting, Revert, At
<1> QED BY <1>3, <1>6, <1>7, <1>8, <1>9, <1>10, <1>11, <1>12, <1>13, <1>14, <1>15

LEMMA EraseFailsIs == ASSUME Base, NEW w \in Workers, EraseFails(w) PROVE Effective(w)
<1>1. /\ About(task[w]) /\ task[w].step = "erase" /\ task[w].uri # None /\ Finish(w)
      /\ \/ UNCHANGED object
         \/ object' = [object EXCEPT ![task[w].sha] = @ \ {task[w].uri}]
      /\ failures' = failures \/ (failures < MaxFailures /\ failures' = failures + 1)
      /\ UNCHANGED <<made, link, phase, todo, stops, puts, page>>
  BY DEF EraseFails, At, About
<1>2. object' \in [Shas -> SUBSET Keys]
  BY <1>1, MyRowIs, ObjectsAre
<1>3. CASE Mine(w) /\ MyRow(w).gc_state = "deleting"
  <2> DEFINE r == [MyRow(w) EXCEPT !.gc_state = "deleted_failed"]
  <2>1. SetRow(w, r)
    BY <1>3 DEF EraseFails, MarkDeleteFailed
  <2>2. r \in MediaRows /\ r.id = made[task[w].sha]
    BY <1>1, <1>3, WrittenIs DEF GcStates
  <2>3. Settles(task[w], Idle, MyRow(w), r)
    BY <1>1, <1>3 DEF Settles
  <2> HIDE DEF r
  <2>4. OwnEffect(w, Idle, r)
    BY <1>1, <1>2, <1>3, <2>1, <2>2, <2>3, WritesIs
  <2> QED BY <2>2, <2>4, IdleIs, ExistsEffect
<1>4. CASE ~(Mine(w) /\ MyRow(w).gc_state = "deleting")
  <2>1. UNCHANGED row
    BY <1>4 DEF EraseFails, MarkDeleteFailed
  <2>2. OwnRow(w, Idle, MyRow(w))
    BY <1>1, <2>1, IdleIs, RowStays DEF Finish
  <2>3. Outcome(w, Idle, MyRow(w))
    BY <1>1, <1>4, MyRowIs DEF Outcome, GoesOn, GivenUp
  <2>4. Idle.step = "idle" /\ "idle" \notin SweepSteps
    BY IdleIs DEF SweepSteps
  <2>5. OwnEffect(w, Idle, MyRow(w))
    BY <1>1, <1>2, <2>2, <2>3, <2>4, IdleKnown, MyRowIs, CountersAre DEF OwnEffect
  <2> QED BY <1>1, <2>5, IdleIs, MyRowIs, ExistsEffect
<1> QED BY <1>3, <1>4

\* A statement on the row, after which the task goes on.
LEMMA GoesOnWith ==
    ASSUME Base, NEW w \in Workers, About(task[w]), Mine(w), NEW step \in Steps, Goto(w, step),
           step \in {"erase", "recopy", "refetch"},
           step = "refetch" => task[w].step = "reconcile",
           NEW r \in MediaRows, r.id = made[task[w].sha],
           SetRow(w, r), UNCHANGED <<made, object, link, phase, todo, failures, stops, puts, page>>,
           Settles(task[w], [task[w] EXCEPT !.step = step], MyRow(w), r)
    PROVE  Effective(w)
<1> DEFINE u == [task[w] EXCEPT !.step = step]
<1>1. /\ u \in Tasks /\ task' = [task EXCEPT ![w] = u] /\ Known(u)
      /\ u.step = step /\ u.sha = task[w].sha
  BY GotoIs
<1>2. Settles(task[w], u, MyRow(w), r)
  OBVIOUS
<1> HIDE DEF u
<1>3. OwnRow(w, u, r)
  BY <1>1 DEF OwnRow, SetRow
<1>4. Outcome(w, u, r)
  BY <1>2 DEF Outcome
<1>5. u.step \in SweepSteps => task[w].step \in SweepSteps
  BY <1>1 DEF SweepSteps
<1>6. OwnEffect(w, u, r)
  BY <1>1, <1>3, <1>4, <1>5, MyRowIs, CountersAre DEF OwnEffect
<1> QED BY <1>1, <1>6, ExistsEffect

LEMMA ClaimPromoteIs == ASSUME Base, NEW w \in Workers, ClaimPromote(w) PROVE Effective(w)
<1> DEFINE r == [MyRow(w) EXCEPT !.gc_state = "promoting"]
<1>1. /\ About(task[w]) /\ task[w].step = "claim" /\ Mine(w) /\ SetRow(w, r) /\ Goto(w, "recopy")
      /\ MyRow(w).gc_state \in {"deleted_failed", "unresolvable"} /\ "recopy" \in Steps
      /\ UNCHANGED <<made, object, link, phase, todo, failures, stops, puts, page>>
  BY DEF ClaimPromote, Promotable, At, About, Steps
<1>2. r \in MediaRows /\ r.id = made[task[w].sha]
  BY <1>1, WrittenIs DEF GcStates
<1>3. Settles(task[w], [task[w] EXCEPT !.step = "recopy"], MyRow(w), r)
  BY <1>1, GotoIs DEF Settles
<1> HIDE DEF r
<1> QED BY <1>1, <1>2, <1>3, GoesOnWith

LEMMA ClaimIs ==
    ASSUME Base, NEW w \in Workers, ClaimDelete(w) \/ ReclaimFailed(w) PROVE Effective(w)
<1>1. ASSUME NEW step, NEW states, Claim(w, step, states),
             \/ step = "claim_delete" /\ states = {"active", "orphan"}
             \/ step = "reclaim_failed" /\ states = {"deleted_failed"}
      PROVE  Effective(w)
  <2> DEFINE r == [MyRow(w) EXCEPT !.gc_state = "deleting"]
  <2>1. /\ About(task[w]) /\ task[w].step = step /\ "erase" \in Steps
        /\ UNCHANGED <<made, object, link, phase, todo, failures, stops, puts, page>>
    BY <1>1 DEF Claim, At, About, Steps
  <2>2. CASE Mine(w) /\ MyRow(w).ref_count = 0 /\ MyRow(w).gc_state \in states
    <3>1. SetRow(w, r) /\ Goto(w, "erase")
      BY <1>1, <2>2 DEF Claim
    <3>2. r \in MediaRows /\ r.id = made[task[w].sha]
      BY <2>1, <2>2, WrittenIs DEF GcStates
    <3>3. Settles(task[w], [task[w] EXCEPT !.step = "erase"], MyRow(w), r)
      BY <1>1, <2>1, <2>2, <3>1, GotoIs DEF Settles
    <3> HIDE DEF r
    <3> QED BY <2>1, <2>2, <3>1, <3>2, <3>3, GoesOnWith
  <2>3. CASE ~(Mine(w) /\ MyRow(w).ref_count = 0 /\ MyRow(w).gc_state \in states)
    <3>1. Finish(w) /\ UNCHANGED row
      BY <1>1, <2>3 DEF Claim
    <3> QED BY <1>1, <2>1, <3>1, EndsIs, IdleIs, MyRowIs, ExistsEffect DEF GivenUp
  <2> QED BY <2>2, <2>3
<1> QED BY <1>1 DEF ClaimDelete, ReclaimFailed

LEMMA ReconcileIs == ASSUME Base, NEW w \in Workers, Reconcile(w) PROVE Effective(w)
<1> DEFINE r == [MyRow(w) EXCEPT !.ref_count = task[w].actual]
<1>1. /\ About(task[w]) /\ task[w].step = "reconcile" /\ "refetch" \in Steps
      /\ UNCHANGED <<made, object, link, phase, todo, failures, stops, puts, page>>
  BY DEF Reconcile, At, About, Steps
<1>2. CASE UNCHANGED row /\ Finish(w)
  BY <1>1, <1>2, EndsIs, IdleIs, MyRowIs, ExistsEffect DEF GivenUp
<1>3. CASE ~(UNCHANGED row /\ Finish(w))
  <2>1. /\ Mine(w) /\ MyRow(w).ref_count = task[w].expected
        /\ MyRow(w).gc_state \in {"active", "orphan"} /\ SetRow(w, r)
        /\ Goto(w, "refetch") \/ Finish(w)
    BY <1>3 DEF Reconcile
  <2>2. task[w].actual \in Nat
    BY <1>1, MyRowIs DEF Tasks
  <2>3. r \in MediaRows /\ r.id = made[task[w].sha]
    BY <1>1, <2>1, <2>2, MyRowIs DEF MediaRows
  <2>4. CASE Finish(w)
    <3>1. Settles(task[w], Idle, MyRow(w), r)
      BY <1>1, <2>1 DEF Settles
    <3>2. object' \in [Shas -> SUBSET Keys]
      BY <1>1, MyRowIs
    <3> HIDE DEF r
    <3>3. OwnEffect(w, Idle, r)
      BY <1>1, <2>1, <2>3, <2>4, <3>1, <3>2, WritesIs
    <3> QED BY <2>3, <3>3, IdleIs, ExistsEffect
  <2>5. CASE Goto(w, "refetch")
    <3>1. Settles(task[w], [task[w] EXCEPT !.step = "refetch"], MyRow(w), r)
      BY <1>1, <2>1, <2>5, GotoIs DEF Settles
    <3> HIDE DEF r
    <3> QED BY <1>1, <2>1, <2>3, <2>5, <3>1, GoesOnWith
  <2> QED BY <2>1, <2>4, <2>5
<1> QED BY <1>2, <1>3

\* A task on a row as it is now.
LEMMA TaskOnIs ==
    ASSUME Base, NEW s \in Shas, row[s] # None, NEW step \in Steps
    PROVE  LET u == TaskOn(step, s) IN
           /\ u \in Tasks /\ u.step = step /\ u.sha = s /\ u.id = row[s].id
           /\ u.uri = row[s].storage_uri /\ u.id \in 1 .. made[s]
<1>1. row[s].id \in 1 .. made[s] /\ row[s].id \in Ids /\ row[s].storage_uri \in Keys \cup {None}
  BY RowIs DEF Ids
<1>2. Idle \in Tasks
  BY IdleIs
<1> QED BY <1>1, <1>2 DEF TaskOn, Tasks

LEMMA RefetchIs == ASSUME Base, NEW w \in Workers, Refetch(w) PROVE Effective(w)
<1>1. /\ About(task[w]) /\ task[w].step = "refetch" /\ "claim_delete" \in Steps
      /\ UNCHANGED <<row, made, object, link, phase, todo, failures, stops, puts, page>>
  BY DEF Refetch, At, About, Steps
<1>2. CASE ~Mine(w)
  <2>1. Finish(w)
    BY <1>2 DEF Refetch
  <2> QED BY <1>1, <2>1, EndsIs, IdleIs, MyRowIs, ExistsEffect DEF GivenUp
<1>3. CASE Mine(w)
  <2> DEFINE u == TaskOn("claim_delete", task[w].sha)
  <2>1. /\ task' = [task EXCEPT ![w] = u] /\ task[w].sha \in Shas
        /\ MyRow(w) = row[task[w].sha] /\ MyRow(w) # None /\ MyRow(w).id = task[w].id
    BY <1>1, <1>3, MyRowIs DEF Refetch
  <2>2. /\ u \in Tasks /\ u.step = "claim_delete" /\ u.sha = task[w].sha /\ u.id = task[w].id
        /\ u.uri = MyRow(w).storage_uri /\ u.id \in 1 .. made[u.sha]
    BY <1>1, <2>1, TaskOnIs
  <2> HIDE DEF u
  <2>3. Known(u) /\ u.step \notin SweepSteps
    BY <2>1, <2>2 DEF Known, About, SweepSteps
  <2>4. OwnRow(w, u, MyRow(w))
    BY <1>1, <2>1, <2>2, RowStays
  <2>5. Outcome(w, u, MyRow(w))
    BY <1>1, <2>1, <2>2 DEF Outcome, GoesOn
  <2>6. OwnEffect(w, u, MyRow(w))
    BY <1>1, <2>2, <2>3, <2>4, <2>5, MyRowIs, CountersAre DEF OwnEffect
  <2> QED BY <1>1, <2>2, <2>6, MyRowIs, ExistsEffect
<1> QED BY <1>2, <1>3

LEMMA RereadIs == ASSUME Base, NEW w \in Workers, Reread(w) PROVE Effective(w)
<1>1. /\ About(task[w]) /\ task[w].step = "reread"
      /\ UNCHANGED <<row, made, object, link, phase, todo, failures, stops, puts, page>>
  BY DEF Reread, At, About
<1>2. CASE ~Mine(w)
  <2>1. Finish(w)
    BY <1>2 DEF Reread
  <2> QED BY <1>1, <2>1, EndsIs, IdleIs, MyRowIs, ExistsEffect DEF GivenUp
<1>3. CASE Mine(w)
  <2> DEFINE u == [task[w] EXCEPT !.step = "promote", !.gc_state = Settled(MyRow(w).ref_count)]
  <2>1. /\ task[w] \in Tasks /\ task[w].sha \in Shas /\ Known(task[w])
        /\ MyRow(w) # None /\ MyRow(w).id = task[w].id /\ task \in [Workers -> Tasks]
    BY <1>1, <1>3, MyRowIs DEF Base, TypeOK
  <2>2. task' = [task EXCEPT ![w] = u]
    BY <1>3, <2>1 DEF Reread
  <2>3. /\ u \in Tasks /\ u.step = "promote" /\ u.sha = task[w].sha /\ u.id = task[w].id
        /\ u.uri = task[w].uri /\ u.gc_state \in {"active", "orphan"}
    BY <2>1 DEF Tasks, Settled, Steps, GcStates
  <2> HIDE DEF u
  <2>4. Known(u) /\ u.step \notin SweepSteps
    BY <1>1, <2>1, <2>3 DEF Known, About, SweepSteps
  <2>5. OwnRow(w, u, MyRow(w))
    BY <1>1, <2>2, <2>3, RowStays
  <2>6. Outcome(w, u, MyRow(w))
    BY <1>1, <2>1, <2>3 DEF Outcome, GoesOn
  <2>7. OwnEffect(w, u, MyRow(w))
    BY <1>1, <2>3, <2>4, <2>5, <2>6, MyRowIs, CountersAre DEF OwnEffect
  <2> QED BY <1>1, <2>3, <2>7, MyRowIs, ExistsEffect
<1> QED BY <1>2, <1>3

LEMMA OwnStepIs == ASSUME Base, NEW w \in Workers, OwnStep(w) PROVE Effective(w)
<1>1. CASE LoseClaim(w) \/ (About(task[w]) /\ Stops(w))
  <2>1. /\ About(task[w]) /\ Finish(w)
        /\ UNCHANGED <<row, made, link, phase, todo, puts, page, object, failures>>
        /\ stops' = stops \/ (stops < MaxStops /\ stops' = stops + 1)
    BY <1>1 DEF LoseClaim, Stops, At, About
  <2>2. ~GivenUp(task[w], MyRow(w))
    <3>1. stops \in Nat
      BY MediaAssumption DEF Base, TypeOK
    <3> QED BY <1>1, <3>1 DEF LoseClaim, Stops, At, GivenUp
  <2> QED BY <2>1, <2>2, EndsIs, IdleIs, MyRowIs, ExistsEffect
<1> QED BY <1>1, CopiesAre, DeletesFinal, EraseIs, CopyFailsIs, StatementIs, EraseFailsIs,
           ClaimPromoteIs, ClaimIs, ReconcileIs, RefetchIs, RereadIs DEF OwnStep, DeleteStep

-----------------------------------------------------------------------------
(* The other steps: a worker takes something up, a row is inserted, or a   *)
(* memory changes its reference.                                           *)

\* A request or a migration takes something up, or ends, without a write.
Starts(w, u) ==
    /\ w \notin Sweepers
    /\ u \in Tasks /\ Known(u)
    /\ u.step \in {"idle", "claim", "claim_delete", "register", "register_promote", "insert", "link"}
    /\ About(u) => Present(u.sha, u.id)
    /\ task[w].step \in {"erase", "drop"} => u = Idle /\ stops' # stops
    /\ u.uri # None => u.uri = row[u.sha].storage_uri
    /\ task' = [task EXCEPT ![w] = u]
    /\ UNCHANGED <<row, made, object, link, phase, todo>>
    /\ page' \in [Migrators -> (SUBSET Memories) \cup {None}]
    /\ failures' \in 0 .. MaxFailures /\ stops' \in 0 .. MaxStops /\ puts' \in 0 .. MaxPuts

\* A row is inserted for s.
Inserts(w, s, u, r) ==
    /\ w \notin Sweepers
    /\ u \in Tasks /\ r \in MediaRows
    /\ row[s] = None /\ Insert(s, r)
    /\ r.id = made[s] + 1 /\ r.ref_count = 0
    /\ \/ u.step = "idle" /\ r.gc_state = "orphan" /\ r.storage_uri = "external"
          /\ task[w].step = "register" /\ task[w].sha = s /\ u = Idle
       \/ /\ task[w].step \in {"idle", "insert"}
          /\ u.step \in {"copy", "link"} /\ u.sha = s /\ u.id = made[s] + 1 /\ u.uri = None
          /\ u.step = "link" => u.memory \in Memories /\ r.gc_state = "unresolvable"
          /\ u.step = "copy" => r.gc_state = "orphan"
          /\ r.storage_uri = None
    /\ task' = [task EXCEPT ![w] = u]
    /\ UNCHANGED <<object, link, phase, todo, page, failures, stops, puts>>

Started(w) == \E u \in Tasks : Starts(w, u)

InsertedBy(w, s) == \E u \in Tasks, r \in MediaRows : Inserts(w, s, u, r)

LEMMA WorkersAre ==
    /\ \A w \in Requests : w \in Workers /\ w \notin Sweepers
    /\ \A w \in Migrators : w \in Workers /\ w \notin Sweepers
    /\ \A w \in Sweepers : w \in Workers
BY MediaAssumption DEF Workers

LEMMA CountersStand ==
    ASSUME Base
    PROVE  /\ page \in [Migrators -> (SUBSET Memories) \cup {None}]
           /\ failures \in 0 .. MaxFailures /\ stops \in 0 .. MaxStops /\ puts \in 0 .. MaxPuts
BY DEF Base, TypeOK

\* A task on the row of s, taken up.
LEMMA TakesUp ==
    ASSUME Base, NEW w \in Workers, w \notin Sweepers, At(w, "idle"), NEW s \in Shas, row[s] # None,
           NEW step \in {"claim", "claim_delete"},
           task' = [task EXCEPT ![w] = TaskOn(step, s)],
           UNCHANGED <<row, made, object, link, phase, todo, page, failures, stops, puts>>
    PROVE  Started(w)
<1> DEFINE u == TaskOn(step, s)
<1>1. /\ u \in Tasks /\ u.step = step /\ u.sha = s /\ u.id = row[s].id
      /\ u.uri = row[s].storage_uri /\ u.id \in 1 .. made[s]
  BY TaskOnIs DEF Steps
<1>2. task' = [task EXCEPT ![w] = u]
  OBVIOUS
<1> HIDE DEF u
<1>3. Known(u)
  BY <1>1 DEF Known, About
<1>4. Present(u.sha, u.id)
  BY <1>1 DEF Present
<1>5. Starts(w, u)
  BY <1>1, <1>2, <1>3, <1>4, CountersStand DEF Starts, At
<1> QED BY <1>1, <1>5 DEF Started

LEMMA UploadIs ==
    ASSUME Base, NEW w \in Requests, NEW s \in Shas, Upload(w, s)
    PROVE  Started(w) \/ InsertedBy(w, s)
<1>1. w \in Workers /\ w \notin Sweepers
  BY WorkersAre
<1>2. CASE row[s] # None
  <2>1. task' = [task EXCEPT ![w] = TaskOn("claim", s)] /\ UNCHANGED <<row, made>>
        /\ UNCHANGED <<object, link, phase, todo, failures, stops, puts, page>>
    BY <1>2 DEF Upload
  <2>2. At(w, "idle")
    BY DEF Upload
  <2> QED BY <1>1, <1>2, <2>1, <2>2, TakesUp
<1>3. CASE row[s] = None
  <2> DEFINE u == [Idle EXCEPT !.step = "copy", !.sha = s, !.id = made[s] + 1]
             r == FreshRow(s, "orphan", None)
  <2>1. /\ Insert(s, r) /\ task' = [task EXCEPT ![w] = u] /\ made[s] < MaxRows
        /\ UNCHANGED <<object, link, phase, todo, failures, stops, puts, page>>
    BY <1>3 DEF Upload, Insert
  <2>2. /\ r \in MediaRows /\ r.id = made[s] + 1 /\ r.ref_count = 0 /\ r.gc_state = "orphan"
        /\ r.storage_uri = None /\ made[s] + 1 \in Ids
    BY <2>1, FreshIs DEF GcStates
  <2>3. u \in Tasks /\ u.step = "copy" /\ u.sha = s /\ u.id = made[s] + 1 /\ u.uri = None
    BY <2>2, IdleIs DEF Idle, Tasks, Steps
  <2> HIDE DEF u, r
  <2>4. Inserts(w, s, u, r)
    BY <1>1, <1>3, <2>1, <2>2, <2>3 DEF Inserts, Upload, At
  <2> QED BY <2>2, <2>3, <2>4 DEF InsertedBy
<1> QED BY <1>2, <1>3

LEMMA HeadIs == ASSUME Base, NEW w \in Requests, NEW s \in Shas, Head(w, s) PROVE Started(w)
<1> DEFINE u == [Idle EXCEPT !.step = "register", !.sha = s]
<1>1. task' = [task EXCEPT ![w] = u] /\ task[w].step = "idle"
      /\ UNCHANGED <<row, made, object, link, phase, todo, failures, stops, puts, page>>
  BY DEF Head, At
<1>2. u \in Tasks /\ u.step = "register" /\ u.sha = s /\ u.uri = None
  BY IdleIs DEF Idle, Tasks, Steps
<1> HIDE DEF u
<1>3. Known(u) /\ ~About(u)
  BY <1>2 DEF Known, About
<1>4. Starts(w, u)
  BY <1>1, <1>2, <1>3, CountersStand, WorkersAre DEF Starts
<1> QED BY <1>2, <1>4 DEF Started

\* A task of a request or a migration that ends without a write.
LEMMA GivesUp ==
    ASSUME Base, NEW w \in Workers, w \notin Sweepers, Finish(w),
           task[w].step \in {"erase", "drop"} => stops' # stops,
           UNCHANGED <<row, made, object, link, phase, todo>>,
           page' \in [Migrators -> (SUBSET Memories) \cup {None}],
           failures' \in 0 .. MaxFailures, stops' \in 0 .. MaxStops, puts' \in 0 .. MaxPuts
    PROVE  Started(w)
<1>1. Idle.uri = None /\ ~About(Idle)
  BY DEF Idle, About
<1>2. Starts(w, Idle)
  BY <1>1, IdleIs, IdleKnown DEF Starts, Finish
<1> QED BY <1>2, IdleIs DEF Started

LEMMA RegisterIs ==
    ASSUME Base, NEW w \in Requests, Register(w)
    PROVE  Started(w) \/ (task[w].sha \in Shas /\ InsertedBy(w, task[w].sha))
<1> DEFINE s == task[w].sha
<1>1. w \in Workers /\ w \notin Sweepers
  BY WorkersAre
<1>2. task[w].step = "register" /\ s \in Shas /\ task[w] \in Tasks /\ task \in [Workers -> Tasks]
      /\ UNCHANGED <<object, link, phase, todo, failures, stops, puts, page>>
  BY <1>1 DEF Register, At, Base, Known, TypeOK
<1>3. CASE row[s] = None
  <2> DEFINE r == FreshRow(s, "orphan", "external")
  <2>1. Insert(s, r) /\ Finish(w) /\ made[s] < MaxRows
    BY <1>3 DEF Register, Insert
  <2>2. /\ r \in MediaRows /\ r.id = made[s] + 1 /\ r.ref_count = 0 /\ r.gc_state = "orphan"
        /\ r.storage_uri = "external"
    BY <1>2, <2>1, FreshIs DEF GcStates, Keys
  <2> HIDE DEF r
  <2>3. Inserts(w, s, Idle, r)
    BY <1>1, <1>2, <1>3, <2>1, <2>2, IdleIs DEF Inserts, Finish
  <2>4. InsertedBy(w, s)
    BY <2>2, <2>3, IdleIs DEF InsertedBy
  <2> QED BY <1>2, <2>4
<1>4. CASE row[s] # None /\ Finish(w)
  <2>1. UNCHANGED <<row, made>>
    BY <1>4, <1>2, IdleIs DEF Register
  <2> QED BY <1>1, <1>2, <1>4, <2>1, GivesUp, CountersStand
<1>5. CASE row[s] # None /\ ~Finish(w)
  <2> DEFINE u == [task[w] EXCEPT !.step = "register_promote", !.id = row[s].id,
                                  !.gc_state = Settled(row[s].ref_count)]
  <2>1. task' = [task EXCEPT ![w] = u] /\ UNCHANGED <<row, made>>
    BY <1>2, <1>5 DEF Register
  <2>2. row[s].id \in 1 .. made[s] /\ row[s].id \in Ids
    BY <1>2, <1>5, RowIs DEF Ids
  <2>3. /\ u \in Tasks /\ u.step = "register_promote" /\ u.sha = s /\ u.id = row[s].id
        /\ u.gc_state \in {"active", "orphan"} /\ u.uri = task[w].uri
    BY <1>2, <2>2 DEF Tasks, Settled, Steps, GcStates
  <2>4. Known(u) /\ Present(u.sha, u.id)
    BY <1>2, <1>5, <2>2, <2>3 DEF Known, About, Present
  <2>5. u.uri # None => u.uri = row[u.sha].storage_uri
    BY <1>1, <1>2, <2>3 DEF Base, Known
  <2> HIDE DEF u
  <2>6. Starts(w, u)
    BY <1>1, <1>2, <2>1, <2>3, <2>4, <2>5, CountersStand DEF Starts
  <2> QED BY <2>3, <2>6 DEF Started
<1> QED BY <1>3, <1>4, <1>5

\* A memory takes the reference x for the one it has; the count of that one is
\* taken back if dropped says so.
Relinks(m, x, dropped) ==
    LET a == link[m] IN
    /\ x \in References \cup {None}
    /\ x # None => Present(x.sha, x.id) /\ Referable(row[x.sha])
    /\ dropped /\ a # None => Droppable(a) /\ a # x
    /\ ~dropped => x # None
    /\ link' = [link EXCEPT ![m] = x]
    /\ row' = [s \in Shas |->
                 IF x # None /\ s = x.sha THEN Incr(row[s])
                 ELSE IF dropped /\ a # None /\ Present(a.sha, a.id) /\ s = a.sha THEN Decr(row[s])
                 ELSE row[s]]
    /\ UNCHANGED <<made, object, phase, todo, failures, stops, puts>>

LEMMA LinkIs ==
    ASSUME Base, NEW m \in Memories, link[m] # None
    PROVE  /\ link[m] \in References /\ link[m].sha \in Shas /\ link[m].id \in Ids
           /\ link[m] = [sha |-> link[m].sha, id |-> link[m].id]
BY DEF Base, TypeOK, References

LEMMA ReferenceIs ==
    ASSUME Base, NEW s \in Shas, row[s] # None
    PROVE  /\ [sha |-> s, id |-> row[s].id] \in References
           /\ [sha |-> s, id |-> row[s].id] # None
           /\ Present(s, row[s].id)
BY RowIs, ValuesAssumption DEF References, Present

LEMMA AttachIs ==
    ASSUME Base, NEW m \in Memories, NEW s \in Shas, Attach(m, s)
    PROVE  /\ Relinks(m, [sha |-> s, id |-> row[s].id], TRUE)
           /\ UNCHANGED <<task, page>>
<1>1. /\ row[s] # None /\ Referable(row[s]) /\ row' = [row EXCEPT ![s] = Incr(row[s])]
      /\ row \in [Shas -> MediaRows \cup {None}] /\ link[m] = None
  BY DEF Attach, Base, TypeOK
<1>2. row' = [y \in Shas |-> IF y = s THEN Incr(row[y]) ELSE row[y]]
  BY <1>1
<1> DEFINE x == [sha |-> s, id |-> row[s].id]
<1>3. /\ x \in References /\ x # None /\ x.sha = s /\ Present(x.sha, x.id) /\ Referable(row[x.sha])
      /\ link' = [link EXCEPT ![m] = x]
      /\ UNCHANGED <<made, object, task, phase, todo, page, failures, stops, puts>>
  BY <1>1, ReferenceIs DEF Attach
<1> HIDE DEF x
<1>5. Relinks(m, x, TRUE)
  BY <1>1, <1>2, <1>3 DEF Relinks
<1> QED BY <1>3, <1>5 DEF x

LEMMA SwapIs ==
    ASSUME Base, NEW w \in Requests, NEW m \in Memories, NEW s \in Shas, Swap(w, m, s)
    PROVE  /\ Relinks(m, [sha |-> s, id |-> row[s].id], TRUE)
           /\ DutyAfter(w, link[m]) /\ link[m] # None /\ At(w, "idle") /\ UNCHANGED page
<1>1. /\ row[s] # None /\ Referable(row[s]) /\ link[m] # None
      /\ link[m] # [sha |-> s, id |-> row[s].id] /\ Droppable(link[m])
      /\ link' = [link EXCEPT ![m] = [sha |-> s, id |-> row[s].id]]
      /\ row' = Exchanged(link[m], s) /\ DutyAfter(w, link[m]) /\ At(w, "idle")
      /\ UNCHANGED <<made, object, phase, todo, failures, stops, puts, page>>
  BY DEF Swap
<1>2. row' = [y \in Shas |->
                 IF y = s THEN Incr(row[y])
                 ELSE IF Present(link[m].sha, link[m].id) /\ y = link[m].sha THEN Decr(row[y])
                 ELSE row[y]]
  BY <1>1 DEF Exchanged
<1> QED BY <1>1, <1>2, ReferenceIs DEF Relinks

LEMMA DetachIs ==
    ASSUME Base, NEW w \in Requests, NEW m \in Memories, Detach(w, m)
    PROVE  /\ Relinks(m, None, TRUE)
           /\ DutyAfter(w, link[m]) /\ link[m] # None /\ At(w, "idle") /\ UNCHANGED page
<1>1. /\ link[m] # None /\ Droppable(link[m]) /\ link' = [link EXCEPT ![m] = None]
      /\ IF Present(link[m].sha, link[m].id)
         THEN row' = [row EXCEPT ![link[m].sha] = Decr(row[link[m].sha])] ELSE UNCHANGED row
      /\ DutyAfter(w, link[m]) /\ At(w, "idle")
      /\ UNCHANGED <<made, object, phase, todo, failures, stops, puts, page>>
  BY DEF Detach
<1>2. row \in [Shas -> MediaRows \cup {None}]
  BY DEF Base, TypeOK
<1>3. row' = [y \in Shas |->
                 IF Present(link[m].sha, link[m].id) /\ y = link[m].sha THEN Decr(row[y])
                 ELSE row[y]]
  BY <1>1, <1>2
<1> QED BY <1>1, <1>3 DEF Relinks

LEMMA MigrateLinkIs ==
    ASSUME Base, NEW w \in Migrators, MigrateLink(w)
    PROVE  \/ Started(w)
           \/ /\ task[w].memory \in Memories
              /\ Relinks(task[w].memory, [sha |-> task[w].sha, id |-> task[w].id], FALSE)
              /\ Finish(w) /\ UNCHANGED page
<1>1. /\ task[w].step = "link" /\ w \in Workers /\ w \notin Sweepers /\ About(task[w])
      /\ task[w].memory \in Memories /\ task[w].sha \in Shas
  BY WorkersAre DEF MigrateLink, At, About, Base, Known
<1>2. CASE Mine(w) /\ Referable(MyRow(w))
  <2>1. /\ SetRow(w, Incr(MyRow(w))) /\ UNCHANGED page /\ Finish(w)
        /\ link' = [link EXCEPT ![task[w].memory] = [sha |-> task[w].sha, id |-> task[w].id]]
        /\ UNCHANGED <<made, object, phase, todo, failures, stops, puts>>
    BY <1>2 DEF MigrateLink
  <2>2. /\ row \in [Shas -> MediaRows \cup {None}] /\ MyRow(w) = row[task[w].sha]
        /\ row[task[w].sha] # None /\ row[task[w].sha].id = task[w].id
    BY <1>1, <1>2, MineIs DEF Base, TypeOK
  <2>3. row' = [y \in Shas |-> IF y = task[w].sha THEN Incr(row[y]) ELSE row[y]]
    BY <2>1, <2>2 DEF SetRow
  <2>4. Relinks(task[w].memory, [sha |-> task[w].sha, id |-> task[w].id], FALSE)
    BY <1>1, <1>2, <2>1, <2>2, <2>3, ReferenceIs DEF Relinks
  <2> QED BY <1>1, <2>1, <2>4
<1>3. CASE ~(Mine(w) /\ Referable(MyRow(w)))
  <2>1. /\ page' = [page EXCEPT ![w] = {}] /\ Finish(w)
        /\ UNCHANGED <<row, link, made, object, phase, todo, failures, stops, puts>>
    BY <1>3 DEF MigrateLink
  <2>2. page' \in [Migrators -> (SUBSET Memories) \cup {None}]
    BY <2>1, CountersStand
  <2> QED BY <1>1, <2>1, <2>2, GivesUp, CountersStand
<1> QED BY <1>2, <1>3

LEMMA MigrateInsertIs ==
    ASSUME Base, NEW w \in Migrators, NEW s \in Shas, MigrateInsert(w, s)
    PROVE  Started(w) \/ InsertedBy(w, s)
<1>1. /\ task[w].step = "insert" /\ w \in Workers /\ w \notin Sweepers
      /\ task[w].memory \in Memories /\ task[w].uri = None
      /\ task[w] \in Tasks /\ task \in [Workers -> Tasks]
      /\ UNCHANGED <<object, link, phase, todo, failures, stops, puts, page>>
  BY WorkersAre DEF MigrateInsert, At, Base, Known, TypeOK
<1>2. CASE row[s] = None
  <2> DEFINE i == made[s] + 1
             u == [task[w] EXCEPT !.step = "link", !.sha = s, !.id = i]
             r == FreshRow(s, "unresolvable", None)
  <2>1. Insert(s, r) /\ task' = [task EXCEPT ![w] = u] /\ made[s] < MaxRows
    BY <1>1, <1>2 DEF MigrateInsert, Insert
  <2>2. /\ r \in MediaRows /\ r.id = made[s] + 1 /\ r.ref_count = 0
        /\ r.gc_state = "unresolvable" /\ r.storage_uri = None
    BY <2>1, FreshIs DEF GcStates
  <2> HIDE DEF r
  <2>i. i \in Ids /\ i = made[s] + 1
    BY <2>1, FreshIs DEF GcStates
  <2> HIDE DEF i
  <2>3. /\ u \in Tasks /\ u.step = "link" /\ u.sha = s /\ u.id = i /\ u.uri = None
        /\ u.memory \in Memories
    BY <1>1, <2>i DEF Tasks, Steps
  <2> HIDE DEF u
  <2>4. Inserts(w, s, u, r)
    BY <1>1, <1>2, <2>1, <2>2, <2>3, <2>i DEF Inserts
  <2> QED BY <2>2, <2>3, <2>4 DEF InsertedBy
<1>3. CASE row[s] # None
  <2> DEFINE u == [task[w] EXCEPT !.step = "link", !.sha = s, !.id = row[s].id]
  <2>1. task' = [task EXCEPT ![w] = u] /\ UNCHANGED <<row, made>>
    BY <1>1, <1>3 DEF MigrateInsert
  <2>2. row[s].id \in 1 .. made[s] /\ row[s].id \in Ids
    BY <1>3, RowIs DEF Ids
  <2>3. /\ u \in Tasks /\ u.step = "link" /\ u.sha = s /\ u.id = row[s].id
        /\ u.uri = None /\ u.memory \in Memories
    BY <1>1, <2>2 DEF Tasks, Steps
  <2>4. Known(u) /\ Present(u.sha, u.id)
    BY <1>1, <1>3, <2>2, <2>3 DEF Known, About, Present
  <2> HIDE DEF u
  <2>5. Starts(w, u)
    BY <1>1, <2>1, <2>3, <2>4, CountersStand DEF Starts
  <2> QED BY <2>3, <2>5 DEF Started
<1> QED BY <1>2, <1>3

LEMMA MigrateMemoryIs ==
    ASSUME Base, NEW w \in Migrators, NEW m \in Memories, MigrateMemory(w, m)
    PROVE  Started(w)
<1> DEFINE u == [Idle EXCEPT !.step = "insert", !.memory = m]
<1>1. /\ task' = [task EXCEPT ![w] = u] /\ page' = [page EXCEPT ![w] = page[w] \ {m}]
      /\ page[w] # None /\ task[w].step = "idle"
      /\ UNCHANGED <<row, made, object, link, phase, todo, failures, stops, puts>>
  BY DEF MigrateMemory, At
<1>2. /\ u \in Tasks /\ u.step = "insert" /\ u.memory = m /\ u.uri = None
  BY IdleIs DEF Idle, Tasks, Steps
<1> HIDE DEF u
<1>3. Known(u) /\ ~About(u)
  BY <1>2 DEF Known, About
<1>4. page' \in [Migrators -> (SUBSET Memories) \cup {None}]
  BY <1>1, CountersStand
<1>5. Starts(w, u)
  BY <1>1, <1>2, <1>3, <1>4, CountersStand, WorkersAre DEF Starts
<1> QED BY <1>2, <1>5 DEF Started

-----------------------------------------------------------------------------
(* What a step may be.                                                     *)

\* Nothing but a page of a migration and the objects of clients change.
Aside ==
    /\ UNCHANGED <<row, made, link, task, phase, todo>>
    /\ page' \in [Migrators -> (SUBSET Memories) \cup {None}]
    /\ object' \in [Shas -> SUBSET Keys]
    /\ \A s \in Shas : object[s] \subseteq object'[s]
    /\ failures' \in 0 .. MaxFailures /\ stops' \in 0 .. MaxStops /\ puts' \in 0 .. MaxPuts

\* A reference is created, or exchanged by a request or a migration.
Attached == \E m \in Memories, s \in Shas : Attach(m, s)

Exchanging(w, m, x) ==
    /\ Relinks(m, x, TRUE) /\ DutyAfter(w, link[m])
    /\ link[m] # None /\ At(w, "idle") /\ UNCHANGED page

Migrated(w) ==
    /\ task[w].step = "link" /\ task[w].memory \in Memories
    /\ Relinks(task[w].memory, [sha |-> task[w].sha, id |-> task[w].id], FALSE)
    /\ Finish(w) /\ UNCHANGED page

Swept(g) ==
    \/ \E stale \in SUBSET Shas : SweepList(g, stale)
    \/ \E t \in todo[g] : SweepRow(g, t)
    \/ SweepStops(g)

LEMMA StepIs ==
    ASSUME Base, [Next]_vars
    PROVE  \/ Aside
           \/ \E w \in Workers : Effective(w) \/ Started(w)
           \/ \E w \in Workers, s \in Shas : InsertedBy(w, s)
           \/ \E m \in Memories, s \in Shas : Relinks(m, [sha |-> s, id |-> row[s].id], TRUE)
                                              /\ UNCHANGED <<task, page>>
           \/ \E w \in Requests, m \in Memories : \E x \in References \cup {None} :
                Exchanging(w, m, x)
           \/ \E w \in Migrators : Migrated(w)
           \/ \E g \in Sweepers : Swept(g)
<1>1. CASE UNCHANGED vars
  <2>1. Aside
    BY <1>1, CountersStand DEF Aside, vars, Base, TypeOK
  <2> QED BY <2>1
<1>2. ASSUME NEW s \in Shas, ClientPut(s) PROVE Aside
  <2>1. /\ object \in [Shas -> SUBSET Keys] /\ "external" \in Keys /\ puts \in Nat
        /\ object' = [object EXCEPT ![s] = @ \cup {"external"}]
        /\ puts' \in 0 .. MaxPuts
    BY <1>2, MediaAssumption DEF Base, TypeOK, Keys, ClientPut
  <2> QED BY <1>2, <2>1, CountersStand DEF ClientPut, Aside
<1>3. ASSUME NEW w \in Migrators, MigrateScan(w) PROVE Aside
  <2>1. page' \in [Migrators -> (SUBSET Memories) \cup {None}]
    BY <1>3, CountersStand DEF MigrateScan
  <2> QED BY <1>3, <2>1, CountersStand DEF MigrateScan, Aside, Base, TypeOK
<1>4. ASSUME NEW w \in Workers, w \notin Sweepers, ~At(w, "idle"), Finish(w),
             stops < MaxStops, stops' = stops + 1,
             UNCHANGED <<row, made, object, link, phase, todo, failures, puts>>,
             page' \in [Migrators -> (SUBSET Memories) \cup {None}]
      PROVE  Started(w)
  <2>1. stops' \in 0 .. MaxStops /\ stops' # stops
    BY <1>4, MediaAssumption DEF Base, TypeOK
  <2> QED BY <1>4, <2>1, GivesUp, CountersStand
<1>5. ASSUME NEW w \in Requests, Stops(w) PROVE Started(w)
  BY <1>4, <1>5, WorkersAre, CountersStand DEF Stops
<1>6. ASSUME NEW w \in Migrators, MigrateStops(w) PROVE Started(w)
  <2>1. page' \in [Migrators -> (SUBSET Memories) \cup {None}]
    BY <1>6, CountersStand DEF MigrateStops
  <2> QED BY <1>4, <1>6, <2>1, WorkersAre DEF MigrateStops
<1>7. ASSUME NEW g \in Sweepers, SweepSkips(g) PROVE OwnStep(g)
  BY <1>7 DEF SweepSkips, OwnStep, About
<1>8. ASSUME NEW w \in Requests, NEW s \in Shas, Delete(w, s) PROVE Started(w)
  BY <1>8, TakesUp, WorkersAre DEF Delete
<1>9. ASSUME NEW w \in Workers, OwnStep(w) PROVE Effective(w)
  BY <1>9, OwnStepIs
<1>10. ASSUME NEW w \in Requests,
              UploadStep(w) \/ CopyFails(w) \/ RegisterPromote(w) \/ DeleteStep(w)
       PROVE  OwnStep(w)
  BY <1>10 DEF UploadStep, OwnStep
<1>11. ASSUME NEW g \in Sweepers, DeleteStep(g) PROVE OwnStep(g)
  BY <1>11 DEF OwnStep
<1>12. ASSUME NEW g \in Sweepers, SweepStep(g), ~(\E t \in todo[g] : SweepRow(g, t))
       PROVE  OwnStep(g)
  BY <1>12 DEF SweepStep, OwnStep
<1>13. ASSUME NEW w \in Requests, NEW m \in Memories, Detach(w, m)
       PROVE  \E x \in References \cup {None} : Exchanging(w, m, x)
  BY <1>13, DetachIs DEF Exchanging
<1>14. ASSUME NEW w \in Requests, NEW m \in Memories, NEW s \in Shas, Swap(w, m, s)
       PROVE  \E x \in References \cup {None} : Exchanging(w, m, x)
  <2>1. [sha |-> s, id |-> row[s].id] \in References
    BY <1>14, ReferenceIs DEF Swap
  <2>2. Exchanging(w, m, [sha |-> s, id |-> row[s].id])
    BY <1>14, SwapIs DEF Exchanging
  <2> QED BY <2>1, <2>2
<1>15. ASSUME NEW w \in Migrators, MigrateLink(w)
       PROVE  Started(w) \/ Migrated(w)
  BY <1>15, MigrateLinkIs DEF Migrated, MigrateLink, At
<1>16. CASE Next
  BY <1>2, <1>3, <1>5, <1>6, <1>7, <1>8, <1>9, <1>10, <1>11, <1>12, <1>13, <1>14, <1>15, <1>16,
     UploadIs, HeadIs, RegisterIs, AttachIs, MigrateMemoryIs, MigrateInsertIs, WorkersAre
     DEF Next, Swept
<1> QED BY <1>1, <1>16

-----------------------------------------------------------------------------
(* Base is inductive.                                                      *)

\* The tasks stay as well.
LEMMA BaseStays ==
    ASSUME Base, UNCHANGED <<task, phase, todo>>,
           row' \in [Shas -> MediaRows \cup {None}], UNCHANGED made,
           object' \in [Shas -> SUBSET Keys], link' \in [Memories -> References \cup {None}],
           page' \in [Migrators -> (SUBSET Memories) \cup {None}],
           failures' \in 0 .. MaxFailures, stops' \in 0 .. MaxStops, puts' \in 0 .. MaxPuts,
           \A s \in Shas : row'[s] # None => row'[s].id = made'[s],
           \A m \in Memories : link'[m] # None => link'[m].id <= made'[link'[m].sha]
    PROVE  Base'
<1>1. TypeOK'
  BY DEF Base, TypeOK
<1>2. \A t : Known(t)' <=> Known(t)
  BY DEF Known
<1>3. \A m \in Memories : (link[m] # None => link[m].id <= made[link[m].sha])'
  OBVIOUS
<1>4. \A w \in Workers : Known(task[w])'
  BY <1>2 DEF Base
<1>5. \A w \in Workers \ Sweepers : task'[w].step \notin SweepSteps
  BY DEF Base
<1>6. ASSUME NEW g \in Sweepers, NEW t \in todo'[g]
      PROVE  /\ Known(t)' /\ About(t)
             /\ t.step = FirstStep[phase'[g]]
             /\ task'[g].step # "idle" => task'[g].sha # t.sha
             /\ \A u \in todo'[g] : u.sha = t.sha => u = t
  BY <1>2 DEF Base
<1> QED BY <1>1, <1>3, <1>4, <1>5, <1>6 DEF Base, About

LEMMA IncrIs ==
    ASSUME NEW r \in MediaRows
    PROVE  /\ Incr(r) \in MediaRows /\ Incr(r) # None /\ Incr(r).id = r.id
           /\ Incr(r).storage_uri = r.storage_uri /\ Incr(r).ref_count = r.ref_count + 1
           /\ Incr(r).gc_state = r.gc_state
              \/ (r.gc_state = "orphan" /\ r.storage_uri # None /\ Incr(r).gc_state = "active")
           /\ r.gc_state = "orphan" /\ r.storage_uri # None => Incr(r).gc_state = "active"
<1> DEFINE gc == IF r.gc_state = "orphan" /\ r.storage_uri # None THEN "active" ELSE r.gc_state
<1>1. r.ref_count \in Nat /\ r.gc_state \in GcStates /\ "active" \in GcStates
  BY DEF MediaRows, GcStates
<1>2. gc \in GcStates /\ r.ref_count + 1 \in Nat
  BY <1>1
<1>3. Incr(r) = [r EXCEPT !.ref_count = r.ref_count + 1, !.gc_state = gc]
  BY DEF Incr, MediaRows
<1> HIDE DEF gc
<1>4. /\ Incr(r) \in MediaRows /\ Incr(r).id = r.id /\ Incr(r).storage_uri = r.storage_uri
      /\ Incr(r).ref_count = r.ref_count + 1 /\ Incr(r).gc_state = gc
  BY <1>2, <1>3 DEF MediaRows
<1> QED BY <1>4, ValuesAssumption DEF gc

LEMMA DecrIs ==
    ASSUME NEW r \in MediaRows, r.ref_count > 0
    PROVE  /\ Decr(r) \in MediaRows /\ Decr(r) # None /\ Decr(r).id = r.id
           /\ Decr(r).storage_uri = r.storage_uri /\ Decr(r).ref_count = r.ref_count - 1
           /\ LastReference(r) => Decr(r).gc_state = "deleting" /\ Decr(r).ref_count = 0
           /\ ~LastReference(r) => Decr(r).gc_state = r.gc_state
<1> DEFINE gc == IF LastReference(r) THEN "deleting" ELSE r.gc_state
<1>1. /\ r.ref_count \in Nat /\ r.gc_state \in GcStates /\ "deleting" \in GcStates
      /\ LastReference(r) => r.ref_count = 1
  BY DEF MediaRows, GcStates, LastReference
<1>2. gc \in GcStates /\ r.ref_count - 1 \in Nat /\ (LastReference(r) => r.ref_count - 1 = 0)
  BY <1>1
<1>3. Decr(r) = [r EXCEPT !.ref_count = r.ref_count - 1, !.gc_state = gc]
  BY DEF Decr, MediaRows
<1>4. /\ LastReference(r) => gc = "deleting"
      /\ ~LastReference(r) => gc = r.gc_state
  OBVIOUS
<1> HIDE DEF gc
<1>5. /\ Decr(r) \in MediaRows /\ Decr(r).id = r.id /\ Decr(r).storage_uri = r.storage_uri
      /\ Decr(r).ref_count = r.ref_count - 1 /\ Decr(r).gc_state = gc
  BY <1>2, <1>3 DEF MediaRows
<1> QED BY <1>2, <1>4, <1>5, ValuesAssumption

\* The rows when a memory changes its reference.
LEMMA RelinkedRows ==
    ASSUME Base, NEW m \in Memories, NEW x, NEW dropped \in BOOLEAN, Relinks(m, x, dropped)
    PROVE  /\ row' \in [Shas -> MediaRows \cup {None}]
           /\ \A s \in Shas : /\ row'[s] = None <=> row[s] = None
                              /\ row[s] # None => /\ row'[s].id = row[s].id
                                                  /\ row'[s].storage_uri = row[s].storage_uri
           /\ link' \in [Memories -> References \cup {None}]
           /\ \A n \in Memories : link'[n] # None => link'[n].id <= made'[link'[n].sha]
           /\ UNCHANGED made
<1>1. /\ row \in [Shas -> MediaRows \cup {None}] /\ link \in [Memories -> References \cup {None}]
      /\ x \in References \cup {None} /\ link' = [link EXCEPT ![m] = x] /\ UNCHANGED made
  BY DEF Base, TypeOK, Relinks
<1>2. ASSUME NEW s \in Shas
      PROVE  /\ row'[s] \in MediaRows \cup {None}
             /\ row'[s] = None <=> row[s] = None
             /\ row[s] # None => row'[s].id = row[s].id /\ row'[s].storage_uri = row[s].storage_uri
  <2>1. \/ row'[s] = row[s]
        \/ row[s] \in MediaRows /\ row'[s] = Incr(row[s])
        \/ row[s] \in MediaRows /\ row[s].ref_count > 0 /\ row'[s] = Decr(row[s])
    <3>1. row'[s] = IF x # None /\ s = x.sha THEN Incr(row[s])
                    ELSE IF dropped /\ link[m] # None /\ Present(link[m].sha, link[m].id)
                            /\ s = link[m].sha THEN Decr(row[s])
                    ELSE row[s]
      BY DEF Relinks
    <3>2. x # None => row[x.sha] # None
      BY DEF Relinks, Present
    <3>3. dropped /\ link[m] # None /\ Present(link[m].sha, link[m].id) =>
             row[link[m].sha] # None /\ row[link[m].sha].ref_count > 0
      BY DEF Relinks, Present, Droppable
    <3> QED BY <1>1, <3>1, <3>2, <3>3
  <2>2. CASE row'[s] = row[s]
    BY <1>1, <2>2
  <2>3. CASE row[s] \in MediaRows /\ row'[s] = Incr(row[s])
    BY <2>3, IncrIs, ValuesAssumption
  <2>4. CASE row[s] \in MediaRows /\ row[s].ref_count > 0 /\ row'[s] = Decr(row[s])
    BY <2>4, DecrIs, ValuesAssumption
  <2> QED BY <2>1, <2>2, <2>3, <2>4
<1>3. row' \in [Shas -> MediaRows \cup {None}]
  BY <1>2 DEF Relinks
<1>4. link' \in [Memories -> References \cup {None}]
  BY <1>1
<1>5. x # None => x.sha \in Shas /\ x.id = made[x.sha] /\ made[x.sha] \in Int
  BY <1>1, MediaAssumption DEF Relinks, Present, Base, TypeOK, References
<1>6. ASSUME NEW n \in Memories, link'[n] # None PROVE link'[n].id <= made'[link'[n].sha]
  <2>1. CASE n = m
    BY <1>1, <1>5, <1>6, <2>1
  <2>2. CASE n # m
    BY <1>1, <1>6, <2>2 DEF Base
  <2> QED BY <2>1, <2>2
<1> QED BY <1>1, <1>2, <1>3, <1>4, <1>6

LEMMA RelinksKeepsBase ==
    ASSUME Base, NEW m \in Memories, NEW x, NEW dropped \in BOOLEAN, Relinks(m, x, dropped),
           UNCHANGED page,
           \/ UNCHANGED task
           \/ \E w \in Workers : Finish(w)
           \/ \E w \in Requests : DutyAfter(w, link[m]) /\ link[m] # None
    PROVE  Base'
<1>1. /\ row' \in [Shas -> MediaRows \cup {None}]
      /\ \A s \in Shas : row'[s] # None => row'[s].id = made'[s]
      /\ \A s \in Shas : made[s] <= made'[s]
      /\ link' \in [Memories -> References \cup {None}]
      /\ \A n \in Memories : link'[n] # None => link'[n].id <= made'[link'[n].sha]
      /\ UNCHANGED made
  <2>1. \A s \in Shas : made[s] \in Int
    BY MediaAssumption DEF Base, TypeOK
  <2> QED BY <2>1, RelinkedRows DEF Base
<1>2. /\ made' \in [Shas -> 0 .. MaxRows] /\ object' \in [Shas -> SUBSET Keys]
      /\ page' \in [Migrators -> (SUBSET Memories) \cup {None}]
      /\ failures' \in 0 .. MaxFailures /\ stops' \in 0 .. MaxStops /\ puts' \in 0 .. MaxPuts
      /\ UNCHANGED <<phase, todo>>
  BY <1>1 DEF Relinks, Base, TypeOK
<1>3. CASE UNCHANGED task
  BY <1>1, <1>2, <1>3, BaseStays
<1>4. ASSUME NEW w \in Workers, NEW u \in Tasks, task' = [task EXCEPT ![w] = u], Known(u),
             u.step \notin SweepSteps, w \in Sweepers => u.step = "idle"
      PROVE  Base'
  <2>1. Known(u)'
    BY <1>1, <1>4 DEF Known, About
  <2> QED BY <1>1, <1>2, <1>4, <2>1, BaseGoesOn
<1>5. ASSUME NEW w \in Workers, Finish(w) PROVE Base'
  <2>1. "idle" \notin SweepSteps
    BY DEF SweepSteps
  <2> QED BY <1>4, <1>5, <2>1, IdleIs, IdleKnown DEF Finish
<1>6. ASSUME NEW w \in Requests, DutyAfter(w, link[m]), link[m] # None PROVE Base'
  <2> DEFINE s == link[m].sha
             u == TaskOn("erase", s)
  <2>1. CASE UNCHANGED task
    BY <1>3, <2>1
  <2>2. CASE ~UNCHANGED task
    <3>1. row[s] # None /\ task' = [task EXCEPT ![w] = u] /\ s \in Shas
      BY <1>6, <2>2, LinkIs DEF DutyAfter, Present
    <3>2. u \in Tasks /\ u.step = "erase" /\ u.sha = s /\ u.id \in 1 .. made[s]
      BY <3>1, TaskOnIs DEF Steps
    <3> HIDE DEF u
    <3>3. Known(u) /\ u.step \notin SweepSteps
      BY <3>1, <3>2 DEF Known, About, SweepSteps
    <3> QED BY <1>4, <3>1, <3>2, <3>3, WorkersAre
  <2> QED BY <2>1, <2>2
<1> QED BY <1>3, <1>5, <1>6

LEMMA ActualIs ==
    \A s, i : Referring(s, i) \subseteq Memories /\ IsFiniteSet(Referring(s, i))
              /\ Cardinality(Referring(s, i)) \in Nat
<1> SUFFICES ASSUME NEW s, NEW i
             PROVE  /\ Referring(s, i) \subseteq Memories /\ IsFiniteSet(Referring(s, i))
                    /\ Cardinality(Referring(s, i)) \in Nat
  OBVIOUS
<1>1. Referring(s, i) \subseteq Memories
  BY DEF Referring
<1>2. IsFiniteSet(Referring(s, i))
  BY <1>1, FS_Subset, ValuesAssumption
<1> QED BY <1>1, <1>2, FS_CardinalityType

LEMMA PhaseIs ==
    ASSUME NEW p \in Phases
    PROVE  /\ NextPhase[p] \in Phases /\ FirstStep[p] \in Steps
           /\ FirstStep[p] \notin {"idle", "insert", "register", "link", "promote", "register_promote"}
           /\ FirstStep[p] = "revert_deleting" <=> p = "deleting"
           /\ FirstStep[p] = "reconcile" <=> p = "desync"
           /\ FirstStep[p] = "reclaim" <=> p = "reservations"
           /\ FirstStep[p] = "recover" <=> p = "promoting"
           /\ FirstStep[p] = "claim_delete" <=> p = "orphans"
           /\ FirstStep[p] = "reclaim_failed" <=> p = "failed"
BY DEF Phases, NextPhase, FirstStep, Steps

\* What the sweep lists.
LEMMA SweepTaskIs ==
    ASSUME Base, NEW p \in Phases, NEW s \in Listed(p)
    PROVE  /\ s \in Shas /\ row[s] # None /\ InClass(p, row[s], Actual(s))
           /\ SweepTask(p, s) \in Tasks /\ SweepTask(p, s).step = FirstStep[p]
           /\ SweepTask(p, s).sha = s /\ SweepTask(p, s).id = row[s].id
           /\ SweepTask(p, s).uri = row[s].storage_uri
           /\ Known(SweepTask(p, s)) /\ About(SweepTask(p, s))
           /\ p = "desync" => /\ SweepTask(p, s).expected = row[s].ref_count
                              /\ SweepTask(p, s).actual = Actual(s)
<1>1. s \in Shas /\ row[s] # None /\ InClass(p, row[s], Actual(s))
  BY DEF Listed
<1>2. row[s].ref_count \in Nat /\ Actual(s) \in Nat
  BY <1>1, RowIs, ActualIs DEF Actual
<1> DEFINE t == TaskOn(FirstStep[p], s)
           e == IF p = "desync" THEN row[s].ref_count ELSE 0
           a == IF p = "desync" THEN Actual(s) ELSE 0
           u == SweepTask(p, s)
<1>3. /\ t \in Tasks /\ t.step = FirstStep[p] /\ t.sha = s /\ t.id = row[s].id
      /\ t.uri = row[s].storage_uri /\ t.id \in 1 .. made[s]
  BY <1>1, PhaseIs, TaskOnIs
<1>4. e \in Nat /\ a \in Nat /\ (p = "desync" => e = row[s].ref_count /\ a = Actual(s))
  BY <1>2
<1>5. u = [t EXCEPT !.expected = e, !.actual = a]
  BY DEF SweepTask
<1> HIDE DEF t, e, a
<1>6. /\ u \in Tasks /\ u.step = FirstStep[p] /\ u.sha = s /\ u.id = row[s].id
      /\ u.uri = row[s].storage_uri /\ u.expected = e /\ u.actual = a /\ u.id \in 1 .. made[s]
  BY <1>3, <1>4, <1>5 DEF Tasks
<1>7. p = "deleting" => row[s].storage_uri # None
  BY <1>1 DEF InClass
<1>8. Known(u) /\ About(u)
  BY <1>1, <1>6, <1>7, PhaseIs DEF Known, About
<1> QED BY <1>1, <1>4, <1>6, <1>8

LEMMA StaleIs ==
    ASSUME NEW p, NEW stale \in StaleChoices(p)
    PROVE  /\ stale \subseteq Listed(p)
           /\ p \notin {"failed", "desync"} /\ GraceCovers => \A s \in stale : ~Held(s)
BY DEF StaleChoices

\* A sweep lists a class, with a task for each row of it.
LEMMA SweepListIs ==
    ASSUME Base, NEW g \in Sweepers, NEW stale \in SUBSET Shas, SweepList(g, stale)
    PROVE  LET p == NextPhase[phase[g]] IN
           /\ p \in Phases /\ stale \in StaleChoices(p) /\ task[g].step = "idle"
           /\ phase' = [phase EXCEPT ![g] = p]
           /\ todo' = [todo EXCEPT ![g] = {SweepTask(p, s) : s \in stale}]
           /\ \A t \in todo'[g] : \E s \in stale : t = SweepTask(p, s)
           /\ UNCHANGED <<row, made, object, link, task, failures, stops, puts, page>>
<1>1. phase[g] \in Phases /\ todo \in [Sweepers -> SUBSET Tasks]
  BY DEF Base, TypeOK
<1> QED BY <1>1, PhaseIs DEF SweepList, At

LEMMA SweepListKeepsBase ==
    ASSUME Base, NEW g \in Sweepers, NEW stale \in SUBSET Shas, SweepList(g, stale)
    PROVE  Base'
<1> DEFINE p == NextPhase[phase[g]]
<1>1. /\ p \in Phases /\ stale \in StaleChoices(p) /\ task[g].step = "idle"
      /\ phase' = [phase EXCEPT ![g] = p]
      /\ todo' = [todo EXCEPT ![g] = {SweepTask(p, s) : s \in stale}]
      /\ \A t \in todo'[g] : \E s \in stale : t = SweepTask(p, s)
      /\ UNCHANGED <<row, made, object, link, task, failures, stops, puts, page>>
  BY SweepListIs
<1> HIDE DEF p
<1>2. \A s \in stale : /\ SweepTask(p, s) \in Tasks /\ SweepTask(p, s).step = FirstStep[p]
                       /\ SweepTask(p, s).sha = s
                       /\ Known(SweepTask(p, s)) /\ About(SweepTask(p, s))
  BY <1>1, StaleIs, SweepTaskIs
<1>3. /\ phase \in [Sweepers -> Phases] /\ todo \in [Sweepers -> SUBSET Tasks]
  BY DEF Base, TypeOK
<1>4. todo' \in [Sweepers -> SUBSET Tasks] /\ phase' \in [Sweepers -> Phases]
  BY <1>1, <1>2, <1>3
<1>5. TypeOK'
  BY <1>1, <1>4 DEF Base, TypeOK
<1>6. \A t : Known(t)' <=> Known(t)
  BY <1>1 DEF Known
<1>7. ASSUME NEW h \in Sweepers, NEW t \in todo'[h]
      PROVE  /\ Known(t)' /\ About(t)
             /\ t.step = FirstStep[phase'[h]]
             /\ task'[h].step # "idle" => task'[h].sha # t.sha
             /\ \A u \in todo'[h] : u.sha = t.sha => u = t
  <2>1. CASE h = g
    <3>1. phase'[g] = p
      BY <1>1, <1>3
    <3>2. \A u \in todo'[g] : u.sha \in stale /\ u = SweepTask(p, u.sha)
      BY <1>1, <1>2
    <3>3. t \in todo'[g]
      BY <2>1
    <3>4. task'[h].step = "idle"
      BY <1>1, <2>1
    <3> QED BY <1>2, <1>6, <2>1, <3>1, <3>2, <3>3, <3>4
  <2>2. CASE h # g
    <3>1. todo'[h] = todo[h] /\ phase'[h] = phase[h] /\ task' = task
      BY <1>1, <1>3, <2>2
    <3> QED BY <1>6, <1>7, <3>1 DEF Base
  <2> QED BY <2>1, <2>2
<1>8. \A w \in Workers : Known(task[w])'
  BY <1>1, <1>6 DEF Base
<1>9. \A s \in Shas : row'[s] # None => row'[s].id = made'[s]
  BY <1>1 DEF Base
<1>10. \A m \in Memories : link'[m] # None => link'[m].id <= made'[link'[m].sha]
  BY <1>1 DEF Base
<1>11. \A w \in Workers \ Sweepers : task'[w].step \notin SweepSteps
  BY <1>1 DEF Base
<1> QED BY <1>5, <1>7, <1>8, <1>9, <1>10, <1>11 DEF Base, About

\* A sweep takes up a row it listed, or ends.
LEMMA SweepRowIs ==
    ASSUME Base, NEW g \in Sweepers, NEW t \in todo[g], SweepRow(g, t)
    PROVE  /\ t \in Tasks /\ Known(t) /\ About(t) /\ task[g].step = "idle"
           /\ task' = [task EXCEPT ![g] = t] /\ todo' = [todo EXCEPT ![g] = todo[g] \ {t}]
           /\ \A w \in Workers \ {g} : task'[w] = task[w]
           /\ \A h \in Sweepers : todo'[h] \subseteq todo[h]
           /\ task'[g] = t /\ t \notin todo'[g]
           /\ UNCHANGED <<row, made, object, link, phase, failures, stops, puts, page>>
BY DEF Base, TypeOK, SweepRow, At, Workers

LEMMA SweepStopsIs ==
    ASSUME Base, NEW g \in Sweepers, SweepStops(g)
    PROVE  /\ task' = [task EXCEPT ![g] = Idle] /\ todo' = [todo EXCEPT ![g] = {}]
           /\ \A w \in Workers \ {g} : task'[w] = task[w]
           /\ \A h \in Sweepers : todo'[h] \subseteq todo[h]
           /\ task'[g] = Idle /\ todo'[g] = {}
           /\ phase' = [phase EXCEPT ![g] = "desync"]
           /\ stops \in Nat /\ stops' = stops + 1 /\ stops' \in 0 .. MaxStops
           /\ UNCHANGED <<row, made, object, link, failures, puts, page>>
<1>1. stops \in Nat /\ stops' = stops + 1 /\ stops' \in 0 .. MaxStops
  BY MediaAssumption DEF SweepStops, Base, TypeOK
<1> QED BY <1>1 DEF Base, TypeOK, SweepStops, Finish, Workers

LEMMA SweepGoesOnKeepsBase ==
    ASSUME Base, NEW g \in Sweepers, (\E t \in todo[g] : SweepRow(g, t)) \/ SweepStops(g)
    PROVE  Base'
<1>1. UNCHANGED <<row, made, object, link, page, failures, puts>>
  BY SweepRowIs, SweepStopsIs
<1>2. PICK u \in Tasks : /\ task' = [task EXCEPT ![g] = u] /\ Known(u)
                         /\ \A w \in Workers \ {g} : task'[w] = task[w]
                         /\ task'[g] = u
                         /\ \A h \in Sweepers : todo'[h] \subseteq todo[h]
                         /\ \/ u \in todo[g] /\ todo' = [todo EXCEPT ![g] = todo[g] \ {u}]
                               /\ UNCHANGED phase
                            \/ u.step = "idle" /\ todo' = [todo EXCEPT ![g] = {}]
                               /\ phase' = [phase EXCEPT ![g] = "desync"]
  BY SweepRowIs, SweepStopsIs, IdleIs, IdleKnown
<1>3. /\ phase \in [Sweepers -> Phases] /\ todo \in [Sweepers -> SUBSET Tasks]
      /\ task \in [Workers -> Tasks] /\ "desync" \in Phases
  BY DEF Base, TypeOK, Phases
<1>4. stops' \in 0 .. MaxStops
  BY SweepRowIs, SweepStopsIs, CountersStand
<1>5. todo' \in [Sweepers -> SUBSET Tasks] /\ phase' \in [Sweepers -> Phases]
      /\ task' \in [Workers -> Tasks]
  BY <1>2, <1>3
<1>6. TypeOK'
  BY <1>1, <1>4, <1>5 DEF Base, TypeOK
<1>7. \A t : Known(t)' <=> Known(t)
  BY <1>1 DEF Known
<1>8. ASSUME NEW h \in Sweepers, NEW t \in todo'[h]
      PROVE  /\ Known(t)' /\ About(t)
             /\ t.step = FirstStep[phase'[h]]
             /\ task'[h].step # "idle" => task'[h].sha # t.sha
             /\ \A x \in todo'[h] : x.sha = t.sha => x = t
  <2>1. t \in todo[h] /\ todo'[h] \subseteq todo[h]
    BY <1>2
  <2>2. CASE h = g
    <3>1. u \in todo[g] /\ todo'[g] = todo[g] \ {u} /\ UNCHANGED phase
      BY <1>2, <1>3, <2>2
    <3>2. t # u /\ t \in todo[g] /\ u \in todo[g]
      BY <2>2, <3>1
    <3>3. u.sha # t.sha
      BY <3>2 DEF Base
    <3> QED BY <1>2, <1>7, <2>1, <2>2, <3>1, <3>3 DEF Base
  <2>3. CASE h # g
    <3>1. todo'[h] = todo[h] /\ phase'[h] = phase[h] /\ task'[h] = task[h]
      BY <1>2, <1>3, <2>3 DEF Workers
    <3> QED BY <1>7, <2>1, <3>1 DEF Base
  <2> QED BY <2>2, <2>3
<1>9. \A w \in Workers : Known(task[w])'
  BY <1>2, <1>7 DEF Base
<1>10. /\ \A s \in Shas : row'[s] # None => row'[s].id = made'[s]
       /\ \A m \in Memories : link'[m] # None => link'[m].id <= made'[link'[m].sha]
  BY <1>1 DEF Base
<1>11. \A w \in Workers \ Sweepers : task'[w].step \notin SweepSteps
  BY <1>2 DEF Base
<1> QED BY <1>6, <1>8, <1>9, <1>10, <1>11 DEF Base, About

LEMMA EffectKeepsBase == ASSUME Base, NEW w \in Workers, Effective(w) PROVE Base'
<1>1. PICK u \in Tasks, r \in MediaRows \cup {None} : OwnEffect(w, u, r)
  BY DEF Effective
<1>2. w \notin Sweepers => u.step \notin SweepSteps
  BY <1>1 DEF OwnEffect, Base
<1>3. w \in Sweepers => u.step = "idle" \/ (task[w].step # "idle" /\ u.sha = task[w].sha)
  BY <1>1 DEF OwnEffect, About
<1> QED BY <1>1, <1>2, <1>3, MyRowIs, OwnRowKeepsBase DEF OwnEffect

LEMMA StartKeepsBase == ASSUME Base, NEW w \in Workers, Started(w) PROVE Base'
<1>1. PICK u \in Tasks : Starts(w, u)
  BY DEF Started
<1>2. /\ UNCHANGED <<row, made, object, link, phase, todo>> /\ w \notin Sweepers
      /\ task' = [task EXCEPT ![w] = u] /\ Known(u)
      /\ u.step \in {"idle", "claim", "claim_delete", "register", "register_promote", "insert", "link"}
      /\ page' \in [Migrators -> (SUBSET Memories) \cup {None}]
      /\ failures' \in 0 .. MaxFailures /\ stops' \in 0 .. MaxStops /\ puts' \in 0 .. MaxPuts
  BY <1>1 DEF Starts
<1>3. u.step \notin SweepSteps
  BY <1>2 DEF SweepSteps
<1>4. Known(u)'
  BY <1>2 DEF Known
<1>5. /\ \A s \in Shas : made[s] <= made'[s]
      /\ \A s \in Shas : row'[s] # None => row'[s].id = made'[s]
      /\ \A m \in Memories : link'[m] # None => link'[m].id <= made'[link'[m].sha]
  BY <1>2, MediaAssumption DEF Base, TypeOK
<1>6. /\ row' \in [Shas -> MediaRows \cup {None}] /\ made' \in [Shas -> 0 .. MaxRows]
      /\ object' \in [Shas -> SUBSET Keys] /\ link' \in [Memories -> References \cup {None}]
  BY <1>2 DEF Base, TypeOK
<1> QED BY <1>2, <1>3, <1>4, <1>5, <1>6, BaseGoesOn

LEMMA InsertKeepsBase ==
    ASSUME Base, NEW w \in Workers, NEW s \in Shas, InsertedBy(w, s) PROVE Base'
<1>1. PICK u \in Tasks, r \in MediaRows : Inserts(w, s, u, r)
  BY DEF InsertedBy
<1>2. /\ UNCHANGED <<object, link, phase, todo, page, failures, stops, puts>> /\ w \notin Sweepers
      /\ task' = [task EXCEPT ![w] = u] /\ Insert(s, r) /\ r.id = made[s] + 1
  BY <1>1 DEF Inserts
<1>3. /\ row' \in [Shas -> MediaRows \cup {None}]
      /\ made'[s] = made[s] + 1 /\ made'[s] \in 1 .. made'[s]
      /\ \A x \in Shas : row'[x] # None => row'[x].id = made'[x]
      /\ \A x \in Shas : made[x] <= made'[x]
      /\ made' \in [Shas -> 0 .. MaxRows]
  BY <1>2, Inserted
<1>4. u.step \notin SweepSteps
  BY <1>1, IdleIs DEF Inserts, SweepSteps
<1>5. Known(u)'
  BY <1>1, <1>3, IdleIs DEF Inserts, Known, About
<1>6. /\ link' \in [Memories -> References \cup {None}]
      /\ \A m \in Memories : link'[m] # None => link'[m].id <= made'[link'[m].sha]
  BY <1>2, <1>3, LinksStand
<1>7. /\ object' \in [Shas -> SUBSET Keys] /\ page' \in [Migrators -> (SUBSET Memories) \cup {None}]
      /\ failures' \in 0 .. MaxFailures /\ stops' \in 0 .. MaxStops /\ puts' \in 0 .. MaxPuts
  BY <1>2 DEF Base, TypeOK
<1> QED BY <1>2, <1>3, <1>4, <1>5, <1>6, <1>7, BaseGoesOn

LEMMA BaseIsInductive == ASSUME Base, [Next]_vars PROVE Base'
<1>1. CASE Aside
  <2>1. UNCHANGED <<row, made, link, task, phase, todo>>
    BY <1>1 DEF Aside
  <2>2. /\ row' \in [Shas -> MediaRows \cup {None}] /\ link' \in [Memories -> References \cup {None}]
        /\ \A s \in Shas : row'[s] # None => row'[s].id = made'[s]
        /\ \A m \in Memories : link'[m] # None => link'[m].id <= made'[link'[m].sha]
    BY <2>1 DEF Base, TypeOK
  <2> QED BY <1>1, <2>1, <2>2, BaseStays DEF Aside
<1>2. ASSUME NEW w \in Requests, NEW m \in Memories, NEW x \in References \cup {None},
             Exchanging(w, m, x)
      PROVE  Base'
  BY <1>2, RelinksKeepsBase DEF Exchanging
<1>3. ASSUME NEW w \in Migrators, Migrated(w) PROVE Base'
  BY <1>3, RelinksKeepsBase, WorkersAre DEF Migrated
<1>4. ASSUME NEW m \in Memories, NEW s \in Shas, UNCHANGED <<task, page>>,
             Relinks(m, [sha |-> s, id |-> row[s].id], TRUE)
      PROVE  Base'
  BY <1>4, RelinksKeepsBase
<1>5. ASSUME NEW g \in Sweepers, Swept(g) PROVE Base'
  BY <1>5, SweepListKeepsBase, SweepGoesOnKeepsBase DEF Swept
<1> QED BY <1>1, <1>2, <1>3, <1>4, <1>5, StepIs, EffectKeepsBase, StartKeepsBase, InsertKeepsBase

LEMMA BaseInitially == Init => Base
<1> SUFFICES ASSUME Init PROVE Base
  OBVIOUS
<1>1. TypeOK
  <2>1. row \in [Shas -> MediaRows \cup {None}] /\ link \in [Memories -> References \cup {None}]
    BY DEF Init
  <2>5. object \in [Shas -> SUBSET Keys]
    <3>1. {} \in SUBSET Keys /\ object = [s \in Shas |-> {}]
      BY DEF Init
    <3> QED BY <3>1
  <2>6. page \in [Migrators -> (SUBSET Memories) \cup {None}]
    BY DEF Init
  <2>2. task \in [Workers -> Tasks] /\ todo \in [Sweepers -> SUBSET Tasks]
    BY IdleIs DEF Init
  <2>3. phase \in [Sweepers -> Phases]
    BY DEF Init, Phases
  <2>4. /\ made \in [Shas -> 0 .. MaxRows] /\ failures \in 0 .. MaxFailures
        /\ stops \in 0 .. MaxStops /\ puts \in 0 .. MaxPuts
    BY MediaAssumption DEF Init
  <2> QED BY <2>1, <2>2, <2>3, <2>4, <2>5, <2>6 DEF TypeOK
<1>2. ~About(Idle) /\ Idle.step = "idle" /\ Known(Idle) /\ "idle" \notin SweepSteps
  BY IdleIs, IdleKnown DEF About, SweepSteps
<1>3. /\ \A s \in Shas : row[s] = None
      /\ \A m \in Memories : link[m] = None
      /\ \A w \in Workers : task[w] = Idle
      /\ \A g \in Sweepers : todo[g] = {}
  BY DEF Init
<1> QED BY <1>1, <1>2, <1>3 DEF Base

\* The variables keep their types: every id that is given out is new and
\* within its bound, and what a sweep writes as a count is a natural number.
THEOREM TypeCorrect == Spec => []TypeOK
<1>1. Spec => []Base
  BY BaseInitially, BaseIsInductive, PTL DEF Spec
<1>2. Base => TypeOK
  BY DEF Base
<1> QED BY <1>1, <1>2, PTL

-----------------------------------------------------------------------------
(* The counts cover the references.                                        *)

LEMMA OneMember ==
    ASSUME NEW A, NEW m, IsFiniteSet(A)
    PROVE  /\ Cardinality(A) \in Nat
           /\ Cardinality(A \cup {m}) \in Nat
           /\ Cardinality(A \cup {m}) <= Cardinality(A) + 1
           /\ m \in A => Cardinality(A \cup {m}) = Cardinality(A)
           /\ m \in A => Cardinality(A \ {m}) = Cardinality(A) - 1
           /\ m \notin A => Cardinality(A \ {m}) = Cardinality(A)
           /\ Cardinality(A \ {m}) \in Nat
<1>1. IsFiniteSet(A \ {m})
  BY FS_RemoveElement
<1> QED BY <1>1, FS_CardinalityType, FS_AddElement, FS_RemoveElement

Reference(s, i) == [sha |-> s, id |-> i]

Count(s, i) == Cardinality(Referring(s, i))

\* The memories that refer to a row, when one memory is given the reference x.
LEMMA ReferringChanges ==
    ASSUME Base, NEW m \in Memories, NEW x, link' = [link EXCEPT ![m] = x], NEW s, NEW i
    PROVE  /\ Count(s, i) \in Nat /\ Count(s, i)' \in Nat
           /\ Count(s, i)' <= Count(s, i) + 1
           /\ x # Reference(s, i) => Count(s, i)' <= Count(s, i)
           /\ link[m] = Reference(s, i) /\ x # Reference(s, i) => Count(s, i)' = Count(s, i) - 1
           /\ link[m] = Reference(s, i) => Count(s, i)' <= Count(s, i)
<1> DEFINE A == Referring(s, i)
           B == Referring(s, i)'
<1>1. /\ A = {k \in Memories : link[k] = Reference(s, i)}
      /\ B = {k \in Memories : link'[k] = Reference(s, i)}
  BY DEF Referring, Reference
<1>2. \A k \in Memories : link'[k] = IF k = m THEN x ELSE link[k]
  BY DEF Base, TypeOK
<1>3. IsFiniteSet(A) /\ Count(s, i) = Cardinality(A) /\ Count(s, i)' = Cardinality(B)
  BY ActualIs DEF Count
<1> HIDE DEF A, B
<1>4. CASE x = Reference(s, i)
  <2>1. B = A \cup {m}
    BY <1>1, <1>2, <1>4
  <2>2. m \in A <=> link[m] = Reference(s, i)
    BY <1>1
  <2>3. /\ Cardinality(A) \in Nat
        /\ Cardinality(A \cup {m}) \in Nat
        /\ Cardinality(A \cup {m}) <= Cardinality(A) + 1
        /\ m \in A => Cardinality(A \cup {m}) = Cardinality(A)
    BY <1>3, OneMember
  <2>4. /\ Cardinality(A) \in Nat
        /\ Cardinality(B) \in Nat
        /\ Cardinality(B) <= Cardinality(A) + 1
        /\ m \in A => Cardinality(B) = Cardinality(A)
    BY <2>1, <2>3
  <2> QED BY <1>3, <1>4, <2>2, <2>4
<1>5. CASE x # Reference(s, i)
  <2>1. B = A \ {m} /\ (m \in A <=> link[m] = Reference(s, i))
    BY <1>1, <1>2, <1>5
  <2>3. /\ Cardinality(A) \in Nat
        /\ Cardinality(A \ {m}) \in Nat
        /\ m \in A => Cardinality(A \ {m}) = Cardinality(A) - 1
        /\ m \notin A => Cardinality(A \ {m}) = Cardinality(A)
    BY <1>3, OneMember
  <2>4. /\ Cardinality(A) \in Nat
        /\ Cardinality(B) \in Nat
        /\ m \in A => Cardinality(B) = Cardinality(A) - 1
        /\ m \notin A => Cardinality(B) = Cardinality(A)
    BY <2>1, <2>3
  <2> QED BY <1>3, <1>5, <2>1, <2>4
<1> QED BY <1>4, <1>5

\* Nobody refers to a row whose count is zero.
LEMMA ZeroIsUnreferenced ==
    ASSUME Base, Counted, NEW s \in Shas, row[s] # None, row[s].ref_count = 0
    PROVE  \A m \in Memories : link[m] # None => link[m].sha # s
<1> SUFFICES ASSUME NEW m \in Memories, link[m] # None, link[m].sha = s
             PROVE  FALSE
  OBVIOUS
<1>1. Present(s, link[m].id)
  BY DEF Counted
<1>2. link[m] = [sha |-> s, id |-> row[s].id]
  BY <1>1, LinkIs DEF Present
<1>3. m \in Referring(s, row[s].id)
  BY <1>2 DEF Referring
<1>4. Actual(s) <= 0 /\ Actual(s) \in Nat
  BY ActualIs DEF Counted, CountCovers, Actual
<1>5. Referring(s, row[s].id) = {}
  BY <1>4, ActualIs, FS_EmptySet DEF Actual
<1> QED BY <1>3, <1>5

\* A memory that changes its reference does not narrow the gap between the
\* count of a row and its references.
LEMMA RelinkedCounts ==
    ASSUME Base, Counted, NEW m \in Memories, NEW x, NEW dropped \in BOOLEAN,
           Relinks(m, x, dropped), NEW s \in Shas, row[s] # None
    PROVE  /\ row'[s] # None /\ row'[s].id = row[s].id
           /\ row'[s].ref_count \in Nat /\ Actual(s)' \in Nat
           /\ row[s].ref_count \in Nat /\ Actual(s) \in Nat
           /\ row'[s].ref_count - Actual(s)' >= row[s].ref_count - Actual(s)
           /\ ~Referable(row'[s]) => row'[s].ref_count = 0
<1>0. PICK i \in Ids : i = row[s].id
  BY RowIs
<1> DEFINE r == Reference(s, i)
           c == row[s].ref_count
           c1 == row'[s].ref_count
           n == Count(s, i)
           n1 == Count(s, i)'
<1>1. /\ row'[s] # None /\ row'[s].id = i /\ row'[s] \in MediaRows /\ row[s] \in MediaRows
  BY <1>0, RelinkedRows, RowIs
<1>2. Actual(s) = n /\ Actual(s)' = n1
  BY <1>0, <1>1 DEF Actual, Count
<1>3. /\ n \in Nat /\ n1 \in Nat
      /\ n1 <= n + 1
      /\ x # r => n1 <= n
      /\ link[m] = r /\ x # r => n1 = n - 1
      /\ link[m] = r => n1 <= n
  BY ReferringChanges DEF Relinks
<1>4. c \in Nat /\ c1 \in Nat
  BY <1>1 DEF MediaRows
<1>5. ~Referable(row[s]) => c = 0
  BY DEF Counted
<1>6. row'[s] = IF x # None /\ s = x.sha THEN Incr(row[s])
                ELSE IF dropped /\ link[m] # None /\ Present(link[m].sha, link[m].id)
                        /\ s = link[m].sha THEN Decr(row[s])
                ELSE row[s]
  BY DEF Relinks
<1>7. CASE x # None /\ s = x.sha
  <2>1. Referable(row[s]) /\ row'[s] = Incr(row[s])
    BY <1>6, <1>7 DEF Relinks
  <2>2. c1 = c + 1 /\ Referable(row'[s])
    BY <1>1, <2>1, IncrIs DEF Referable
  <2> QED BY <1>0, <1>1, <1>2, <1>3, <1>4, <2>2
<1>8. CASE ~(x # None /\ s = x.sha) /\ dropped /\ link[m] # None
           /\ Present(link[m].sha, link[m].id) /\ s = link[m].sha
  <2>1. row'[s] = Decr(row[s]) /\ c > 0
    BY <1>6, <1>8 DEF Relinks, Droppable
  <2>2. link[m] = r /\ x # r
    BY <1>0, <1>8, LinkIs DEF Present, Reference, Relinks
  <2>3. c1 = c - 1
    BY <1>1, <2>1, DecrIs
  <2>4. ~Referable(row'[s]) => c1 = 0
    BY <1>1, <1>4, <1>5, <2>1, DecrIs DEF Referable
  <2> HIDE DEF n, n1, c, c1, r
  <2>5. c1 - n1 >= c - n
    BY <1>3, <1>4, <2>2, <2>3
  <2> QED BY <1>0, <1>1, <1>2, <1>3, <1>4, <2>4, <2>5 DEF c, c1
<1>9. CASE ~(x # None /\ s = x.sha) /\ ~(dropped /\ link[m] # None
           /\ Present(link[m].sha, link[m].id) /\ s = link[m].sha)
  <2>1. row'[s] = row[s]
    BY <1>6, <1>9
  <2>2. x # r
    BY <1>0, <1>9, ReferenceIs DEF Reference
  <2> QED BY <1>0, <1>1, <1>2, <1>3, <1>4, <1>5, <2>1, <2>2
<1> QED BY <1>7, <1>8, <1>9

LEMMA CountedStays ==
    ASSUME Counted, UNCHANGED <<row, link>>,
           \A w \in Workers : Covers(task'[w]),
           \A g \in Sweepers : \A t \in todo'[g] : Covers(t)
    PROVE  Counted'
<1>1. \A t : Covers(t)' <=> Covers(t)
  BY DEF Covers, Present, Actual, Referring
<1>2. CountCovers'
  BY DEF Counted, CountCovers, Actual, Referring
<1>3. \A m \in Memories : link'[m] # None => Present(link[m].sha, link[m].id)'
  BY DEF Counted, Present
<1>4. \A w \in Workers : Covers(task[w])'
  <2> SUFFICES ASSUME NEW w \in Workers PROVE Covers(task[w])'
    OBVIOUS
  <2>1. Covers(task'[w])
    OBVIOUS
  <2> QED BY <2>1 DEF Covers, Present, Actual, Referring
<1>5. \A g \in Sweepers : \A t \in todo'[g] : Covers(t)'
  BY <1>1
<1>6. \A s \in Shas : row'[s] # None /\ ~Referable(row'[s]) => row'[s].ref_count = 0
  BY DEF Counted
<1> QED BY <1>2, <1>3, <1>4, <1>5, <1>6 DEF Counted

LEMMA NotReconciling == \A t : t.step # "reconcile" => Covers(t)
BY DEF Covers

LEMMA StartKeepsCounted == ASSUME Base, Counted, NEW w \in Workers, Started(w) PROVE Counted'
<1>1. PICK u \in Tasks : Starts(w, u)
  BY DEF Started
<1>2. /\ UNCHANGED <<row, link, todo>> /\ task' = [task EXCEPT ![w] = u] /\ u.step # "reconcile"
  BY <1>1 DEF Starts
<1>3. Covers(u)
  BY <1>2, NotReconciling
<1>4. \A v \in Workers : task'[v] = IF v = w THEN u ELSE task[v]
  BY <1>2, TaskIs
<1>5. \A v \in Workers : Covers(task'[v])
  BY <1>3, <1>4 DEF Counted
<1> QED BY <1>2, <1>5, CountedStays DEF Counted

LEMMA SweptKeepsCounted == ASSUME Base, Counted, NEW g \in Sweepers, Swept(g) PROVE Counted'
<1>1. CASE \E t \in todo[g] : SweepRow(g, t)
  <2>1. PICK t \in todo[g] : SweepRow(g, t)
    BY <1>1
  <2>2. /\ UNCHANGED <<row, link>> /\ task'[g] = t /\ \A w \in Workers \ {g} : task'[w] = task[w]
        /\ \A h \in Sweepers : todo'[h] \subseteq todo[h]
    BY <2>1, SweepRowIs
  <2>3. \A w \in Workers : Covers(task'[w])
    BY <2>2 DEF Counted
  <2> QED BY <2>2, <2>3, CountedStays DEF Counted
<1>2. CASE SweepStops(g)
  <2>1. /\ UNCHANGED <<row, link>> /\ task'[g] = Idle /\ \A w \in Workers \ {g} : task'[w] = task[w]
        /\ \A h \in Sweepers : todo'[h] \subseteq todo[h]
    BY <1>2, SweepStopsIs
  <2>2. Covers(Idle)
    BY IdleIs, NotReconciling
  <2>3. \A w \in Workers : Covers(task'[w])
    BY <2>1, <2>2 DEF Counted
  <2> QED BY <2>1, <2>3, CountedStays DEF Counted
<1>3. CASE \E stale \in SUBSET Shas : SweepList(g, stale)
  <2>1. PICK stale \in SUBSET Shas : SweepList(g, stale)
    BY <1>3
  <2> DEFINE p == NextPhase[phase[g]]
  <2>2. /\ p \in Phases /\ stale \in StaleChoices(p)
        /\ todo' = [todo EXCEPT ![g] = {SweepTask(p, s) : s \in stale}]
        /\ \A t \in todo'[g] : \E s \in stale : t = SweepTask(p, s)
        /\ UNCHANGED <<row, link, task>>
    BY <2>1, SweepListIs
  <2> HIDE DEF p
  <2>3. ASSUME NEW s \in stale PROVE Covers(SweepTask(p, s))
    <3>1. s \in Listed(p)
      BY <2>2, StaleIs
    <3>2. /\ SweepTask(p, s).step = FirstStep[p] /\ SweepTask(p, s).sha = s
          /\ p = "desync" => /\ SweepTask(p, s).expected = row[s].ref_count
                             /\ SweepTask(p, s).actual = Actual(s)
          /\ s \in Shas /\ row[s] # None
      BY <2>2, <3>1, SweepTaskIs
    <3>3. FirstStep[p] = "reconcile" => p = "desync"
      BY <2>2, PhaseIs
    <3>4. row[s].ref_count \in Nat /\ Actual(s) \in Nat
      BY <3>2, RowIs, ActualIs DEF Actual
    <3> QED BY <3>2, <3>3, <3>4 DEF Covers
  <2>4. todo \in [Sweepers -> SUBSET Tasks]
    BY DEF Base, TypeOK
  <2>5. \A h \in Sweepers : \A t \in todo'[h] : Covers(t)
    <3> SUFFICES ASSUME NEW h \in Sweepers, NEW t \in todo'[h] PROVE Covers(t)
      OBVIOUS
    <3>1. CASE h = g
      BY <2>2, <2>3, <3>1
    <3>2. CASE h # g
      BY <2>2, <2>4, <3>2 DEF Counted
    <3> QED BY <3>1, <3>2
  <2> QED BY <2>2, <2>5, CountedStays DEF Counted
<1> QED BY <1>1, <1>2, <1>3 DEF Swept

LEMMA AsideKeepsCounted == ASSUME Base, Counted, Aside PROVE Counted'
<1>1. UNCHANGED <<row, link, task, todo>>
  BY DEF Aside
<1> QED BY <1>1, CountedStays DEF Counted

\* A reference is given, exchanged or taken away.
LEMMA RelinksKeepsCounted ==
    ASSUME Base, Counted, NEW m \in Memories, NEW x, NEW dropped \in BOOLEAN, Relinks(m, x, dropped),
           \A w \in Workers : task'[w] = task[w] \/ task'[w].step # "reconcile"
    PROVE  Counted'
<1>1. ASSUME NEW s \in Shas, row[s] # None
      PROVE  /\ row'[s] # None /\ row'[s].id = row[s].id
             /\ row'[s].ref_count \in Nat /\ Actual(s)' \in Nat
             /\ row[s].ref_count \in Nat /\ Actual(s) \in Nat
             /\ row'[s].ref_count - Actual(s)' >= row[s].ref_count - Actual(s)
             /\ ~Referable(row'[s]) => row'[s].ref_count = 0
  BY <1>1, RelinkedCounts
<1>2. \A s \in Shas : row'[s] # None => row[s] # None
  BY RelinkedRows
<1>3. CountCovers'
  BY <1>1, <1>2 DEF Counted, CountCovers
<1>4. \A s \in Shas : row'[s] # None /\ ~Referable(row'[s]) => row'[s].ref_count = 0
  BY <1>1, <1>2
<1>5. ASSUME NEW n \in Memories, link'[n] # None PROVE Present(link[n].sha, link[n].id)'
  <2>1. /\ link' = [link EXCEPT ![m] = x] /\ link \in [Memories -> References \cup {None}]
        /\ x \in References \cup {None}
        /\ x # None => Present(x.sha, x.id)
    BY DEF Relinks, Base, TypeOK
  <2>2. PICK y \in References : y = link'[n]
    BY <1>5, <2>1
  <2>3. Present(y.sha, y.id) /\ y.sha \in Shas
    BY <1>5, <2>1, <2>2 DEF Counted, References
  <2>4. Present(y.sha, y.id)'
    BY <1>1, <2>3 DEF Present
  <2> QED BY <2>2, <2>4
<1>6. ASSUME NEW t \in Tasks, Covers(t), Known(t) PROVE Covers(t)'
  <2> SUFFICES ASSUME t.step = "reconcile", Present(t.sha, t.id)'
               PROVE  row'[t.sha].ref_count + t.actual >= Actual(t.sha)' + t.expected
    BY DEF Covers
  <2>1. t.sha \in Shas /\ t.actual \in Nat /\ t.expected \in Nat
    BY <1>6 DEF Known, About, Tasks
  <2>2. Present(t.sha, t.id) /\ row[t.sha] # None
    BY <1>1, <1>2, <2>1 DEF Present
  <2>3. row[t.sha].ref_count + t.actual >= Actual(t.sha) + t.expected
    BY <1>6, <2>2 DEF Covers
  <2> QED BY <1>1, <2>1, <2>2, <2>3
<1>7. \A w \in Workers : Covers(task[w])'
  <2> SUFFICES ASSUME NEW w \in Workers PROVE Covers(task[w])'
    OBVIOUS
  <2>1. CASE task'[w] = task[w]
    <3>1. PICK t \in Tasks : t = task[w]
      BY DEF Base, TypeOK
    <3>2. Covers(t) /\ Known(t)
      BY <3>1 DEF Counted, Base
    <3>3. Covers(t)'
      BY <1>6, <3>2
    <3> QED BY <2>1, <3>1, <3>3 DEF Covers
  <2>2. CASE task'[w].step # "reconcile"
    BY <2>2 DEF Covers
  <2> QED BY <2>1, <2>2
<1>8. \A g \in Sweepers : \A t \in todo'[g] : Covers(t)'
  <2>1. todo' = todo /\ todo \in [Sweepers -> SUBSET Tasks]
    BY DEF Relinks, Base, TypeOK
  <2> QED BY <1>6, <2>1 DEF Counted, Base
<1> QED BY <1>3, <1>4, <1>5, <1>7, <1>8 DEF Counted

\* What becomes of the count of a row that its worker writes.
LEMMA SettledCount ==
    ASSUME Base, Counted, NEW w \in Workers, About(task[w]), Mine(w),
           NEW u \in Tasks, NEW r \in MediaRows \cup {None}, Settles(task[w], u, MyRow(w), r)
    PROVE  /\ r = None => MyRow(w).ref_count = 0
           /\ r # None => /\ r.id = MyRow(w).id
                          /\ ~Referable(r) => r.ref_count = 0
                          /\ \/ r.ref_count = MyRow(w).ref_count
                             \/ /\ task[w].step = "reconcile"
                                /\ MyRow(w).ref_count = task[w].expected
                                /\ r.ref_count = task[w].actual
<1> DEFINE t == task[w]
           o == MyRow(w)
<1>1. /\ o \in MediaRows /\ o # None /\ Known(t)
      /\ ~Referable(o) => o.ref_count = 0
  BY MineIs, MyRowIs DEF Base, Counted
<1>2. t.step \in {"promote", "register_promote"} => t.gc_state \in {"active", "orphan"}
  BY <1>1 DEF Known
<1>t. t.actual \in Nat
  BY MyRowIs DEF Tasks
<1> HIDE DEF t, o
<1>3. Settles(t, u, o, r)
  BY DEF t, o
<1>4. \/ r = None /\ o.ref_count = 0
      \/ r = [o EXCEPT !.gc_state = "deleting"] /\ o.ref_count = 0
      \/ r = [o EXCEPT !.gc_state = "promoting"]
      \/ r = [o EXCEPT !.storage_uri = "final"] /\ o.gc_state = "orphan"
      \/ r = [o EXCEPT !.storage_uri = "final", !.gc_state = t.gc_state] /\ t.step = "promote"
      \/ r = [o EXCEPT !.storage_uri = "external", !.gc_state = t.gc_state]
         /\ t.step = "register_promote"
      \/ r = [o EXCEPT !.gc_state = "deleted_failed"] /\ o.gc_state = "deleting"
      \/ r = [o EXCEPT !.gc_state = "unresolvable"]
      \/ r = [o EXCEPT !.gc_state = "orphan"]
      \/ /\ r = [o EXCEPT !.ref_count = t.actual] /\ t.step = "reconcile"
         /\ o.ref_count = t.expected /\ o.gc_state \in {"active", "orphan"}
  BY <1>3 DEF Settles
<1>5. CASE r = None
  <2>1. o.ref_count = 0
    <3>1. \A gc \in GcStates, k \in Keys, n \in Nat :
            /\ [o EXCEPT !.gc_state = gc] \in MediaRows
            /\ [o EXCEPT !.storage_uri = k] \in MediaRows
            /\ [o EXCEPT !.storage_uri = k, !.gc_state = gc] \in MediaRows
            /\ [o EXCEPT !.ref_count = n] \in MediaRows
      BY <1>1 DEF MediaRows
    <3>2. /\ "deleting" \in GcStates /\ "promoting" \in GcStates /\ "deleted_failed" \in GcStates
          /\ "unresolvable" \in GcStates /\ "orphan" \in GcStates
          /\ "final" \in Keys /\ "external" \in Keys
          /\ t.step \in {"promote", "register_promote"} => t.gc_state \in GcStates
      BY <1>2 DEF GcStates, Keys
    <3>3. /\ [o EXCEPT !.gc_state = "promoting"] # None
          /\ [o EXCEPT !.gc_state = "deleted_failed"] # None
          /\ [o EXCEPT !.gc_state = "unresolvable"] # None
          /\ [o EXCEPT !.gc_state = "orphan"] # None
          /\ [o EXCEPT !.storage_uri = "final"] # None
          /\ [o EXCEPT !.ref_count = t.actual] # None
      BY <1>t, <3>1, <3>2, ValuesAssumption
    <3>4. t.step \in {"promote", "register_promote"} =>
            /\ [o EXCEPT !.storage_uri = "final", !.gc_state = t.gc_state] # None
            /\ [o EXCEPT !.storage_uri = "external", !.gc_state = t.gc_state] # None
      <4>1. SUFFICES ASSUME NEW gc \in GcStates
                     PROVE  /\ [o EXCEPT !.storage_uri = "final", !.gc_state = gc] # None
                            /\ [o EXCEPT !.storage_uri = "external", !.gc_state = gc] # None
        BY <3>2
      <4>2. /\ [o EXCEPT !.storage_uri = "final", !.gc_state = gc] \in MediaRows
            /\ [o EXCEPT !.storage_uri = "external", !.gc_state = gc] \in MediaRows
        BY <1>1, <3>2 DEF MediaRows
      <4> QED BY <4>2, ValuesAssumption
    <3> QED BY <1>4, <1>5, <3>3, <3>4
  <2> QED BY <1>5, <2>1 DEF o
<1>6. CASE r # None
  <2>1. /\ r.id = o.id
        /\ ~Referable(r) => r.ref_count = 0
        /\ \/ r.ref_count = o.ref_count
           \/ t.step = "reconcile" /\ o.ref_count = t.expected /\ r.ref_count = t.actual
    BY <1>1, <1>2, <1>4, <1>6 DEF MediaRows, Referable
  <2> QED BY <1>6, <2>1 DEF o, t
<1> QED BY <1>5, <1>6

\* A worker is not on its way to reconcile; only taking up a listed row is.
LEMMA NotToReconcile ==
    ASSUME NEW w \in Workers, NEW u \in Tasks, NEW r, Outcome(w, u, r)
    PROVE  u.step # "reconcile"
BY IdleIs DEF Outcome, GoesOn, Settles

\* A row is written by the worker on it.
LEMMA EffectKeepsCounted ==
    ASSUME Base, Counted, OneSweep, NEW w \in Workers, Effective(w) PROVE Counted'
<1>1. PICK u \in Tasks, r \in MediaRows \cup {None} : OwnEffect(w, u, r)
  BY DEF Effective
<1>2. /\ About(task[w]) /\ Outcome(w, u, r) /\ task' = [task EXCEPT ![w] = u]
      /\ row' = [row EXCEPT ![task[w].sha] = r]
      /\ UNCHANGED <<made, link, phase, todo>>
  BY <1>1 DEF OwnEffect, OwnRow
<1>3. PICK s \in Shas : s = task[w].sha
  BY <1>2, MyRowIs
<1>4. /\ MyRow(w) = row[s] /\ row \in [Shas -> MediaRows \cup {None}]
      /\ row = [row EXCEPT ![s] = MyRow(w)]
  BY <1>2, <1>3, MyRowIs DEF Base, TypeOK
<1>5. /\ Covers(u) /\ u.step # "reconcile"
  BY <1>2, NotToReconcile, NotReconciling
<1>6. \A v \in Workers : task'[v] = IF v = w THEN u ELSE task[v]
  BY <1>2, TaskIs
<1>7. CASE UNCHANGED row
  <2>1. \A v \in Workers : Covers(task'[v])
    BY <1>5, <1>6 DEF Counted
  <2> QED BY <1>2, <1>7, <2>1, CountedStays DEF Counted
<1>8. CASE ~UNCHANGED row
  <2>1. Mine(w) /\ Settles(task[w], u, MyRow(w), r)
    BY <1>2, <1>3, <1>4, <1>8 DEF Outcome
  <2>2. /\ row[s] # None /\ row[s].id = task[w].id
        /\ r = None => row[s].ref_count = 0
        /\ r # None => /\ r.id = row[s].id
                       /\ ~Referable(r) => r.ref_count = 0
                       /\ \/ r.ref_count = row[s].ref_count
                          \/ /\ task[w].step = "reconcile"
                             /\ row[s].ref_count = task[w].expected
                             /\ r.ref_count = task[w].actual
    BY <1>2, <1>3, <1>4, <2>1, MineIs, SettledCount
  <2>3. /\ row'[s] = r
        /\ \A x \in Shas : x # s => row'[x] = row[x]
    BY <1>2, <1>3, <1>4
  <2>4. \A x \in Shas : /\ row'[x] # None => row[x] # None /\ row'[x].id = row[x].id
    BY <2>2, <2>3
  <2>5. ASSUME NEW x \in Shas, row'[x] # None
        PROVE  /\ Actual(x)' = Actual(x) /\ Actual(x) \in Nat
               /\ row[x].ref_count \in Nat /\ row'[x].ref_count \in Nat
    <3>1. row'[x].id = row[x].id /\ row[x] # None
      BY <2>4, <2>5
    <3>2. PICK i : i = row[x].id
      OBVIOUS
    <3>3. Referring(x, i)' = Referring(x, i)
      BY <1>2 DEF Referring
    <3>4. Actual(x)' = Actual(x)
      BY <3>1, <3>2, <3>3 DEF Actual
    <3>5. row'[x] \in MediaRows
      BY <1>2, <1>3, <1>4, <2>5
    <3> QED BY <3>1, <3>4, <3>5, RowIs, ActualIs DEF Actual, MediaRows
  <2>6. ASSUME NEW x \in Shas, row'[x] # None PROVE row'[x].ref_count >= Actual(x)'
    <3>1. row[x].ref_count >= Actual(x)
      BY <2>4, <2>6 DEF Counted, CountCovers
    <3>2. CASE row'[x].ref_count = row[x].ref_count
      BY <2>5, <2>6, <3>1, <3>2
    <3>3. CASE row'[x].ref_count # row[x].ref_count
      <4>1. /\ x = s /\ task[w].step = "reconcile" /\ row[s].ref_count = task[w].expected
            /\ row'[s].ref_count = task[w].actual
        BY <2>2, <2>3, <2>6, <3>3
      <4>2. Covers(task[w]) /\ Present(task[w].sha, task[w].id)
        BY <1>3, <2>2 DEF Counted, Present
      <4>3. row[s].ref_count + task[w].actual >= Actual(s) + task[w].expected
        BY <1>3, <4>1, <4>2 DEF Covers
      <4> QED BY <2>5, <2>6, <4>1, <4>3
    <3> QED BY <3>2, <3>3
  <2>7. \A x \in Shas : row'[x] # None /\ ~Referable(row'[x]) => row'[x].ref_count = 0
    BY <2>2, <2>3 DEF Counted
  <2>8. ASSUME NEW m \in Memories, link'[m] # None PROVE Present(link[m].sha, link[m].id)'
    <3>1. PICK y \in References : y = link[m]
      BY <1>2, <2>8, LinkIs
    <3>2. link' = link /\ Present(y.sha, y.id) /\ y.sha \in Shas
      BY <1>2, <2>8, <3>1 DEF Counted, References
    <3>3. y.sha = s => r # None
      BY <1>2, <2>2, <2>8, <3>1, ZeroIsUnreferenced
    <3>4. Present(y.sha, y.id)'
      BY <2>2, <2>3, <3>2, <3>3 DEF Present
    <3> QED BY <3>1, <3>2, <3>4
  <2>9. ASSUME NEW t \in Tasks, Known(t), Covers(t), t.sha # s \/ t.step # "reconcile"
        PROVE  Covers(t)'
    <3>1. CASE t.step # "reconcile"
      BY <3>1 DEF Covers
    <3>2. CASE t.step = "reconcile" /\ t.sha # s
      <4>1. t.sha \in Shas /\ row'[t.sha] = row[t.sha]
        BY <2>3, <2>9, <3>2 DEF Known, About
      <4>2. row'[t.sha] # None => Actual(t.sha)' = Actual(t.sha)
        BY <2>5, <4>1
      <4> QED BY <2>9, <4>1, <4>2 DEF Covers, Present
    <3> QED BY <2>9, <3>1, <3>2
  <2>10. ASSUME NEW v \in Workers PROVE Covers(task[v])'
    <3>1. CASE v = w
      BY <1>5, <1>6, <3>1 DEF Covers
    <3>2. CASE v # w /\ task[v].step # "reconcile"
      BY <1>6, <3>2 DEF Covers
    <3>3. CASE v # w /\ task[v].step = "reconcile" /\ task[v].sha # s
      <4>1. PICK t \in Tasks : t = task[v]
        BY DEF Base, TypeOK
      <4>2. Covers(t)'
        BY <2>9, <3>3, <4>1 DEF Counted, Base
      <4> QED BY <1>6, <3>3, <4>1, <4>2 DEF Covers
    <3>4. CASE v # w /\ task[v].step = "reconcile" /\ task[v].sha = s
      <4>1. v \in Sweepers
        BY <3>4 DEF Base, SweepSteps
      <4>2. w \notin Sweepers
        BY <3>4, <4>1 DEF OneSweep
      <4>3. r # None => r.ref_count = row[s].ref_count
        BY <2>2, <4>2 DEF Base, SweepSteps
      <4>4. Covers(task[v]) /\ task'[v] = task[v]
        BY <1>6, <3>4 DEF Counted
      <4>5. row'[s] # None => /\ row'[s].ref_count = row[s].ref_count /\ Actual(s)' = Actual(s)
                              /\ row'[s].id = row[s].id
        BY <2>2, <2>3, <2>5, <4>3
      <4> QED BY <2>2, <3>4, <4>4, <4>5 DEF Covers, Present
    <3> QED BY <3>1, <3>2, <3>3, <3>4
  <2>11. ASSUME NEW g \in Sweepers, NEW t \in todo'[g] PROVE Covers(t)'
    <3>1. t \in todo[g] /\ t \in Tasks /\ Known(t) /\ Covers(t)
      BY <1>2, <2>11 DEF Base, TypeOK, Counted
    <3>2. CASE t.sha # s \/ t.step # "reconcile"
      BY <2>9, <3>1, <3>2
    <3>3. CASE t.sha = s /\ t.step = "reconcile"
      <4>1. w # g
        BY <1>2, <1>3, <3>1, <3>3 DEF Base, About
      <4>2. w \notin Sweepers
        BY <4>1 DEF OneSweep
      <4>3. r # None => r.ref_count = row[s].ref_count
        BY <2>2, <4>2 DEF Base, SweepSteps
      <4>5. row'[s] # None => /\ row'[s].ref_count = row[s].ref_count /\ Actual(s)' = Actual(s)
                              /\ row'[s].id = row[s].id
        BY <2>2, <2>3, <2>5, <4>3
      <4> QED BY <2>2, <3>1, <3>3, <4>5 DEF Covers, Present
    <3> QED BY <3>2, <3>3
  <2> QED BY <2>6, <2>7, <2>8, <2>10, <2>11 DEF Counted, CountCovers
<1> QED BY <1>7, <1>8

\* A row is inserted: nobody refers to its id yet.
LEMMA InsertKeepsCounted ==
    ASSUME Base, Counted, NEW w \in Workers, NEW s \in Shas, InsertedBy(w, s) PROVE Counted'
<1>1. PICK u \in Tasks, r \in MediaRows : Inserts(w, s, u, r)
  BY DEF InsertedBy
<1>2. /\ UNCHANGED <<link, todo>> /\ task' = [task EXCEPT ![w] = u]
      /\ Insert(s, r) /\ r.id = made[s] + 1 /\ r.ref_count = 0 /\ row[s] = None
      /\ u.step # "reconcile"
  BY <1>1, IdleIs DEF Inserts
<1>3. /\ row'[s] = r /\ \A x \in Shas \ {s} : row'[x] = row[x]
      /\ r # None /\ made[s] \in Nat
  BY <1>2, Inserted, ValuesAssumption, MediaAssumption DEF Base, TypeOK
<1>4. ASSUME NEW m \in Memories, link[m] # None
      PROVE  link[m].sha # s /\ link[m].sha \in Shas /\ Present(link[m].sha, link[m].id)
  BY <1>2, <1>4, LinkIs DEF Counted, Present
<1>5. ASSUME NEW x \in Shas, x # s, row[x] # None
      PROVE  Actual(x)' = Actual(x)
  <2>1. PICK i : i = row[x].id
    OBVIOUS
  <2>2. Referring(x, i)' = Referring(x, i)
    BY <1>2 DEF Referring
  <2> QED BY <1>3, <1>5, <2>1, <2>2 DEF Actual
<1>6. Actual(s)' = 0
  <2>1. PICK i : i = r.id
    OBVIOUS
  <2>2. Referring(s, i)' = {}
    <3>1. SUFFICES ASSUME NEW m \in Memories, link'[m] = [sha |-> s, id |-> i] PROVE FALSE
      BY DEF Referring
    <3>2. link[m] # None => link[m].sha # s
      BY <1>4
    <3>3. link[m] = [sha |-> s, id |-> i] /\ [sha |-> s, id |-> i] # None
      BY <1>2, <2>1, <3>1, ValuesAssumption DEF References, MediaRows
    <3> QED BY <3>2, <3>3
  <2>3. Actual(s)' = Cardinality(Referring(s, i)')
    BY <1>3, <2>1 DEF Actual
  <2> QED BY <2>2, <2>3, FS_EmptySet
<1>7. CountCovers'
  BY <1>2, <1>3, <1>5, <1>6 DEF Counted, CountCovers
<1>8. \A x \in Shas : row'[x] # None /\ ~Referable(row'[x]) => row'[x].ref_count = 0
  BY <1>2, <1>3 DEF Counted
<1>9. ASSUME NEW m \in Memories, link'[m] # None PROVE Present(link[m].sha, link[m].id)'
  <2>1. PICK y \in References : y = link[m]
    BY <1>2, <1>9, LinkIs
  <2>2. Present(y.sha, y.id) /\ y.sha \in Shas /\ y.sha # s /\ link' = link
    BY <1>2, <1>4, <1>9, <2>1
  <2>3. Present(y.sha, y.id)'
    BY <1>3, <2>2 DEF Present
  <2> QED BY <2>1, <2>2, <2>3
<1>10. ASSUME NEW t \in Tasks, Known(t), Covers(t) PROVE Covers(t)'
  <2>1. CASE t.step # "reconcile"
    BY <2>1 DEF Covers
  <2>2. CASE t.step = "reconcile" /\ t.sha # s
    <3>1. t.sha \in Shas /\ row'[t.sha] = row[t.sha]
      BY <1>3, <1>10, <2>2 DEF Known, About
    <3> QED BY <1>5, <1>10, <2>2, <3>1 DEF Covers, Present
  <2>3. CASE t.step = "reconcile" /\ t.sha = s
    <3>1. t.id \in 1 .. made[s]
      BY <1>10, <2>3 DEF Known, About
    <3>2. row'[t.sha].id # t.id
      BY <1>2, <1>3, <2>3, <3>1
    <3> QED BY <3>2 DEF Covers, Present
  <2> QED BY <2>1, <2>2, <2>3
<1>11. ASSUME NEW v \in Workers PROVE Covers(task[v])'
  <2>1. task'[v] = IF v = w THEN u ELSE task[v]
    BY <1>2, TaskIs
  <2>2. CASE v = w
    BY <1>2, <2>1, <2>2 DEF Covers
  <2>3. CASE v # w
    <3>1. PICK t \in Tasks : t = task[v]
      BY DEF Base, TypeOK
    <3>2. Covers(t)'
      BY <1>10, <3>1 DEF Base, Counted
    <3> QED BY <2>1, <2>3, <3>1, <3>2 DEF Covers
  <2> QED BY <2>2, <2>3
<1>12. ASSUME NEW g \in Sweepers, NEW t \in todo'[g] PROVE Covers(t)'
  BY <1>2, <1>10, <1>12 DEF Base, TypeOK, Counted
<1> QED BY <1>7, <1>8, <1>9, <1>11, <1>12 DEF Counted

\* The tasks after a handler has dropped a reference.
LEMMA DutyIs ==
    ASSUME Base, NEW w \in Workers, NEW m \in Memories, link[m] # None, DutyAfter(w, link[m])
    PROVE  \/ UNCHANGED task
           \/ LET s == link[m].sha
                  u == TaskOn("erase", s) IN
              /\ s \in Shas /\ Present(s, link[m].id) /\ row[s] # None /\ LastReference(row[s])
              /\ u \in Tasks /\ u.step = "erase" /\ u.sha = s /\ u.id = row[s].id
              /\ u.uri = row[s].storage_uri
              /\ task' = [task EXCEPT ![w] = u]
<1> DEFINE s == link[m].sha
<1>1. CASE ~(Present(s, link[m].id) /\ LastReference(row[s]))
  BY <1>1 DEF DutyAfter
<1>2. CASE Present(s, link[m].id) /\ LastReference(row[s])
  <2>1. /\ task' = [task EXCEPT ![w] = TaskOn("erase", s)] /\ row[s] # None /\ s \in Shas
        /\ "erase" \in Steps
    BY <1>2, LinkIs DEF DutyAfter, Present, Steps
  <2> QED BY <1>2, <2>1, TaskOnIs
<1> QED BY <1>1, <1>2

LEMMA CountedIsInductive == ASSUME Base, Counted, OneSweep, [Next]_vars PROVE Counted'
<1>1. ASSUME NEW w \in Workers, NEW u \in Tasks, task' = [task EXCEPT ![w] = u],
             u.step # "reconcile"
      PROVE  \A v \in Workers : task'[v] = task[v] \/ task'[v].step # "reconcile"
  BY <1>1, TaskIs
<1>2. ASSUME NEW w \in Requests, NEW m \in Memories, NEW x \in References \cup {None},
             Exchanging(w, m, x)
      PROVE  Counted'
  <2>1. Relinks(m, x, TRUE) /\ DutyAfter(w, link[m]) /\ link[m] # None /\ w \in Workers
    BY <1>2, WorkersAre DEF Exchanging
  <2>2. CASE UNCHANGED task
    BY <2>1, <2>2, RelinksKeepsCounted
  <2>3. CASE ~UNCHANGED task
    <3> DEFINE u == TaskOn("erase", link[m].sha)
    <3>1. u \in Tasks /\ u.step = "erase" /\ task' = [task EXCEPT ![w] = u]
      BY <2>1, <2>3, DutyIs
    <3> HIDE DEF u
    <3>2. \A v \in Workers : task'[v] = task[v] \/ task'[v].step # "reconcile"
      BY <1>1, <2>1, <3>1
    <3> QED BY <2>1, <3>2, RelinksKeepsCounted
  <2> QED BY <2>2, <2>3
<1>3. ASSUME NEW w \in Migrators, Migrated(w) PROVE Counted'
  <2>1. \A v \in Workers : task'[v] = task[v] \/ task'[v].step # "reconcile"
    BY <1>1, <1>3, IdleIs, WorkersAre DEF Migrated, Finish
  <2> QED BY <1>3, <2>1, RelinksKeepsCounted DEF Migrated
<1>4. ASSUME NEW m \in Memories, NEW s \in Shas, UNCHANGED <<task, page>>,
             Relinks(m, [sha |-> s, id |-> row[s].id], TRUE)
      PROVE  Counted'
  BY <1>4, RelinksKeepsCounted
<1> QED BY <1>2, <1>3, <1>4, StepIs, AsideKeepsCounted, EffectKeepsCounted, StartKeepsCounted,
           InsertKeepsCounted, SweptKeepsCounted

LEMMA CountedInitially == Init => Counted
<1> SUFFICES ASSUME Init PROVE Counted
  OBVIOUS
<1>1. /\ \A s \in Shas : row[s] = None
      /\ \A m \in Memories : link[m] = None
      /\ \A w \in Workers : task[w] = Idle
      /\ \A g \in Sweepers : todo[g] = {}
  BY DEF Init
<1> QED BY <1>1, IdleIs DEF Counted, CountCovers, Covers

\* ref_count never falls short of the memories that refer to the row.  The
\* correction of a sweep is a compare-and-set on the count alone, so this
\* needs that sweeps do not run side by side.
THEOREM CountsCoverReferences ==
    ASSUME OneSweep PROVE Spec => []CountCovers
<1>1. Spec => [](Base /\ Counted)
  BY BaseInitially, BaseIsInductive, CountedInitially, CountedIsInductive, PTL DEF Spec
<1>2. Counted => CountCovers
  BY DEF Counted
<1> QED BY <1>1, <1>2, PTL

\* What a memory refers to exists and is neither being deleted nor marked as
\* a failed deletion.
ReferencesStand ==
    \A m \in Memories : link[m] # None =>
        Present(link[m].sha, link[m].id) /\ Referable(row[link[m].sha])

\* With sweeps that do not run side by side, no deletion, promotion, sweep or
\* stop takes away the row that a memory refers to.
THEOREM NoReferenceDangles ==
    ASSUME OneSweep PROVE Spec => []ReferencesStand
<1>1. Spec => [](Base /\ Counted)
  BY BaseInitially, BaseIsInductive, CountedInitially, CountedIsInductive, PTL DEF Spec
<1>2. ASSUME Base, Counted PROVE ReferencesStand
  <2>1. SUFFICES ASSUME NEW m \in Memories, link[m] # None
                 PROVE  Present(link[m].sha, link[m].id) /\ Referable(row[link[m].sha])
    BY DEF ReferencesStand
  <2>2. Present(link[m].sha, link[m].id) /\ link[m].sha \in Shas
    BY <1>2, <2>1, LinkIs DEF Counted
  <2>3. row[link[m].sha].ref_count # 0
    BY <1>2, <2>1, <2>2, ZeroIsUnreferenced DEF Present
  <2> QED BY <1>2, <2>2, <2>3 DEF Counted, Present
<1>3. Base /\ Counted => ReferencesStand
  BY <1>2
<1> QED BY <1>1, <1>3, PTL

-----------------------------------------------------------------------------
(* Each thing that is done with a row has one worker.                      *)

LEMMA ApartSymmetric == \A t, u : Apart(t, u) => Apart(u, t)
BY DEF Apart, SameDuty

\* Rows come into being with ids that no task knows.
NoRowReturns ==
    \A t \in Tasks : Known(t) /\ About(t) /\ Present(t.sha, t.id)' => Present(t.sha, t.id)

DutiesAbout ==
    \A t \in Tasks : t.step \in Reserving \cup Promoting \cup Deleting => About(t)

LEMMA DutiesAreAbout == DutiesAbout
BY DEF DutiesAbout, Reserving, Promoting, Deleting, About

LEMMA ApartStays ==
    ASSUME NoRowReturns, NEW t \in Tasks, NEW u \in Tasks, Known(t), Apart(t, u)
    PROVE  Apart(t, u)'
<1> SUFFICES ASSUME SameDuty(t.step, u.step), t.sha = u.sha, t.id = u.id, Present(t.sha, t.id)'
             PROVE  FALSE
  BY DEF Apart
<1>1. About(t)
  BY DutiesAreAbout DEF DutiesAbout, SameDuty
<1> QED BY <1>1 DEF NoRowReturns, Apart

\* The tasks of the workers and the lists of the sweeps.
LEMMA TasksAre ==
    ASSUME Base
    PROVE  /\ \A w \in Workers : task[w] \in Tasks /\ Known(task[w])
           /\ \A g \in Sweepers : \A t \in todo[g] : t \in Tasks /\ Known(t) /\ About(t)
BY DEF Base, TypeOK

\* One worker goes on to u and the others are not disturbed.
LEMMA OwnedGoesOn ==
    ASSUME Base, Owned, NEW w \in Workers, NEW u \in Tasks, task' = [task EXCEPT ![w] = u],
           UNCHANGED todo, NoRowReturns, Fits(u)',
           \A t \in Tasks : Known(t) /\ Fits(t) /\ Apart(task[w], t) => Fits(t)',
           \A t \in Tasks : Known(t) /\ Fits(t) /\ Apart(task[w], t) => Apart(u, t)'
    PROVE  Owned'
<1>1. \A v \in Workers : task'[v] = IF v = w THEN u ELSE task[v]
  BY TaskIs
<1>2. ASSUME NEW v \in Workers, v # w
      PROVE  /\ task[v] \in Tasks /\ Known(task[v]) /\ Fits(task[v]) /\ Apart(task[w], task[v])
  BY <1>2, TasksAre DEF Owned
<1>3. ASSUME NEW g \in Sweepers, NEW t \in todo[g], NEW v \in Workers
      PROVE  t \in Tasks /\ Known(t) /\ Fits(t) /\ Apart(task[v], t)
  BY TasksAre DEF Owned
<1>4. ASSUME NEW v \in Workers PROVE Fits(task[v])'
  <2>1. CASE v = w
    <3>1. Fits(u)'
      OBVIOUS
    <3> QED BY <1>1, <2>1, <3>1 DEF Fits
  <2>2. CASE v # w
    <3>1. PICK t \in Tasks : t = task[v]
      BY <1>2, <2>2
    <3>2. Fits(t)'
      BY <1>2, <2>2, <3>1
    <3> QED BY <1>1, <2>2, <3>1, <3>2 DEF Fits
  <2> QED BY <2>1, <2>2
<1>5. ASSUME NEW g \in Sweepers, NEW t \in todo'[g] PROVE Fits(t)'
  BY <1>3
<1>6. ASSUME NEW v \in Workers, NEW z \in Workers, v # z PROVE Apart(task[v], task[z])'
  <2>1. CASE v = w
    <3>1. PICK t \in Tasks : t = task[z]
      BY <1>2, <1>6, <2>1
    <3>2. Apart(u, t)'
      BY <1>2, <1>6, <2>1, <3>1
    <3> QED BY <1>1, <1>6, <2>1, <3>1, <3>2 DEF Apart
  <2>2. CASE z = w
    <3>1. PICK t \in Tasks : t = task[v]
      BY <1>2, <1>6, <2>2
    <3>2. Apart(u, t)'
      BY <1>2, <1>6, <2>2, <3>1
    <3> QED BY <1>1, <1>6, <2>2, <3>1, <3>2 DEF Apart, SameDuty
  <2>3. CASE v # w /\ z # w
    <3>1. PICK t \in Tasks : t = task[v]
      BY <1>2, <2>3
    <3>2. PICK y \in Tasks : y = task[z]
      BY <1>2, <2>3
    <3>3. Apart(t, y) /\ Known(t)
      BY <1>2, <1>6, <2>3, <3>1, <3>2 DEF Owned
    <3>4. Apart(t, y)'
      BY <3>3, ApartStays
    <3> QED BY <1>1, <2>3, <3>1, <3>2, <3>4 DEF Apart
  <2> QED BY <2>1, <2>2, <2>3
<1>7. ASSUME NEW v \in Workers, NEW g \in Sweepers, NEW t \in todo'[g] PROVE Apart(task[v], t)'
  <2>0. t \in todo[g]
    OBVIOUS
  <2>1. CASE v = w
    <3>1. Apart(u, t)'
      BY <1>3, <2>0
    <3> QED BY <1>1, <2>1, <3>1 DEF Apart
  <2>2. CASE v # w
    <3>1. PICK y \in Tasks : y = task[v]
      BY <1>2, <2>2
    <3>2. Apart(y, t) /\ Known(y) /\ t \in Tasks
      BY <1>2, <1>3, <2>0, <2>2, <3>1
    <3>3. Apart(y, t)'
      BY <3>2, ApartStays
    <3> QED BY <1>1, <2>2, <3>1, <3>3 DEF Apart
  <2> QED BY <2>1, <2>2
<1> QED BY <1>4, <1>5, <1>6, <1>7 DEF Owned

\* Nobody goes on.
LEMMA OwnedStays ==
    ASSUME Base, Owned, UNCHANGED <<task, todo>>, NoRowReturns,
           \A t \in Tasks : Known(t) /\ Fits(t) => Fits(t)'
    PROVE  Owned'
<1>1. ASSUME NEW v \in Workers PROVE Fits(task[v])'
  <2>1. PICK t \in Tasks : t = task[v]
    BY TasksAre
  <2>2. Fits(t)'
    BY <2>1, TasksAre DEF Owned
  <2> QED BY <2>1, <2>2 DEF Fits
<1>2. ASSUME NEW g \in Sweepers, NEW t \in todo'[g] PROVE Fits(t)'
  BY TasksAre DEF Owned
<1>3. ASSUME NEW v \in Workers, NEW z \in Workers, v # z PROVE Apart(task[v], task[z])'
  <2>1. PICK t \in Tasks : t = task[v]
    BY TasksAre
  <2>2. PICK y \in Tasks : y = task[z]
    BY TasksAre
  <2>3. Apart(t, y) /\ Known(t)
    BY <1>3, <2>1, <2>2, TasksAre DEF Owned
  <2>4. Apart(t, y)'
    BY <2>3, ApartStays
  <2> QED BY <2>1, <2>2, <2>4 DEF Apart
<1>4. ASSUME NEW v \in Workers, NEW g \in Sweepers, NEW t \in todo'[g] PROVE Apart(task[v], t)'
  <2>1. PICK y \in Tasks : y = task[v]
    BY TasksAre
  <2>2. Apart(y, t) /\ Known(y) /\ t \in Tasks
    BY <2>1, TasksAre DEF Owned
  <2>3. Apart(y, t)'
    BY <2>2, ApartStays
  <2> QED BY <2>1, <2>3 DEF Apart
<1> QED BY <1>1, <1>2, <1>3, <1>4 DEF Owned

LEMMA ActiveIsOne ==
    /\ GcStates = {"active", "orphan", "deleted_failed", "unresolvable", "promoting", "deleting"}
    /\ "final" # None /\ "external" # None
BY ValuesAssumption DEF GcStates, Keys

\* What the write of one worker means for the task of another on the row.
LEMMA SettledForOthers ==
    ASSUME NEW a \in Tasks, NEW u \in Tasks, NEW o \in MediaRows, NEW r \in MediaRows \cup {None},
           Known(a), NEW t \in Tasks, Settles(a, u, o, r), o.id = a.id,
           o.gc_state = "deleting" => o.ref_count = 0,
           a.uri # None => o.storage_uri # None,
           a.step \in Reserving => o.storage_uri = None,
           a.step \in {"erase", "drop"} => o.gc_state = "deleting",
           ~SameDuty(a.step, t.step)
    PROVE  /\ r # None =>
                /\ t.uri # None /\ o.storage_uri # None => r.storage_uri # None
                /\ t.step \in Reserving /\ o.storage_uri = None
                   /\ o.gc_state \in {"orphan", "deleting"} =>
                     r.storage_uri = None /\ r.gc_state \in {"orphan", "deleting"}
                /\ t.step \in Promoting /\ o.gc_state = "promoting" =>
                     r.gc_state = "promoting" /\ r.storage_uri = o.storage_uri
                /\ t.step \in Deleting /\ o.gc_state = "deleting" => r.gc_state = "deleting"
           /\ t.step \in {"erase", "drop"} /\ o.gc_state = "deleting" /\ o.storage_uri # None => r # None
<1>1. a.step = "revert_deleting" => a.uri # None
  BY DEF Known
<1>2. CASE /\ u.step = "erase" /\ o.ref_count = 0
           /\ \/ a.step = "claim_delete" /\ o.gc_state \in {"active", "orphan"}
              \/ a.step = "reclaim_failed" /\ o.gc_state = "deleted_failed"
           /\ r = [o EXCEPT !.gc_state = "deleting"]
  BY <1>2 DEF MediaRows, Promoting, Deleting
<1>3. CASE a.step = "claim" /\ o.gc_state \in {"deleted_failed", "unresolvable"}
           /\ r = [o EXCEPT !.gc_state = "promoting"]
  BY <1>3 DEF MediaRows
<1>4. CASE a.step = "confirm" /\ o.gc_state = "orphan"
           /\ r = [o EXCEPT !.storage_uri = "final"]
  <2>1. t.step \notin Reserving
    BY <1>4 DEF SameDuty, Reserving
  <2> QED BY <1>4, <2>1, ActiveIsOne DEF MediaRows
<1>5. CASE a.step = "promote" /\ o.gc_state = "promoting"
           /\ r = [o EXCEPT !.storage_uri = "final", !.gc_state = a.gc_state]
  <2>1. t.step \notin Promoting
    BY <1>5 DEF SameDuty, Promoting
  <2> QED BY <1>5, <2>1, ActiveIsOne DEF MediaRows
<1>6. CASE a.step = "register_promote" /\ o.gc_state \in {"deleted_failed", "unresolvable"}
           /\ r = [o EXCEPT !.storage_uri = "external", !.gc_state = a.gc_state]
  BY <1>6, ActiveIsOne DEF MediaRows
<1>7. CASE /\ a.step \in {"erase", "drop"} /\ o.gc_state = "deleting"
           /\ a.step = "erase" => a.uri # None
           /\ a.step = "drop" => o.ref_count # 0
           /\ r = [o EXCEPT !.gc_state = "deleted_failed"]
  <2>1. t.step \notin Deleting /\ a.step = "erase" /\ a.uri # None /\ o.storage_uri # None
    BY <1>7 DEF SameDuty, Deleting
  <2> QED BY <1>7, <2>1 DEF MediaRows, Deleting
<1>8. CASE a.step = "revert_promoting" /\ o.gc_state = "promoting"
           /\ r = [o EXCEPT !.gc_state = "unresolvable"]
  <2>1. t.step \notin Promoting
    BY <1>8 DEF SameDuty, Promoting
  <2> QED BY <1>8, <2>1 DEF MediaRows
<1>9. CASE a.step = "revert_deleting" /\ o.gc_state = "deleting"
           /\ r = [o EXCEPT !.gc_state = "orphan"]
  <2>1. t.step \notin Deleting /\ o.storage_uri # None
    BY <1>1, <1>9 DEF SameDuty, Deleting
  <2> QED BY <1>9, <2>1 DEF MediaRows, Deleting
<1>10. CASE a.step = "reconcile" /\ o.gc_state \in {"active", "orphan"}
            /\ r = [o EXCEPT !.ref_count = a.actual]
  BY <1>10 DEF MediaRows
<1>11. CASE a.step \in {"copy", "drop", "drop_reservation"} /\ r = None
  <2>1. a.step = "drop" => t.step \notin {"erase", "drop"}
    BY DEF SameDuty, Deleting
  <2>2. a.step # "drop" => o.storage_uri = None
    BY <1>11 DEF Reserving
  <2> QED BY <1>11, <2>1, <2>2
<1> QED BY <1>2, <1>3, <1>4, <1>5, <1>6, <1>7, <1>8, <1>9, <1>10, <1>11 DEF Settles

\* The task of a worker after its own write.
LEMMA SettledForItself ==
    ASSUME NEW a \in Tasks, NEW u \in Tasks, NEW o \in MediaRows, NEW r \in MediaRows \cup {None},
           Settles(a, u, o, r), a.uri # None => o.storage_uri # None
    PROVE  \/ u = Idle
           \/ /\ u.sha = a.sha /\ u.id = a.id /\ u.uri = a.uri
              /\ r \in MediaRows /\ r.id = o.id /\ r.storage_uri = o.storage_uri
              /\ \/ u.step = "erase" /\ r.gc_state = "deleting" /\ o.gc_state # "deleting"
                 \/ u.step = "recopy" /\ r.gc_state = "promoting" /\ o.gc_state # "promoting"
                 \/ u.step = "refetch"
<1>1. /\ "deleting" \in GcStates /\ "promoting" \in GcStates
  BY DEF GcStates
<1>2. /\ [o EXCEPT !.gc_state = "deleting"] \in MediaRows
      /\ [o EXCEPT !.gc_state = "promoting"] \in MediaRows
  BY <1>1 DEF MediaRows
<1>3. a.actual \in Nat
  BY DEF Tasks
<1>4. [o EXCEPT !.ref_count = a.actual] \in MediaRows
  BY <1>3 DEF MediaRows
<1> QED BY <1>2, <1>4 DEF Settles, MediaRows

\* A worker goes on with its own row.
LEMMA EffectKeepsOwned ==
    ASSUME Base, Counted, Owned, NEW w \in Workers, Effective(w) PROVE Owned'
<1>1. PICK u \in Tasks, r \in MediaRows \cup {None} : OwnEffect(w, u, r)
  BY DEF Effective
<1>2. /\ About(task[w]) /\ Outcome(w, u, r) /\ task' = [task EXCEPT ![w] = u]
      /\ row' = [row EXCEPT ![task[w].sha] = r]
      /\ UNCHANGED <<made, link, phase, todo>>
  BY <1>1 DEF OwnEffect, OwnRow
<1>3. PICK a \in Tasks : a = task[w]
  BY TasksAre
<1>4. PICK o \in MediaRows \cup {None} : o = MyRow(w)
  BY <1>2, MyRowIs
<1>5. /\ About(a) /\ Known(a) /\ Fits(a) /\ a.sha \in Shas /\ o = row[a.sha]
      /\ row \in [Shas -> MediaRows \cup {None}]
      /\ row'[a.sha] = r /\ \A x \in Shas : x # a.sha => row'[x] = row[x]
  BY <1>2, <1>3, <1>4, MyRowIs DEF Base, Owned, TypeOK
<1>6. CASE r = o /\ GoesOn(a, u, o)
  <2>1. UNCHANGED row
    BY <1>5, <1>6, <1>2, <1>3
  <2>2. NoRowReturns
    BY <2>1 DEF NoRowReturns, Present
  <2>3. \A t : Fits(t)' <=> Fits(t)
    BY <2>1 DEF Fits, Present
  <2>4. \A t, y : Apart(t, y)' <=> Apart(t, y)
    BY <2>1 DEF Apart, Present
  <2>5. \/ u = Idle
        \/ /\ u.sha = a.sha /\ u.id = a.id /\ u.uri = a.uri
           /\ \/ a.step = "copy" /\ u.step = "confirm"
              \/ a.step = "recopy" /\ u.step = "reread"
              \/ a.step = "reread" /\ u.step = "promote"
              \/ a.step = "erase" /\ u.step = "drop"
              \/ a.step = "reclaim" /\ u.step = "drop_reservation"
              \/ a.step = "recover" /\ u.step = "revert_promoting"
        \/ /\ u.step = "claim_delete" /\ o # None /\ o.id = a.id
           /\ u.sha = a.sha /\ u.id = a.id /\ u.uri = o.storage_uri
    BY <1>6 DEF GoesOn
  <2>6. Fits(u)
    <3>1. CASE u = Idle
      BY <3>1, IdleIs DEF Fits, About
    <3>2. CASE u # Idle /\ u.step # "claim_delete"
      BY <1>5, <2>5, <3>2 DEF Fits, About, Reserving, Promoting, Deleting
    <3>3. CASE u # Idle /\ u.step = "claim_delete"
      BY <1>5, <2>5, <3>3 DEF Fits, Reserving, Promoting, Deleting
    <3> QED BY <3>1, <3>2, <3>3
  <2>7. \A t \in Tasks : Apart(a, t) => Apart(u, t)
    <3> SUFFICES ASSUME NEW t \in Tasks, Apart(a, t), SameDuty(u.step, t.step),
                        u.sha = t.sha, u.id = t.id, Present(u.sha, u.id)
                 PROVE  FALSE
      BY DEF Apart
    <3>1. u.step \notin {"idle", "claim_delete"}
      BY DEF SameDuty, Reserving, Promoting, Deleting
    <3>2. SameDuty(a.step, t.step) /\ u.sha = a.sha /\ u.id = a.id
      BY <2>5, <3>1, IdleIs DEF SameDuty, Reserving, Promoting, Deleting
    <3> QED BY <3>2 DEF Apart
  <2>8. Fits(u)'
    BY <2>3, <2>6
  <2>9. \A t \in Tasks : Known(t) /\ Fits(t) /\ Apart(task[w], t) => Fits(t)'
    BY <2>3
  <2>10. \A t \in Tasks : Known(t) /\ Fits(t) /\ Apart(task[w], t) => Apart(u, t)'
    BY <1>3, <2>4, <2>7
  <2> QED BY <1>2, <2>2, <2>8, <2>9, <2>10, OwnedGoesOn
<1>7. CASE Mine(w) /\ Settles(a, u, o, r)
  <2>1. /\ o \in MediaRows /\ o # None /\ o.id = a.id
        /\ o.gc_state = "deleting" => o.ref_count = 0
    BY <1>2, <1>3, <1>4, <1>5, <1>7, MineIs DEF Counted, Referable
  <2>2. Present(a.sha, a.id)
    BY <1>5, <2>1 DEF Present
  <2>3. /\ a.uri # None => o.storage_uri # None
        /\ a.step \in Reserving => o.storage_uri = None
        /\ a.step \in {"erase", "drop"} => o.gc_state = "deleting"
    BY <1>5, <2>2 DEF Fits, Deleting
  <2>4. \/ u = Idle
        \/ /\ u.sha = a.sha /\ u.id = a.id /\ u.uri = a.uri
           /\ r \in MediaRows /\ r.id = o.id /\ r.storage_uri = o.storage_uri
           /\ \/ u.step = "erase" /\ r.gc_state = "deleting" /\ o.gc_state # "deleting"
              \/ u.step = "recopy" /\ r.gc_state = "promoting" /\ o.gc_state # "promoting"
              \/ u.step = "refetch"
    BY <1>7, <2>1, <2>3, SettledForItself
  <2>5. r # None => r.id = o.id
    BY <1>2, <1>3, <1>4, <1>7, SettledCount
  <2>6. NoRowReturns
    <3> SUFFICES ASSUME NEW t \in Tasks, Known(t), About(t), Present(t.sha, t.id)'
                 PROVE  Present(t.sha, t.id)
      BY DEF NoRowReturns
    <3>1. t.sha \in Shas
      BY DEF Known
    <3> QED BY <1>5, <2>1, <2>5, <3>1 DEF Present
  <2>7. Fits(u)'
    <3>1. CASE u = Idle
      BY <3>1, IdleIs DEF Fits, About
    <3>2. CASE u # Idle
      <4>1. row'[u.sha] = r /\ r # None /\ Present(u.sha, u.id)'
        BY <1>5, <2>1, <2>4, <3>2, ValuesAssumption DEF Present
      <4> QED BY <2>3, <2>4, <3>2, <4>1 DEF Fits, Reserving, Promoting, Deleting
    <3> QED BY <3>1, <3>2
  <2>8. ASSUME NEW t \in Tasks, Known(t), Fits(t), Apart(a, t) PROVE Fits(t)'
    <3>1. CASE About(t) /\ t.sha = a.sha /\ t.id = a.id
      <4>1. ~SameDuty(a.step, t.step)
        BY <2>2, <2>8, <3>1 DEF Apart
      <4>2. Present(t.sha, t.id) /\ row[t.sha] = o
        BY <1>5, <2>2, <3>1
      <4>3. /\ r # None =>
                 /\ t.uri # None /\ o.storage_uri # None => r.storage_uri # None
                 /\ t.step \in Reserving /\ o.storage_uri = None
                    /\ o.gc_state \in {"orphan", "deleting"} =>
                      r.storage_uri = None /\ r.gc_state \in {"orphan", "deleting"}
                 /\ t.step \in Promoting /\ o.gc_state = "promoting" =>
                      r.gc_state = "promoting" /\ r.storage_uri = o.storage_uri
                 /\ t.step \in Deleting /\ o.gc_state = "deleting" => r.gc_state = "deleting"
            /\ t.step \in {"erase", "drop"} /\ o.gc_state = "deleting" /\ o.storage_uri # None =>
                 r # None
        BY <1>5, <1>7, <2>1, <2>3, <4>1, SettledForOthers
      <4>4. /\ t.uri # None => o.storage_uri # None
            /\ t.step \in Reserving => o.storage_uri = None /\ o.gc_state \in {"orphan", "deleting"}
            /\ t.step \in Promoting => o.gc_state = "promoting"
            /\ t.step \in {"recover", "revert_promoting"} => o.storage_uri = None
            /\ t.step \in Deleting => o.gc_state = "deleting"
        BY <2>8, <3>1, <4>2 DEF Fits
      <4>5. row'[t.sha] = r
        BY <1>5, <3>1
      <4>6. /\ "recover" \in Promoting /\ "revert_promoting" \in Promoting
            /\ "erase" \in Deleting /\ "drop" \in Deleting
        BY DEF Promoting, Deleting
      <4>7. Present(t.sha, t.id)' <=> r # None
        BY <2>1, <2>5, <3>1, <4>5 DEF Present
      <4> QED BY <4>3, <4>4, <4>5, <4>6, <4>7 DEF Fits
    <3>2. CASE About(t) /\ t.sha = a.sha /\ t.id # a.id
      <4>1. ~Present(t.sha, t.id) /\ ~Present(t.sha, t.id)'
        BY <1>5, <2>1, <2>5, <3>2 DEF Present
      <4> QED BY <2>8, <4>1 DEF Fits
    <3>3. CASE About(t) /\ t.sha # a.sha
      <4>1. t.sha \in Shas /\ row'[t.sha] = row[t.sha]
        BY <1>5, <2>8, <3>3 DEF Known
      <4> QED BY <2>8, <4>1 DEF Fits, Present
    <3>4. CASE ~About(t)
      BY <3>4 DEF Fits, About
    <3> QED BY <3>1, <3>2, <3>3, <3>4
  <2>9. ASSUME NEW t \in Tasks, Known(t), Fits(t), Apart(a, t) PROVE Apart(u, t)'
    <3> SUFFICES ASSUME SameDuty(u.step, t.step), u.sha = t.sha, u.id = t.id,
                        Present(u.sha, u.id)'
                 PROVE  FALSE
      BY DEF Apart
    <3>1. u # Idle /\ u.step # "refetch"
      BY IdleIs DEF SameDuty, Reserving, Promoting, Deleting
    <3>2. u.sha = a.sha /\ u.id = a.id /\ Present(t.sha, t.id) /\ row[t.sha] = o
      BY <1>5, <2>2, <2>4, <3>1
    <3>3. About(t)
      BY DutiesAreAbout DEF DutiesAbout, SameDuty
    <3>4. /\ u.step = "erase" => t.step \in Deleting /\ o.gc_state # "deleting"
          /\ u.step = "recopy" => t.step \in Promoting /\ o.gc_state # "promoting"
          /\ u.step \in {"erase", "recopy"}
      BY <2>4, <3>1 DEF SameDuty, Reserving, Promoting, Deleting
    <3> QED BY <2>9, <3>2, <3>3, <3>4 DEF Fits
  <2>10. \A t \in Tasks : Known(t) /\ Fits(t) /\ Apart(task[w], t) => Fits(t)'
    BY <1>3, <2>8
  <2>11. \A t \in Tasks : Known(t) /\ Fits(t) /\ Apart(task[w], t) => Apart(u, t)'
    BY <1>3, <2>9
  <2> QED BY <1>2, <2>6, <2>7, <2>10, <2>11, OwnedGoesOn
<1> QED BY <1>2, <1>3, <1>4, <1>6, <1>7 DEF Outcome

LEMMA NoDuty ==
    ASSUME NEW u \in Tasks, NEW t, u.step \notin Reserving \cup Promoting \cup Deleting
    PROVE  Apart(u, t) /\ Apart(u, t)'
BY DEF Apart, SameDuty

\* A worker takes something up, or ends, and the rows stay.
LEMMA StartKeepsOwned == ASSUME Base, Owned, NEW w \in Workers, Started(w) PROVE Owned'
<1>1. PICK u \in Tasks : Starts(w, u)
  BY DEF Started
<1>2. /\ UNCHANGED <<row, todo>> /\ task' = [task EXCEPT ![w] = u]
      /\ u.step \in {"idle", "claim", "claim_delete", "register", "register_promote", "insert", "link"}
      /\ u.uri # None => u.uri = row[u.sha].storage_uri
  BY <1>1 DEF Starts
<1>3. u.step \notin Reserving \cup Promoting \cup Deleting
  BY <1>2 DEF Reserving, Promoting, Deleting
<1>4. NoRowReturns
  BY <1>2 DEF NoRowReturns, Present
<1>5. \A t : Fits(t)' <=> Fits(t)
  BY <1>2 DEF Fits, Present
<1>6. Fits(u)
  BY <1>2, <1>3 DEF Fits, Promoting, Deleting
<1>7. Fits(u)'
  BY <1>5, <1>6
<1>8. \A t \in Tasks : Known(t) /\ Fits(t) /\ Apart(task[w], t) => Fits(t)'
  BY <1>5
<1>9. \A t \in Tasks : Known(t) /\ Fits(t) /\ Apart(task[w], t) => Apart(u, t)'
  BY <1>3, NoDuty
<1> QED BY <1>2, <1>4, <1>7, <1>8, <1>9, OwnedGoesOn

LEMMA AsideKeepsOwned == ASSUME Base, Owned, Aside PROVE Owned'
<1>1. UNCHANGED <<row, task, todo>>
  BY DEF Aside
<1>2. NoRowReturns
  BY <1>1 DEF NoRowReturns, Present
<1>3. \A t \in Tasks : Known(t) /\ Fits(t) => Fits(t)'
  BY <1>1 DEF Fits, Present
<1> QED BY <1>1, <1>2, <1>3, OwnedStays

\* A row is inserted, which no task knows.
LEMMA InsertKeepsOwned ==
    ASSUME Base, Owned, NEW w \in Workers, NEW s \in Shas, InsertedBy(w, s) PROVE Owned'
<1>1. PICK u \in Tasks, r \in MediaRows : Inserts(w, s, u, r)
  BY DEF InsertedBy
<1>2. /\ UNCHANGED <<link, todo>> /\ task' = [task EXCEPT ![w] = u]
      /\ Insert(s, r) /\ r.id = made[s] + 1 /\ row[s] = None
      /\ \/ u = Idle
         \/ /\ u.step \in {"copy", "link"} /\ u.sha = s /\ u.id = made[s] + 1 /\ u.uri = None
            /\ u.step = "copy" => r.gc_state = "orphan"
            /\ r.storage_uri = None
  BY <1>1 DEF Inserts
<1>3. /\ row'[s] = r /\ \A x \in Shas \ {s} : row'[x] = row[x]
      /\ r # None /\ made[s] \in Nat
  BY <1>2, Inserted, ValuesAssumption, MediaAssumption DEF Base, TypeOK
<1>4. ASSUME NEW t \in Tasks, Known(t), About(t), t.sha = s
      PROVE  t.id # r.id /\ ~Present(t.sha, t.id) /\ ~Present(t.sha, t.id)'
  <2>1. t.id \in 1 .. made[s]
    BY <1>4 DEF Known
  <2>2. t.id # r.id
    BY <1>2, <1>3, <2>1
  <2> QED BY <1>2, <1>3, <1>4, <2>2 DEF Present
<1>5. ASSUME NEW t \in Tasks, Known(t), About(t), t.sha # s
      PROVE  row'[t.sha] = row[t.sha]
  BY <1>3, <1>5 DEF Known
<1>6. NoRowReturns
  BY <1>4, <1>5 DEF NoRowReturns, Present
<1>7. ASSUME NEW t \in Tasks, Known(t), Fits(t) PROVE Fits(t)'
  <2>1. CASE ~About(t)
    BY <2>1 DEF Fits, About
  <2>2. CASE About(t) /\ t.sha = s
    BY <1>4, <1>7, <2>2 DEF Fits
  <2>3. CASE About(t) /\ t.sha # s
    BY <1>5, <1>7, <2>3 DEF Fits, Present
  <2> QED BY <2>1, <2>2, <2>3
<1>8. Fits(u)'
  <2>1. CASE u = Idle
    BY <2>1, IdleIs DEF Fits, About
  <2>2. CASE u # Idle
    BY <1>2, <1>3, <2>2 DEF Fits, Reserving, Promoting, Deleting
  <2> QED BY <2>1, <2>2
<1>9. ASSUME NEW t \in Tasks, Known(t) PROVE Apart(u, t)'
  <2>1. CASE u.step # "copy"
    BY <1>2, <2>1, IdleIs, NoDuty DEF Reserving, Promoting, Deleting
  <2>2. CASE u.step = "copy"
    <3> SUFFICES ASSUME SameDuty(u.step, t.step), u.sha = t.sha, u.id = t.id PROVE FALSE
      BY DEF Apart
    <3>1. About(t)
      BY DutiesAreAbout DEF DutiesAbout, SameDuty
    <3> QED BY <1>2, <1>4, <1>9, <2>2, <3>1, IdleIs
  <2> QED BY <2>1, <2>2
<1>10. \A t \in Tasks : Known(t) /\ Fits(t) /\ Apart(task[w], t) => Fits(t)'
  BY <1>7
<1>11. \A t \in Tasks : Known(t) /\ Fits(t) /\ Apart(task[w], t) => Apart(u, t)'
  BY <1>9
<1> QED BY <1>2, <1>6, <1>8, <1>10, <1>11, OwnedGoesOn

\* A memory changes its reference: rows are not moved, and the only states
\* left or reached are those of counting.
LEMMA RelinkedStates ==
    ASSUME Base, NEW m \in Memories, NEW x, NEW dropped \in BOOLEAN, Relinks(m, x, dropped),
           NEW s \in Shas
    PROVE  /\ row'[s] = None <=> row[s] = None
           /\ row[s] # None => /\ row'[s].id = row[s].id
                               /\ row'[s].storage_uri = row[s].storage_uri
                               /\ \/ row'[s].gc_state = row[s].gc_state
                                  \/ /\ row[s].gc_state = "orphan" /\ row[s].storage_uri # None
                                     /\ row'[s].gc_state = "active"
                                  \/ /\ row[s].gc_state \in {"active", "orphan"}
                                     /\ row'[s].gc_state = "deleting"
<1>1. /\ row'[s] = None <=> row[s] = None
      /\ row[s] # None => row'[s].id = row[s].id /\ row'[s].storage_uri = row[s].storage_uri
  BY RelinkedRows
<1>2. row[s] # None => row[s] \in MediaRows
  BY RowIs
<1>3. \/ row'[s] = row[s]
      \/ row'[s] = Incr(row[s])
      \/ row[s] # None /\ row[s].ref_count > 0 /\ row'[s] = Decr(row[s])
  BY DEF Relinks, Droppable, Present
<1>4. CASE row'[s] = Incr(row[s])
  BY <1>1, <1>2, <1>4, IncrIs
<1>5. CASE row[s] # None /\ row[s].ref_count > 0 /\ row'[s] = Decr(row[s])
  <2>1. LastReference(row[s]) => row[s].gc_state \in {"active", "orphan"}
    BY DEF LastReference
  <2> QED BY <1>1, <1>2, <1>5, <2>1, DecrIs
<1> QED BY <1>1, <1>3, <1>4, <1>5

\* What others do with the row goes on.
LEMMA RelinksFit ==
    ASSUME Base, Counted, NEW m \in Memories, NEW x, NEW dropped \in BOOLEAN, Relinks(m, x, dropped)
    PROVE  /\ NoRowReturns
           /\ \A t \in Tasks : Known(t) /\ Fits(t) => Fits(t)'
<1>1. ASSUME NEW s \in Shas
      PROVE  /\ row'[s] = None <=> row[s] = None
             /\ row[s] # None => /\ row'[s].id = row[s].id
                                 /\ row'[s].storage_uri = row[s].storage_uri
                                 /\ \/ row'[s].gc_state = row[s].gc_state
                                    \/ /\ row[s].gc_state = "orphan" /\ row[s].storage_uri # None
                                       /\ row'[s].gc_state = "active"
                                    \/ /\ row[s].gc_state \in {"active", "orphan"}
                                       /\ row'[s].gc_state = "deleting"
  BY RelinkedStates
<1>2. ASSUME NEW t \in Tasks, Known(t), About(t)
      PROVE  Present(t.sha, t.id)' <=> Present(t.sha, t.id)
  BY <1>1, <1>2 DEF Known, Present
<1>3. NoRowReturns
  BY <1>2 DEF NoRowReturns
<1>4. ASSUME NEW t \in Tasks, Known(t), Fits(t) PROVE Fits(t)'
  <2>1. CASE ~About(t)
    BY <2>1 DEF Fits, About
  <2>2. CASE About(t) /\ ~Present(t.sha, t.id)
    BY <1>2, <1>4, <2>2 DEF Fits
  <2>3. CASE About(t) /\ Present(t.sha, t.id)
    <3>1. t.sha \in Shas /\ row[t.sha] # None
      BY <1>4, <2>3 DEF Known, Present
    <3>2. Present(t.sha, t.id)'
      BY <1>2, <1>4, <2>3
    <3> QED BY <1>1, <1>4, <2>3, <3>1, <3>2 DEF Fits
  <2> QED BY <2>1, <2>2, <2>3
<1> QED BY <1>3, <1>4

\* The duty that comes with the last reference is a new one.
LEMMA ExchangeKeepsOwned ==
    ASSUME Base, Counted, Owned, NEW w \in Requests, NEW m \in Memories, NEW x,
           Exchanging(w, m, x)
    PROVE  Owned'
<1>1. Relinks(m, x, TRUE) /\ DutyAfter(w, link[m]) /\ link[m] # None /\ w \in Workers
      /\ UNCHANGED todo
  BY WorkersAre DEF Exchanging, Relinks
<1>2. NoRowReturns /\ \A t \in Tasks : Known(t) /\ Fits(t) => Fits(t)'
  BY <1>1, RelinksFit
<1>3. CASE UNCHANGED task
  BY <1>1, <1>2, <1>3, OwnedStays
<1>4. CASE ~UNCHANGED task
  <2>1. PICK s \in Shas : s = link[m].sha
    BY <1>1, LinkIs
  <2>2. PICK u \in Tasks :
          /\ u.step = "erase" /\ u.sha = s /\ u.id = row[s].id
          /\ u.uri = row[s].storage_uri
          /\ task' = [task EXCEPT ![w] = u]
    BY <1>1, <1>4, <2>1, DutyIs
  <2>3. Present(s, link[m].id) /\ row[s] # None /\ LastReference(row[s])
    BY <1>1, <1>4, <2>1, DutyIs
  <2>4. row[s] \in MediaRows /\ row[s].gc_state \in {"active", "orphan"} /\ row[s].ref_count > 0
    BY <2>3, RowIs DEF LastReference
  <2>5. ~(x # None /\ s = x.sha)
    <3>1. SUFFICES ASSUME x # None, s = x.sha PROVE FALSE
      OBVIOUS
    <3>2. Present(x.sha, x.id) /\ x \in References /\ link[m] # x
      BY <1>1, <3>1 DEF Relinks
    <3>3. x.id = link[m].id /\ x.sha = link[m].sha
      BY <2>1, <2>3, <3>1, <3>2 DEF Present
    <3> QED BY <1>1, <3>2, <3>3, LinkIs DEF References
  <2>6. row'[s] = Decr(row[s])
    BY <1>1, <2>1, <2>3, <2>5 DEF Relinks
  <2>7. /\ row'[s] # None /\ row'[s].id = row[s].id /\ row'[s].gc_state = "deleting"
        /\ row'[s].storage_uri = row[s].storage_uri
    BY <2>3, <2>4, <2>6, DecrIs
  <2>8. Fits(u)'
    BY <2>2, <2>7 DEF Fits, Present, Reserving, Promoting
  <2>9. ASSUME NEW t \in Tasks, Fits(t) PROVE Apart(u, t)'
    <3> SUFFICES ASSUME SameDuty(u.step, t.step), u.sha = t.sha, u.id = t.id PROVE FALSE
      BY DEF Apart
    <3>1. t.step \in Deleting /\ About(t)
      BY <2>2, DutiesAreAbout DEF DutiesAbout, SameDuty, Reserving, Promoting, Deleting
    <3>2. Present(t.sha, t.id)
      BY <2>2, <2>3 DEF Present
    <3>3. row[t.sha].gc_state = "deleting"
      BY <2>9, <3>1, <3>2 DEF Fits
    <3> QED BY <2>2, <2>4, <3>3
  <2>10. \A t \in Tasks : Known(t) /\ Fits(t) /\ Apart(task[w], t) => Fits(t)'
    BY <1>2
  <2>11. \A t \in Tasks : Known(t) /\ Fits(t) /\ Apart(task[w], t) => Apart(u, t)'
    BY <2>9
  <2> QED BY <1>1, <1>2, <2>2, <2>8, <2>10, <2>11, OwnedGoesOn
<1> QED BY <1>3, <1>4

LEMMA MigrateKeepsOwned ==
    ASSUME Base, Counted, Owned, NEW w \in Migrators, Migrated(w) PROVE Owned'
<1>1. /\ Relinks(task[w].memory, [sha |-> task[w].sha, id |-> task[w].id], FALSE)
      /\ task[w].memory \in Memories /\ w \in Workers
      /\ task' = [task EXCEPT ![w] = Idle]
      /\ UNCHANGED todo
  BY WorkersAre DEF Migrated, Finish, Relinks
<1>2. NoRowReturns /\ \A t \in Tasks : Known(t) /\ Fits(t) => Fits(t)'
  BY <1>1, RelinksFit
<1>3. Fits(Idle)'
  BY IdleIs DEF Fits, About
<1>4. \A t \in Tasks : Known(t) /\ Fits(t) /\ Apart(task[w], t) => Apart(Idle, t)'
  BY IdleIs, NoDuty DEF Reserving, Promoting, Deleting
<1> QED BY <1>1, <1>2, <1>3, <1>4, IdleIs, OwnedGoesOn

\* A sweep goes on to a row it listed, or ends.
LEMMA SweepGoesOnKeepsOwned ==
    ASSUME Base, Owned, OneSweep, NEW g \in Sweepers,
           (\E t \in todo[g] : SweepRow(g, t)) \/ SweepStops(g)
    PROVE  Owned'
<1>1. UNCHANGED row
  BY SweepRowIs, SweepStopsIs
<1>2. \A t : Fits(t)' <=> Fits(t)
  BY <1>1 DEF Fits, Present
<1>3. \A t, y : Apart(t, y)' <=> Apart(t, y)
  BY <1>1 DEF Apart, Present
<1>4. /\ \A w \in Workers \ {g} : task'[w] = task[w]
      /\ \A h \in Sweepers : todo'[h] \subseteq todo[h]
      /\ g \in Workers /\ \A h \in Sweepers : h = g
  BY SweepRowIs, SweepStopsIs, WorkersAre DEF OneSweep
<1>5. CASE \E t \in todo[g] : SweepRow(g, t)
  <2>1. PICK u \in todo[g] : SweepRow(g, u)
    BY <1>5
  <2>2. task'[g] = u /\ u \notin todo'[g] /\ u \in Tasks /\ Fits(u)
        /\ \A w \in Workers : Apart(task[w], u)
    BY <1>4, <2>1, SweepRowIs DEF Owned
  <2>3. \A t \in todo'[g] : Apart(u, t)
    BY <1>4, <2>2 DEF Base, Apart
  <2>4. \A w \in Workers : Fits(task'[w])
    BY <1>4, <2>2 DEF Owned
  <2>5. \A v, w \in Workers : v # w => Apart(task'[v], task'[w])
    BY <1>4, <2>2, ApartSymmetric DEF Owned
  <2>6. \A w \in Workers : \A h \in Sweepers : \A t \in todo'[h] : Apart(task'[w], t)
    BY <1>4, <2>2, <2>3 DEF Owned
  <2> QED BY <1>1, <1>4, <2>4, <2>5, <2>6 DEF Owned, Fits, Apart, Present
<1>6. CASE SweepStops(g)
  <2>1. task'[g] = Idle /\ Fits(Idle) /\ \A t : Apart(Idle, t) /\ Apart(t, Idle)
    BY <1>6, SweepStopsIs, IdleIs DEF Fits, About, Apart, SameDuty, Reserving, Promoting, Deleting
  <2>4. \A w \in Workers : Fits(task'[w])
    BY <1>4, <2>1 DEF Owned
  <2>5. \A v, w \in Workers : v # w => Apart(task'[v], task'[w])
    BY <1>4, <2>1 DEF Owned
  <2>6. \A w \in Workers : \A h \in Sweepers : \A t \in todo'[h] : Apart(task'[w], t)
    BY <1>4, <2>1 DEF Owned
  <2> QED BY <1>1, <1>4, <2>4, <2>5, <2>6 DEF Owned, Fits, Apart, Present
<1> QED BY <1>5, <1>6

\* What a sweep lists is old enough for nobody to be at it any more.
LEMMA SweepListKeepsOwned ==
    ASSUME Base, Owned, OneSweep, GraceCovers, NEW g \in Sweepers, NEW stale \in SUBSET Shas,
           SweepList(g, stale)
    PROVE  Owned'
<1> DEFINE p == NextPhase[phase[g]]
<1>1. /\ p \in Phases /\ stale \in StaleChoices(p) /\ task[g].step = "idle"
      /\ \A t \in todo'[g] : \E s \in stale : t = SweepTask(p, s)
      /\ UNCHANGED <<row, made, object, link, task, failures, stops, puts, page>>
  BY SweepListIs
<1> HIDE DEF p
<1>2. \A h \in Sweepers : h = g
  BY DEF OneSweep
<1>3. ASSUME NEW t \in todo'[g]
      PROVE  /\ Fits(t)
             /\ \A w \in Workers : Apart(task[w], t)
  <2>1. PICK s \in stale : t = SweepTask(p, s)
    BY <1>1
  <2>2. /\ s \in Shas /\ row[s] # None /\ InClass(p, row[s], Actual(s))
        /\ t.step = FirstStep[p] /\ t.sha = s /\ t.id = row[s].id /\ t.uri = row[s].storage_uri
        /\ p \notin {"failed", "desync"} => ~Held(s)
    BY <1>1, <2>1, StaleIs, SweepTaskIs
  <2>3. /\ t.step \in Reserving => p = "reservations"
        /\ t.step \in Promoting => p = "promoting" /\ t.step = "recover"
        /\ t.step \in Deleting => p = "deleting" /\ t.step = "revert_deleting"
    BY <1>1, <2>2 DEF Phases, FirstStep, Reserving, Promoting, Deleting
  <2>4. /\ p = "reservations" => row[s].gc_state = "orphan" /\ row[s].storage_uri = None
        /\ p = "promoting" => row[s].gc_state = "promoting" /\ row[s].storage_uri = None
        /\ p = "deleting" => row[s].gc_state = "deleting"
    BY <2>2 DEF InClass, Unconfirmed
  <2>5. t.step \notin {"erase", "drop", "revert_promoting"}
    BY <1>1, <2>2 DEF Phases, FirstStep
  <2>6. Fits(t)
    BY <2>2, <2>3, <2>4, <2>5, PhaseIs, <1>1 DEF Fits
  <2>7. ASSUME NEW w \in Workers PROVE Apart(task[w], t)
    <3> SUFFICES ASSUME SameDuty(task[w].step, t.step), task[w].sha = t.sha, task[w].id = t.id
                 PROVE  FALSE
      BY DEF Apart
    <3>1. task[w].step \notin SweepSteps
      <4>1. w \in Sweepers => task[w].step = "idle"
        BY <1>1, <1>2
      <4> QED BY <4>1 DEF Base, SweepSteps
    <3>2. task[w].step \in Duties
      BY <3>1 DEF SameDuty, Reserving, Promoting, Deleting, SweepSteps, Duties
    <3>3. Held(s)
      BY <2>2, <3>2 DEF Held, Mine, Present
    <3>4. p \notin {"failed", "desync"}
      BY <2>3 DEF SameDuty
    <3> QED BY <2>2, <3>3, <3>4
  <2> QED BY <2>6, <2>7
<1>4. \A t : Fits(t)' <=> Fits(t)
  BY <1>1 DEF Fits, Present
<1>5. \A v, w \in Workers : v # w => Apart(task[v], task[w])'
  BY <1>1 DEF Owned, Apart, Present
<1>6. \A w \in Workers : Fits(task[w])'
  BY <1>1 DEF Owned, Fits, Present
<1>7. \A h \in Sweepers : \A t \in todo'[h] : Fits(t)'
  BY <1>2, <1>3, <1>4
<1>8. \A w \in Workers : \A h \in Sweepers : \A t \in todo'[h] : Apart(task[w], t)'
  <2>1. \A t \in todo'[g] : \A w \in Workers : Apart(task[w], t)'
    BY <1>1, <1>3 DEF Apart, Present
  <2> QED BY <1>2, <2>1
<1> QED BY <1>5, <1>6, <1>7, <1>8 DEF Owned

LEMMA OwnedIsInductive ==
    ASSUME Base, Counted, Owned, OneSweep, GraceCovers, [Next]_vars PROVE Owned'
<1>1. ASSUME NEW m \in Memories, NEW s \in Shas, UNCHANGED <<task, page>>,
             Relinks(m, [sha |-> s, id |-> row[s].id], TRUE)
      PROVE  Owned'
  <2>1. UNCHANGED <<task, todo>>
    BY <1>1 DEF Relinks
  <2> QED BY <1>1, <2>1, RelinksFit, OwnedStays
<1>2. ASSUME NEW g \in Sweepers, Swept(g) PROVE Owned'
  BY <1>2, SweepListKeepsOwned, SweepGoesOnKeepsOwned DEF Swept
<1> QED BY <1>1, <1>2, StepIs, AsideKeepsOwned, EffectKeepsOwned, StartKeepsOwned,
           InsertKeepsOwned, ExchangeKeepsOwned, MigrateKeepsOwned

LEMMA OwnedInitially == Init => Owned
<1> SUFFICES ASSUME Init PROVE Owned
  OBVIOUS
<1>1. /\ \A w \in Workers : task[w] = Idle
      /\ \A g \in Sweepers : todo[g] = {}
  BY DEF Init
<1>2. Fits(Idle) /\ \A t : Apart(Idle, t)
  BY IdleIs DEF Fits, About, Apart, SameDuty, Reserving, Promoting, Deleting
<1> QED BY <1>1, <1>2 DEF Owned

\* What a deletion or a sweep removes from the storage is its to remove, from
\* its claim to its last step: no other worker takes the row over, refers to
\* it again or takes it away meanwhile.  This needs that no operation outlasts
\* the grace period and that sweeps do not run side by side.
THEOREM RemovalsAreOwned ==
    ASSUME OneSweep, GraceCovers PROVE Spec => []RemovalsOwned
<1>1. Spec => [](Base /\ Counted /\ Owned)
  BY BaseInitially, BaseIsInductive, CountedInitially, CountedIsInductive, OwnedInitially,
     OwnedIsInductive, PTL DEF Spec
<1>2. ASSUME Base, Counted, Owned PROVE RemovalsOwned
  <2>1. ASSUME NEW w \in Workers, task[w].step \in {"erase", "drop"}, task[w].uri # None
        PROVE  Mine(w) /\ MyRow(w).gc_state = "deleting" /\ MyRow(w).ref_count = 0
    <3>1. About(task[w]) /\ task[w].step \in Deleting
      BY <2>1 DEF About, Deleting
    <3>2. Mine(w)
      BY <1>2, <2>1 DEF Owned, Fits, Mine
    <3>3. MyRow(w).gc_state = "deleting"
      BY <1>2, <3>1, <3>2 DEF Owned, Fits, Mine, MyRow
    <3> QED BY <1>2, <3>1, <3>2, <3>3, MineIs DEF Counted, Referable
  <2>2. ASSUME NEW g \in Sweepers, task[g].step \in {"reclaim", "recover"},
               Mine(g), MyRow(g).storage_uri # None
        PROVE  FALSE
    <3>1. About(task[g]) /\ g \in Workers
      BY <2>2 DEF About, Workers
    <3> QED BY <1>2, <2>2, <3>1 DEF Owned, Fits, Mine, MyRow, Reserving, Promoting
  <2> QED BY <2>1, <2>2 DEF RemovalsOwned, DutyHeld, ConfirmedKeepsFinal
<1>3. Base /\ Counted /\ Owned => RemovalsOwned
  BY <1>2
<1> QED BY <1>1, <1>3, PTL

-----------------------------------------------------------------------------
(* Where the bytes are.  A row comes to be served without them in three    *)
(* ways, which need a stop or two operations on a content whose row is     *)
(* gone; everything else keeps the bytes where the rows say they are.      *)

\* A deletion ends after the object and before the row.
HalfDeleted ==
    \E w \in Workers :
        /\ task[w].step \in {"erase", "drop"} /\ Mine(w)
        /\ MyRow(w).storage_uri \notin object[task[w].sha] \cup {None}
        /\ stops' # stops /\ task'[w] = Idle

\* A registration writes its row after the object it looked at is gone.
StaleHead ==
    \E w \in Workers :
        /\ task[w].step \in {"register", "register_promote"}
        /\ "external" \notin object[task[w].sha]
        /\ row' # row /\ task'[w] = Idle

\* A sweep deletes the derived key of a row that is not there any more.
Overtaken ==
    \E g \in Sweepers :
        /\ task[g].step \in {"reclaim", "recover"} /\ ~Mine(g)
        /\ object' # object

BytesLost == HalfDeleted \/ StaleHead \/ Overtaken

\* A deletion of the row of s is at work.
Erases(t, s) == t.step \in {"erase", "drop"} /\ t.sha = s /\ Present(s, t.id)

Erasing(s) == \E w \in Workers : Erases(task[w], s)

\* The key of a row that is served holds its bytes, and so does that of a row
\* that is given up for deletion, until the deletion removes it.
Whole(s) ==
    row[s] # None /\ row[s].storage_uri # None =>
        /\ row[s].gc_state \in {"active", "orphan"} => row[s].storage_uri \in object[s]
        /\ row[s].gc_state = "deleting" => row[s].storage_uri \in object[s] \/ Erasing(s)

\* A worker that is about to write the derived key into its row has written
\* the object.
Written(t) ==
    t.step \in {"confirm", "reread", "promote"} /\ Present(t.sha, t.id) =>
        "final" \in object[t.sha]

Stored ==
    /\ \A s \in Shas : Whole(s)
    /\ \A w \in Workers : Written(task[w])

\* A row that a step leaves alone, with its bytes and its deletion.
LEMMA WholeStays ==
    ASSUME Base, NEW s \in Shas, Whole(s), row'[s] = row[s], object[s] \subseteq object'[s],
           NEW w \in Workers, NEW u \in Tasks, task' = [task EXCEPT ![w] = u],
           Erases(task[w], s) => Erases(u, s)
    PROVE  Whole(s)'
<1>1. task'[w] = u /\ \A v \in Workers \ {w} : task'[v] = task[v]
  BY TaskIs
<1>2. \A t : Erases(t, s)' <=> Erases(t, s)
  BY DEF Erases, Present
<1>3. ASSUME Erasing(s) PROVE Erasing(s)'
  <2>1. PICK v \in Workers : Erases(task[v], s)
    BY <1>3 DEF Erasing
  <2>2. Erases(task'[v], s)
    BY <1>1, <2>1
  <2> QED BY <2>2 DEF Erasing, Erases, Present
<1> QED BY <1>3 DEF Whole

\* One worker goes on to u.
LEMMA StoredGoesOn ==
    ASSUME Base, Owned, Stored, NEW w \in Workers, NEW u \in Tasks,
           task' = [task EXCEPT ![w] = u],
           \A s \in Shas : Whole(s)', Written(u)',
           \A t \in Tasks : Known(t) /\ Fits(t) /\ Apart(task[w], t) /\ Written(t) => Written(t)'
    PROVE  Stored'
<1>1. task'[w] = u /\ \A v \in Workers \ {w} : task'[v] = task[v]
  BY TaskIs
<1>2. ASSUME NEW v \in Workers PROVE Written(task[v])'
  <2>1. CASE v = w
    <3>1. Written(u)'
      OBVIOUS
    <3> QED BY <1>1, <2>1, <3>1 DEF Written
  <2>2. CASE v # w
    <3>1. PICK t \in Tasks : t = task[v]
      BY TasksAre
    <3>2. Known(t) /\ Fits(t) /\ Apart(task[w], t) /\ Written(t)
      BY <2>2, <3>1, TasksAre DEF Owned, Stored
    <3>3. Written(t)'
      BY <3>2
    <3> QED BY <1>1, <2>2, <3>1, <3>3 DEF Written
  <2> QED BY <2>1, <2>2
<1> QED BY <1>2 DEF Stored

\* Rows come with new ids and objects are only added.
LEMMA WrittenStays ==
    ASSUME Base, NoRowReturns, \A s \in Shas : object[s] \subseteq object'[s]
    PROVE  \A t \in Tasks : Known(t) /\ Written(t) => Written(t)'
<1> SUFFICES ASSUME NEW t \in Tasks, Known(t), Written(t),
                    t.step \in {"confirm", "reread", "promote"}, Present(t.sha, t.id)'
             PROVE  "final" \in object'[t.sha]
  BY DEF Written
<1>1. About(t) /\ t.sha \in Shas
  BY DEF About, Known
<1>2. Present(t.sha, t.id)
  BY <1>1 DEF NoRowReturns
<1> QED BY <1>1, <1>2 DEF Written

\* A worker takes something up, or gives up while the bytes are there.
LEMMA StartKeepsStored ==
    ASSUME Base, Owned, Stored, ~HalfDeleted, NEW w \in Workers, Started(w) PROVE Stored'
<1>1. PICK u \in Tasks : Starts(w, u)
  BY DEF Started
<1>2. /\ UNCHANGED <<row, object>> /\ task' = [task EXCEPT ![w] = u]
      /\ u.step \in {"idle", "claim", "claim_delete", "register", "register_promote", "insert", "link"}
      /\ task[w].step \in {"erase", "drop"} => u = Idle /\ stops' # stops
  BY <1>1 DEF Starts
<1>3. task'[w] = u
  BY <1>2, TaskIs
<1>4. NoRowReturns
  BY <1>2 DEF NoRowReturns, Present
<1>5. ASSUME NEW s \in Shas PROVE Whole(s)'
  <2>1. CASE ~Erases(task[w], s)
    BY <1>2, <2>1, WholeStays DEF Stored
  <2>2. CASE Erases(task[w], s)
    <3>1. task[w].sha = s /\ Mine(w) /\ MyRow(w) = row[s]
      BY <2>2 DEF Erases, Mine, MyRow, Present
    <3>2. row[s].storage_uri \in object[s] \cup {None}
      BY <1>2, <1>3, <2>2, <3>1 DEF HalfDeleted, Erases
    <3> QED BY <1>2, <3>2 DEF Whole
  <2> QED BY <2>1, <2>2
<1>6. Written(u)'
  BY <1>2 DEF Written
<1> QED BY <1>2, <1>4, <1>5, <1>6, WrittenStays, StoredGoesOn

LEMMA AsideKeepsStored == ASSUME Base, Stored, Aside PROVE Stored'
<1>1. /\ UNCHANGED <<row, task>> /\ \A s \in Shas : object[s] \subseteq object'[s]
  BY DEF Aside
<1>2. NoRowReturns
  BY <1>1 DEF NoRowReturns, Present
<1>3. ASSUME NEW s \in Shas PROVE Whole(s)'
  <2>1. Erasing(s)' <=> Erasing(s)
    BY <1>1 DEF Erasing, Erases, Present
  <2> QED BY <1>1, <2>1 DEF Stored, Whole
<1>4. ASSUME NEW w \in Workers PROVE Written(task[w])'
  <2>1. PICK t \in Tasks : t = task[w]
    BY TasksAre
  <2>2. Written(t)'
    BY <1>1, <1>2, <2>1, TasksAre, WrittenStays DEF Stored
  <2> QED BY <1>1, <2>1, <2>2 DEF Written
<1> QED BY <1>3, <1>4 DEF Stored

\* A row is inserted, which is served at once only if it is registered.
LEMMA InsertKeepsStored ==
    ASSUME Base, Owned, Stored, ~StaleHead, NEW w \in Workers, NEW s \in Shas, InsertedBy(w, s)
    PROVE  Stored'
<1>1. PICK u \in Tasks, r \in MediaRows : Inserts(w, s, u, r)
  BY DEF InsertedBy
<1>2. /\ UNCHANGED object /\ task' = [task EXCEPT ![w] = u]
      /\ Insert(s, r) /\ r.id = made[s] + 1 /\ row[s] = None
      /\ \/ /\ u = Idle /\ r.gc_state = "orphan" /\ r.storage_uri = "external"
            /\ task[w].step = "register" /\ task[w].sha = s
         \/ u.step \in {"copy", "link"} /\ r.storage_uri = None
  BY <1>1 DEF Inserts
<1>3. /\ row'[s] = r /\ \A x \in Shas \ {s} : row'[x] = row[x]
      /\ r # None /\ made[s] \in Nat
  BY <1>2, Inserted, ValuesAssumption, MediaAssumption DEF Base, TypeOK
<1>4. NoRowReturns
  <2>1. ASSUME NEW t \in Tasks, Known(t), About(t), Present(t.sha, t.id)'
        PROVE  Present(t.sha, t.id)
    <3>1. t.sha \in Shas /\ t.id \in 1 .. made[t.sha]
      BY <2>1 DEF Known
    <3>2. t.sha # s
      BY <1>2, <1>3, <2>1, <3>1 DEF Present
    <3> QED BY <1>3, <2>1, <3>1, <3>2 DEF Present
  <2> QED BY <2>1 DEF NoRowReturns
<1>5. task'[w] = u
  BY <1>2, TaskIs
<1>6. ASSUME NEW x \in Shas PROVE Whole(x)'
  <2>1. CASE x # s
    <3>1. ~Erases(task[w], x)
      BY <1>1, <1>2, <2>1 DEF Erases, Inserts
    <3> QED BY <1>2, <1>3, <2>1, <3>1, WholeStays DEF Stored
  <2>2. CASE x = s
    <3>1. r.storage_uri # None =>
            r.storage_uri \in object[s] /\ r.gc_state = "orphan"
      BY <1>2, <1>3, <1>5, IdleIs DEF StaleHead
    <3> QED BY <1>2, <1>3, <2>2, <3>1 DEF Whole
  <2> QED BY <2>1, <2>2
<1>7. Written(u)'
  BY <1>2, IdleIs DEF Written
<1> QED BY <1>2, <1>4, <1>6, <1>7, WrittenStays, StoredGoesOn

\* The bytes of a row stay while references to it come and go.
LEMMA RelinksWhole ==
    ASSUME Base, NEW m \in Memories, NEW x, NEW dropped \in BOOLEAN, Relinks(m, x, dropped),
           NEW s \in Shas, Whole(s), Erasing(s) => Erasing(s)'
    PROVE  Whole(s)'
<1>1. object' = object
  BY DEF Relinks
<1>2. ASSUME row'[s] # None, row'[s].storage_uri # None
      PROVE  /\ row'[s].gc_state \in {"active", "orphan"} => row'[s].storage_uri \in object'[s]
             /\ row'[s].gc_state = "deleting" => row'[s].storage_uri \in object'[s] \/ Erasing(s)'
  <2>1. row[s] # None /\ row[s].storage_uri = row'[s].storage_uri
    BY <1>2, RelinkedStates
  <2>2. \/ row'[s].gc_state = row[s].gc_state
        \/ row[s].gc_state \in {"active", "orphan"}
    BY <2>1, RelinkedStates
  <2> QED BY <1>1, <1>2, <2>1, <2>2 DEF Whole
<1> QED BY <1>2 DEF Whole

\* References change and the tasks are at least as far as before.
LEMMA RelinksKeepsStored ==
    ASSUME Base, Counted, Owned, Stored,
           NEW m \in Memories, NEW x, NEW dropped \in BOOLEAN, Relinks(m, x, dropped),
           \A v \in Workers : task'[v] = task[v]
                              \/ (task[v].step \in {"idle", "link"} /\ task'[v].step \in {"idle", "erase"})
    PROVE  Stored'
<1>1. object' = object /\ NoRowReturns
  BY RelinksFit DEF Relinks
<1>2. ASSUME NEW s \in Shas, Erasing(s) PROVE Erasing(s)'
  <2>1. PICK v \in Workers : Erases(task[v], s)
    BY <1>2 DEF Erasing
  <2>2. task'[v] = task[v]
    BY <2>1 DEF Erases
  <2>3. Present(s, task[v].id)'
    BY <2>1, <2>2, RelinkedStates DEF Erases, Present
  <2> QED BY <2>1, <2>2, <2>3 DEF Erasing, Erases
<1>3. ASSUME NEW s \in Shas PROVE Whole(s)'
  BY <1>2, RelinksWhole DEF Stored
<1>4. ASSUME NEW v \in Workers PROVE Written(task[v])'
  <2>1. CASE task'[v] # task[v]
    BY <2>1 DEF Written
  <2>2. CASE task'[v] = task[v]
    <3>1. PICK t \in Tasks : t = task[v]
      BY TasksAre
    <3>2. Known(t) /\ Written(t)
      BY <3>1, TasksAre DEF Stored
    <3>3. Written(t)'
      BY <1>1, <3>2, WrittenStays
    <3> QED BY <2>2, <3>1, <3>3 DEF Written
  <2> QED BY <2>1, <2>2
<1> QED BY <1>3, <1>4 DEF Stored

LEMMA ExchangeKeepsStored ==
    ASSUME Base, Counted, Owned, Stored, NEW w \in Requests, NEW m \in Memories, NEW x,
           Exchanging(w, m, x)
    PROVE  Stored'
<1>1. Relinks(m, x, TRUE) /\ DutyAfter(w, link[m]) /\ link[m] # None /\ w \in Workers
      /\ task[w].step = "idle"
  BY WorkersAre DEF Exchanging, At
<1>2. CASE UNCHANGED task
  BY <1>1, <1>2, RelinksKeepsStored
<1>3. CASE ~UNCHANGED task
  <2>1. PICK u \in Tasks : u.step = "erase" /\ task' = [task EXCEPT ![w] = u]
    BY <1>1, <1>3, DutyIs
  <2>2. \A v \in Workers : task'[v] = task[v]
                           \/ (task[v].step \in {"idle", "link"} /\ task'[v].step \in {"idle", "erase"})
    BY <1>1, <2>1, TaskIs
  <2> QED BY <1>1, <2>2, RelinksKeepsStored
<1> QED BY <1>2, <1>3

LEMMA MigrateKeepsStored ==
    ASSUME Base, Counted, Owned, Stored, NEW w \in Migrators, Migrated(w) PROVE Stored'
<1>1. /\ Relinks(task[w].memory, [sha |-> task[w].sha, id |-> task[w].id], FALSE)
      /\ task[w].memory \in Memories /\ w \in Workers /\ task[w].step = "link"
      /\ task' = [task EXCEPT ![w] = Idle]
  BY WorkersAre DEF Migrated, Finish
<1>2. \A v \in Workers : task'[v] = task[v]
                         \/ (task[v].step \in {"idle", "link"} /\ task'[v].step \in {"idle", "erase"})
  BY <1>1, IdleIs, TaskIs
<1> QED BY <1>1, <1>2, RelinksKeepsStored

\* A sweep lists, takes up a row, or ends while the bytes are there.
LEMMA SweptKeepsStored ==
    ASSUME Base, Owned, Stored, ~HalfDeleted, NEW g \in Sweepers, Swept(g) PROVE Stored'
<1>1. g \in Workers
  BY WorkersAre
<1>2. CASE \E stale \in SUBSET Shas : SweepList(g, stale)
  <2>1. UNCHANGED <<row, object, task>>
    BY <1>2, SweepListIs
  <2> QED BY <2>1 DEF Stored, Whole, Written, Erasing, Erases, Present
<1>3. CASE ~(\E stale \in SUBSET Shas : SweepList(g, stale))
  <2>1. PICK u \in Tasks :
          /\ task' = [task EXCEPT ![g] = u]
          /\ UNCHANGED <<row, object>>
          /\ \/ task[g].step = "idle" /\ u \in todo[g]
             \/ u = Idle /\ stops' # stops
    <3>1. CASE \E t \in todo[g] : SweepRow(g, t)
      BY <3>1, SweepRowIs
    <3>2. CASE SweepStops(g)
      BY <3>2, SweepStopsIs, IdleIs
    <3> QED BY <1>3, <3>1, <3>2 DEF Swept
  <2>2. NoRowReturns
    BY <2>1 DEF NoRowReturns, Present
  <2>3. task'[g] = u
    BY <1>1, <2>1, TaskIs
  <2>4. u.step \notin {"confirm", "reread", "promote"}
    <3>1. CASE u \in todo[g]
      <4>1. u.step = FirstStep[phase[g]] /\ phase[g] \in Phases
        BY <3>1 DEF Base, TypeOK
      <4> QED BY <4>1 DEF FirstStep, Phases
    <3> QED BY <2>1, <3>1, IdleIs
  <2>5. ASSUME NEW s \in Shas PROVE Whole(s)'
    <3>1. CASE ~Erases(task[g], s)
      BY <1>1, <2>1, <3>1, WholeStays DEF Stored
    <3>2. CASE Erases(task[g], s)
      <4>1. task[g].sha = s /\ Mine(g) /\ MyRow(g) = row[s] /\ u = Idle /\ stops' # stops
        BY <2>1, <3>2 DEF Erases, Mine, MyRow, Present
      <4>2. row[s].storage_uri \in object[s] \cup {None}
        BY <1>1, <2>3, <3>2, <4>1 DEF HalfDeleted, Erases
      <4> QED BY <2>1, <4>2 DEF Whole
    <3> QED BY <3>1, <3>2
  <2>6. Written(u)'
    BY <2>4 DEF Written
  <2> QED BY <1>1, <2>1, <2>2, <2>5, <2>6, WrittenStays, StoredGoesOn
<1> QED BY <1>2, <1>3

\* A worker goes on with its own row: a key that loses its bytes belongs to a
\* deletion, or to a row without a storage_uri.
LEMMA GoneIs ==
    ASSUME Base, Owned, ~Overtaken, NEW w \in Workers, NEW u \in Tasks,
           NEW r \in MediaRows \cup {None}, OwnEffect(w, u, r),
           NEW s \in Shas, NEW k \in object[s], k \notin object'[s]
    PROVE  /\ task[w].sha = s /\ Mine(w)
           /\ \/ /\ task[w].step = "erase" /\ task[w].uri = k
                 /\ MyRow(w).gc_state = "deleting" /\ MyRow(w).storage_uri # None
              \/ /\ task[w].step = "reclaim" /\ MyRow(w).storage_uri = None
                 /\ MyRow(w).gc_state \in {"orphan", "deleting"}
              \/ /\ task[w].step = "recover" /\ MyRow(w).storage_uri = None
                 /\ MyRow(w).gc_state = "promoting"
<1>1. /\ About(task[w]) /\ Outcome(w, u, r)
  BY DEF OwnEffect
<1>2. PICK a \in Tasks : a = task[w]
  BY TasksAre
<1>3. PICK o \in MediaRows \cup {None} : o = MyRow(w)
  BY <1>1, MyRowIs
<1>4. /\ About(a) /\ Known(a) /\ Fits(a) /\ a.sha \in Shas /\ o = row[a.sha]
      /\ object \in [Shas -> SUBSET Keys] /\ None \notin Keys
      /\ Mine(w) <=> Present(a.sha, a.id)
  BY <1>1, <1>2, <1>3, MyRowIs, ValuesAssumption DEF Base, Owned, TypeOK, Mine
<1>5. GoesOn(a, u, o) \/ Settles(a, u, o, r)
  BY <1>1, <1>2, <1>3 DEF Outcome
<1>6. \/ object' = object
      \/ object' = [object EXCEPT ![a.sha] = @ \cup {"final"}]
      \/ a.step = "erase" /\ object' = [object EXCEPT ![a.sha] = @ \ {a.uri}]
      \/ a.step \in {"reclaim", "recover"} /\ object' = [object EXCEPT ![a.sha] = @ \ {"final"}]
  <2>1. CASE GoesOn(a, u, o)
    BY <2>1 DEF GoesOn
  <2>2. CASE Settles(a, u, o, r)
    BY <2>2 DEF Settles
  <2> QED BY <1>5, <2>1, <2>2
<1>7. /\ a.sha = s
      /\ \/ a.step = "erase" /\ a.uri = k
         \/ a.step \in {"reclaim", "recover"}
  BY <1>4, <1>6
<1>8. CASE a.step = "erase" /\ a.uri = k
  <2>1. k # None
    BY <1>4
  <2>2. Present(a.sha, a.id) /\ o.storage_uri # None /\ o.gc_state = "deleting"
    BY <1>4, <1>8, <2>1 DEF Fits, Deleting
  <2> QED BY <1>2, <1>3, <1>4, <1>7, <1>8, <2>2
<1>9. CASE a.step \in {"reclaim", "recover"}
  <2>1. w \in Sweepers
    BY <1>2, <1>9 DEF Base, SweepSteps
  <2>2. object' # object
    OBVIOUS
  <2>3. Mine(w)
    BY <1>2, <1>9, <2>1, <2>2 DEF Overtaken
  <2>4. /\ a.step = "reclaim" => o.storage_uri = None /\ o.gc_state \in {"orphan", "deleting"}
        /\ a.step = "recover" => o.storage_uri = None /\ o.gc_state = "promoting"
    BY <1>4, <1>9, <2>3 DEF Fits, Reserving, Promoting
  <2> QED BY <1>2, <1>3, <1>4, <1>7, <1>9, <2>3, <2>4
<1> QED BY <1>7, <1>8, <1>9

\* What others have written stays.
LEMMA EffectKeepsWritten ==
    ASSUME Base, Owned, ~Overtaken, NEW w \in Workers, NEW u \in Tasks,
           NEW r \in MediaRows \cup {None}, OwnEffect(w, u, r), NoRowReturns,
           NEW t \in Tasks, Known(t), Fits(t), Apart(task[w], t), Written(t)
    PROVE  Written(t)'
<1> SUFFICES ASSUME t.step \in {"confirm", "reread", "promote"}, Present(t.sha, t.id)',
                    "final" \notin object'[t.sha]
             PROVE  FALSE
  BY DEF Written
<1>1. About(t) /\ t.sha \in Shas
  BY DEF About, Known
<1>2. Present(t.sha, t.id) /\ "final" \in object[t.sha]
  BY <1>1 DEF NoRowReturns, Written
<1>3. /\ task[w].sha = t.sha /\ Mine(w)
      /\ \/ /\ task[w].step = "erase"
            /\ MyRow(w).gc_state = "deleting" /\ MyRow(w).storage_uri # None
         \/ /\ task[w].step = "reclaim" /\ MyRow(w).storage_uri = None
            /\ MyRow(w).gc_state \in {"orphan", "deleting"}
         \/ /\ task[w].step = "recover" /\ MyRow(w).storage_uri = None
            /\ MyRow(w).gc_state = "promoting"
  BY <1>1, <1>2, GoneIs
<1>4. task[w].id = t.id /\ MyRow(w) = row[t.sha]
  BY <1>2, <1>3 DEF Mine, MyRow, Present
<1>5. /\ t.step = "confirm" => row[t.sha].storage_uri = None /\ row[t.sha].gc_state # "promoting"
      /\ t.step # "confirm" => row[t.sha].gc_state = "promoting"
  BY <1>1, <1>2 DEF Fits, Reserving, Promoting
<1>6. ~SameDuty(task[w].step, t.step)
  BY <1>2, <1>3, <1>4 DEF Apart, Mine
<1> QED BY <1>3, <1>4, <1>5, <1>6 DEF SameDuty, Reserving, Promoting

\* The row of a worker keeps its bytes when it is left as it was.
LEMMA StayKeepsWhole ==
    ASSUME Base, Owned, Stored, ~BytesLost, NEW w \in Workers, NEW u \in Tasks,
           NEW r \in MediaRows \cup {None}, OwnEffect(w, u, r), r = MyRow(w),
           GoesOn(task[w], u, MyRow(w)), NEW s \in Shas, s = task[w].sha
    PROVE  Whole(s)'
<1>1. /\ About(task[w]) /\ task' = [task EXCEPT ![w] = u]
      /\ row' = [row EXCEPT ![task[w].sha] = r]
  BY DEF OwnEffect, OwnRow
<1>2. task'[w] = u /\ \A v \in Workers \ {w} : task'[v] = task[v]
  BY <1>1, TaskIs
<1>3. row' = row /\ MyRow(w) = row[task[w].sha]
  BY <1>1, MyRowIs
<1>4. s = task[w].sha
  OBVIOUS
<1>5. ASSUME row[s] # None, NEW k \in object[s], k \notin object'[s], row[s].storage_uri = k
      PROVE  row[s].gc_state = "deleting" /\ Erasing(s)'
  <2>1. /\ Mine(w) /\ task[w].step = "erase" /\ task[w].uri = k
        /\ row[s].gc_state = "deleting"
    <3>1. k # None
      BY <1>5, ValuesAssumption DEF Base, TypeOK
    <3> QED BY <1>3, <1>4, <1>5, <3>1, GoneIs DEF BytesLost
  <2>2. u.step = "drop" /\ u.sha = s /\ u.id = task[w].id
    <3>1. object'[s] # object[s] /\ row[s].id = task[w].id
      BY <1>4, <1>5, <2>1 DEF Mine, Present
    <3> QED BY <1>3, <1>4, <1>5, <2>1, <3>1 DEF GoesOn
  <2>3. Present(s, u.id)'
    BY <1>3, <1>4, <2>1, <2>2 DEF Mine, Present
  <2> QED BY <1>2, <2>1, <2>2, <2>3 DEF Erasing, Erases
<1>6. ASSUME row[s] # None, row[s].storage_uri # None, row[s].gc_state = "deleting",
             row[s].storage_uri \notin object'[s], Erasing(s)
      PROVE  Erasing(s)'
  <2>1. PICK v \in Workers : Erases(task[v], s)
    BY <1>6 DEF Erasing
  <2>2. CASE v # w
    BY <1>2, <1>3, <2>1, <2>2 DEF Erasing, Erases, Present
  <2>3. CASE v = w
    <3>1. Mine(w) /\ task[w].step \in {"erase", "drop"} /\ row[s].id = task[w].id
      BY <1>4, <2>1, <2>3 DEF Erases, Mine, Present
    <3>2. \/ u = Idle /\ UNCHANGED object /\ stops' # stops
          \/ u.step = "drop" /\ u.sha = s /\ u.id = task[w].id
      BY <1>3, <1>4, <1>6, <3>1 DEF GoesOn, GivenUp
    <3>3. CASE u = Idle /\ UNCHANGED object /\ stops' # stops
      <4>1. row[s].storage_uri \in object[s]
        BY <1>2, <1>3, <1>4, <1>6, <3>1, <3>3 DEF BytesLost, HalfDeleted
      <4> QED BY <1>6, <3>3, <4>1
    <3>4. CASE u.step = "drop" /\ u.sha = s /\ u.id = task[w].id
      BY <1>2, <1>3, <1>6, <3>1, <3>4 DEF Erasing, Erases, Present
    <3> QED BY <3>2, <3>3, <3>4
  <2> QED BY <2>2, <2>3
<1>7. Whole(s)
  BY DEF Stored
<1> QED BY <1>3, <1>5, <1>6, <1>7 DEF Whole

\* The row of a worker has its bytes when it is written.
LEMMA SettleKeepsWhole ==
    ASSUME Base, Counted, Owned, Stored, ~BytesLost, NEW w \in Workers, NEW u \in Tasks,
           NEW r \in MediaRows \cup {None}, OwnEffect(w, u, r), Mine(w),
           Settles(task[w], u, MyRow(w), r), NEW s \in Shas, s = task[w].sha
    PROVE  Whole(s)'
<1>1. /\ About(task[w]) /\ task' = [task EXCEPT ![w] = u]
      /\ row' = [row EXCEPT ![task[w].sha] = r]
  BY DEF OwnEffect, OwnRow
<1>2. task'[w] = u /\ \A v \in Workers \ {w} : task'[v] = task[v]
  BY <1>1, TaskIs
<1>3. PICK a \in Tasks : a = task[w]
  BY TasksAre
<1>4. PICK o \in MediaRows : o = MyRow(w) /\ o = row[s] /\ o.id = a.id /\ o # None
  BY <1>1, <1>3, MyRowIs, MineIs
<1>5. /\ row'[s] = r /\ Known(a) /\ Fits(a) /\ Written(a) /\ Present(a.sha, a.id)
      /\ a.sha = s
  BY <1>1, <1>3, <1>4 DEF Base, TypeOK, Owned, Stored, Mine, Present
<1>6. Settles(a, u, o, r)
  BY <1>3, <1>4
<1>7. o.storage_uri # None =>
        /\ o.gc_state \in {"active", "orphan"} => o.storage_uri \in object[s]
        /\ o.gc_state = "deleting" => o.storage_uri \in object[s] \/ Erasing(s)
  BY <1>4 DEF Stored, Whole
<1> SUFFICES ASSUME r # None, r.storage_uri # None
             PROVE  /\ r.gc_state \in {"active", "orphan"} => r.storage_uri \in object'[s]
                    /\ r.gc_state = "deleting" => r.storage_uri \in object'[s] \/ Erasing(s)'
  BY <1>5 DEF Whole
<1>8. CASE a.step \in {"claim_delete", "reclaim_failed"}
  <2>1. /\ u.step = "erase" /\ u.sha = a.sha /\ u.id = a.id
        /\ \/ o.gc_state \in {"active", "orphan"}
           \/ a.step = "reclaim_failed"
        /\ r = [o EXCEPT !.gc_state = "deleting"] /\ UNCHANGED object
    BY <1>6, <1>8 DEF Settles
  <2>2. r.gc_state = "deleting" /\ r.storage_uri = o.storage_uri /\ r.id = o.id
    BY <2>1 DEF MediaRows
  <2>3. Erases(u, s)'
    BY <1>4, <1>5, <2>1, <2>2 DEF Erases, Present
  <2>4. Erasing(s)'
    BY <1>2, <2>3 DEF Erasing, Erases, Present
  <2> QED BY <2>2, <2>4
<1>9. CASE a.step \in {"confirm", "promote"}
  <2>1. r.storage_uri = "final" /\ UNCHANGED object /\ r.gc_state # "deleting"
    <3>1. /\ a.step = "confirm" => r = [o EXCEPT !.storage_uri = "final"] /\ o.gc_state = "orphan"
          /\ a.step = "promote" =>
               r = [o EXCEPT !.storage_uri = "final", !.gc_state = a.gc_state]
          /\ UNCHANGED object
      BY <1>6, <1>9 DEF Settles
    <3>2. a.step = "promote" => a.gc_state # "deleting"
      BY <1>5 DEF Known
    <3> QED BY <1>9, <3>1, <3>2 DEF MediaRows
  <2>2. "final" \in object[s]
    BY <1>5, <1>9 DEF Written
  <2> QED BY <2>1, <2>2
<1>10. CASE a.step = "register_promote"
  <2>1. /\ r = [o EXCEPT !.storage_uri = "external", !.gc_state = a.gc_state]
        /\ o.gc_state \in {"deleted_failed", "unresolvable"} /\ u = Idle /\ UNCHANGED object
    BY <1>6, <1>10 DEF Settles
  <2>2. a.gc_state \in {"active", "orphan"}
    BY <1>5, <1>10 DEF Known
  <2>3. r.storage_uri = "external" /\ r.gc_state = a.gc_state
    BY <2>1 DEF MediaRows
  <2>4. row' # row
    <3>1. r # o
      BY <2>1, <2>2, <2>3
    <3> QED BY <1>4, <1>5, <3>1
  <2>5. "external" \in object[s]
    BY <1>2, <1>3, <1>5, <1>10, <2>1, <2>4 DEF BytesLost, StaleHead
  <2> QED BY <2>1, <2>2, <2>3, <2>5
<1>11. CASE a.step = "revert_deleting"
  <2>1. r = [o EXCEPT !.gc_state = "orphan"] /\ UNCHANGED object /\ o.gc_state = "deleting"
    BY <1>6, <1>11 DEF Settles
  <2>2. r.storage_uri = o.storage_uri /\ r.gc_state = "orphan"
    BY <2>1 DEF MediaRows
  <2>3. ~Erasing(s)
    <3> SUFFICES ASSUME NEW v \in Workers, Erases(task[v], s) PROVE FALSE
      BY DEF Erasing
    <3>1. v # w /\ task[v].sha = s /\ task[v].step \in {"erase", "drop"} /\ task[v].id = a.id
      BY <1>3, <1>4, <1>11 DEF Erases, Present
    <3>2. Apart(task[w], task[v])
      BY <3>1 DEF Owned
    <3> QED BY <1>3, <1>5, <1>11, <3>1, <3>2 DEF Apart, SameDuty, Deleting
  <2> QED BY <1>7, <2>1, <2>2, <2>3
<1>12. CASE a.step = "reconcile"
  <2>1. r = [o EXCEPT !.ref_count = a.actual] /\ UNCHANGED object /\ o.gc_state \in {"active", "orphan"}
    BY <1>6, <1>12 DEF Settles
  <2>2. r.storage_uri = o.storage_uri /\ r.gc_state = o.gc_state
    BY <2>1 DEF MediaRows
  <2> QED BY <1>7, <2>1, <2>2
<1>13. CASE a.step \notin {"claim_delete", "reclaim_failed", "confirm", "promote",
                           "register_promote", "revert_deleting", "reconcile"}
  <2>1. \/ r = [o EXCEPT !.gc_state = "promoting"]
        \/ r = [o EXCEPT !.gc_state = "deleted_failed"]
        \/ r = [o EXCEPT !.gc_state = "unresolvable"]
    BY <1>6, <1>13 DEF Settles
  <2> QED BY <2>1 DEF MediaRows
<1> QED BY <1>8, <1>9, <1>10, <1>11, <1>12, <1>13

LEMMA EffectKeepsStored ==
    ASSUME Base, Counted, Owned, Stored, ~BytesLost, NEW w \in Workers, Effective(w)
    PROVE  Stored'
<1>1. PICK u \in Tasks, r \in MediaRows \cup {None} : OwnEffect(w, u, r)
  BY DEF Effective
<1>2. /\ About(task[w]) /\ Outcome(w, u, r) /\ task' = [task EXCEPT ![w] = u]
      /\ row' = [row EXCEPT ![task[w].sha] = r]
      /\ UNCHANGED made
  BY <1>1 DEF OwnEffect, OwnRow
<1>3. /\ task[w].sha \in Shas /\ MyRow(w) = row[task[w].sha]
      /\ row'[task[w].sha] = r
      /\ \A x \in Shas : x # task[w].sha => row'[x] = row[x]
  BY <1>2, MyRowIs DEF Base, TypeOK
<1>4. NoRowReturns
  <2>1. row'[task[w].sha] # None => MyRow(w) # None /\ row'[task[w].sha].id = MyRow(w).id
    <3>1. CASE r = MyRow(w)
      BY <1>3, <3>1
    <3>2. CASE Mine(w) /\ r # None
      <4>1. r.id = made[task[w].sha] /\ MyRow(w) # None
        BY <1>1, <1>2, <3>2, MineIs DEF OwnEffect
      <4> QED BY <1>2, <1>3, <4>1, MyRowIs
    <3> QED BY <1>2, <1>3, <3>1, <3>2 DEF Outcome
  <2> QED BY <1>3, <2>1 DEF NoRowReturns, Known, Present
<1>5. ASSUME NEW s \in Shas PROVE Whole(s)'
  <2>1. CASE s # task[w].sha
    <3>1. row'[s] = row[s] /\ ~Erases(task[w], s)
      BY <1>3, <2>1 DEF Erases
    <3>2. object[s] \subseteq object'[s]
      BY <1>1, <2>1, GoneIs DEF BytesLost
    <3> QED BY <1>2, <3>1, <3>2, WholeStays DEF Stored
  <2>2. CASE s = task[w].sha
    BY <1>1, <1>2, <2>2, StayKeepsWhole, SettleKeepsWhole DEF Outcome
  <2> QED BY <2>1, <2>2
<1>6. Written(u)'
  <2> SUFFICES ASSUME u.step \in {"confirm", "reread", "promote"}, Present(u.sha, u.id)'
               PROVE  "final" \in object'[u.sha]
    BY DEF Written
  <2>1. r = MyRow(w) /\ GoesOn(task[w], u, MyRow(w))
    BY <1>2, IdleIs DEF Outcome, Settles
  <2>2. /\ u.sha = task[w].sha /\ u.id = task[w].id
        /\ \/ object' = [object EXCEPT ![task[w].sha] = @ \cup {"final"}]
           \/ /\ task[w].step = "reread" /\ UNCHANGED object
              /\ MyRow(w) # None /\ MyRow(w).id = task[w].id
    BY <2>1, IdleIs DEF GoesOn
  <2>3. CASE object' = [object EXCEPT ![task[w].sha] = @ \cup {"final"}]
    BY <1>3, <2>2, <2>3 DEF Base, TypeOK
  <2>4. CASE task[w].step = "reread" /\ UNCHANGED object
             /\ MyRow(w) # None /\ MyRow(w).id = task[w].id
    <3>1. Written(task[w]) /\ Present(task[w].sha, task[w].id)
      BY <1>3, <2>4 DEF Stored, Present
    <3> QED BY <2>2, <2>4, <3>1 DEF Written
  <2> QED BY <2>2, <2>3, <2>4
<1>7. \A t \in Tasks : Known(t) /\ Fits(t) /\ Apart(task[w], t) /\ Written(t) => Written(t)'
  BY <1>1, <1>4, EffectKeepsWritten DEF BytesLost
<1> QED BY <1>2, <1>5, <1>6, <1>7, StoredGoesOn

LEMMA StoredIsInductive ==
    ASSUME Base, Counted, Owned, Stored, [Next]_vars, ~BytesLost
    PROVE  Stored'
<1>1. ASSUME NEW m \in Memories, NEW s \in Shas, UNCHANGED <<task, page>>,
             Relinks(m, [sha |-> s, id |-> row[s].id], TRUE)
      PROVE  Stored'
  BY <1>1, RelinksKeepsStored
<1> QED BY <1>1, StepIs, AsideKeepsStored, EffectKeepsStored, StartKeepsStored,
           InsertKeepsStored, ExchangeKeepsStored, MigrateKeepsStored, SweptKeepsStored
        DEF BytesLost

LEMMA StoredInitially == Init => Stored
<1> SUFFICES ASSUME Init PROVE Stored
  OBVIOUS
<1>1. /\ \A s \in Shas : row[s] = None
      /\ \A w \in Workers : task[w] = Idle
  BY DEF Init
<1> QED BY <1>1, IdleIs DEF Stored, Whole, Written

\* What a memory refers to is there, is not given up for deletion, and holds
\* its bytes if it is served ("a memory could end up pointing at media whose
\* bytes are gone"), unless one of the three steps of BytesLost was taken.
THEOREM BytesAreBehindReferences ==
    ASSUME OneSweep, GraceCovers
    PROVE  Spec /\ [][~BytesLost]_vars => []BytesBehindReferences
<1>1. Base /\ Counted /\ Owned /\ Stored /\ [Next]_vars /\ [~BytesLost]_vars
        => Base' /\ Counted' /\ Owned' /\ Stored'
  <2>1. ASSUME Base, Counted, Owned, Stored, [Next]_vars, ~BytesLost
        PROVE  Base' /\ Counted' /\ Owned' /\ Stored'
    BY <2>1, BaseIsInductive, CountedIsInductive, OwnedIsInductive, StoredIsInductive
  <2>2. ASSUME Base, Counted, Owned, Stored, [Next]_vars, UNCHANGED vars
        PROVE  Base' /\ Counted' /\ Owned' /\ Stored'
    <3>1. Stored'
      BY <2>2 DEF vars, Stored, Whole, Written, Erasing, Erases, Present
    <3> QED BY <2>2, <3>1, BaseIsInductive, CountedIsInductive, OwnedIsInductive
  <2> QED BY <2>1, <2>2
<1>2. Init => Base /\ Counted /\ Owned /\ Stored
  BY BaseInitially, CountedInitially, OwnedInitially, StoredInitially
<1>3. Base /\ Counted /\ Stored => BytesBehindReferences
  <2>1. ASSUME Base, Counted, Stored, NEW m \in Memories, link[m] # None
        PROVE  /\ Present(link[m].sha, link[m].id)
               /\ Referable(row[link[m].sha])
               /\ (row[link[m].sha].storage_uri # None /\ row[link[m].sha].gc_state \in {"active", "orphan"}) =>
                        row[link[m].sha].storage_uri \in object[link[m].sha]
    <3>1. link[m].sha \in Shas /\ Present(link[m].sha, link[m].id)
      BY <2>1, LinkIs DEF Counted
    <3>2. row[link[m].sha] # None
      BY <3>1 DEF Present
    <3>3. Referable(row[link[m].sha])
      <4>1. row[link[m].sha].ref_count # 0
        BY <2>1, <3>1, <3>2, ZeroIsUnreferenced
      <4> QED BY <2>1, <3>1, <3>2, <4>1 DEF Counted
    <3> QED BY <2>1, <3>1, <3>2, <3>3 DEF Stored, Whole
  <2> QED BY <2>1 DEF BytesBehindReferences
<1> QED BY <1>1, <1>2, <1>3, PTL DEF Spec

=============================================================================
