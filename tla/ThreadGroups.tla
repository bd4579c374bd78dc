----------------------------- MODULE ThreadGroups -----------------------------
(* Threads of conversations, the relation of a thread to the thread it was  *)
(* spawned from, and the groups threads are shown in: the reconciler of     *)
(* app/src/app/thread_group, the operator's merge, split, attach and        *)
(* decisions, and the deletion and re-import of threads. An import records  *)
(* evidence of parents; the reconciler adopts at most one parent per thread *)
(* and keeps automatic members in the group of their parent. Each action is *)
(* one transaction under the global membership lock; what runs in several   *)
(* transactions is several actions.                                         *)
EXTENDS FiniteSets, Naturals

CONSTANTS
    Threads,        \* threads, each with one source identity and one key
    Present,        \* threads imported before groups were kept
    Evidence,       \* observations of parents
    Batches,        \* the sets of them that an import may carry
    MaxGroups,      \* bound on the groups ever created
    MaxActs,        \* bound on operator actions, deletions and aborted imports
    AttachesAlone,  \* no deletion between the two steps of an attach
    None

Groups == 1 .. MaxGroups

\* Exact evidence outranks strong evidence; weaker evidence is never used.
Ranks == {1, 3}

Kinds == {"delegated", "fork", "continuation"}

ASSUME EvidenceAssumption ==
    Evidence \subseteq
        [child : Threads, parent : Threads, rank : Ranks, kind : Kinds]

ASSUME BoundsAssumption ==
    /\ Present \subseteq Threads
    /\ MaxGroups \in Nat
    /\ MaxActs \in Nat
    /\ AttachesAlone \in BOOLEAN

ASSUME BatchesAssumption == Batches \subseteq SUBSET Evidence

\* The rows of thread_relation, thread_group_member and thread_group, and the
\* candidate associations of observations.
Relations(known) == [parent : Threads, kind : Kinds, evidence : known \cup {None}]

Memberships == [group : Groups, state : {"active", "deleted"}, by : {"reconciler", "operator"}]

GroupRows ==
    [status : {"none", "active", "redirected", "split", "purged"},
     by : {"reconciler", "operator"}, key : Threads \cup {None},
     redirect : Groups \cup {None}]

Associations ==
    [state : {"pending", "candidate", "conflict", "superseded"},
     subject : BOOLEAN, parent : BOOLEAN]

Attaches == [thread : Threads, group : Groups]

\* What stands for an absent thing is nothing else.
ASSUME NoneAssumption ==
    /\ None \notin Threads /\ None \notin Groups /\ None \notin Evidence
    /\ None \notin Relations(Evidence) /\ None \notin Memberships
    /\ None \notin Associations /\ None \notin Attaches

VARIABLES
    row,       \* has the thread a row, an identity and a key
    marked,    \* has its identity a deletion marker
    observed,  \* evidence recorded
    assoc,     \* candidate association of an observation, or None
    rel,       \* the active relation of a child, or None
    member,    \* the current membership of a thread, or None
    past,      \* redirected membership rows: <<thread, group>>
    group,     \* rows of thread_group
    due,       \* late reconciliations an import still has to run
    acts,      \* what MaxActs bounds, so far
    deletion,  \* a deletion that has read its targets, or None
    attaching  \* an attach that has read its thread, or None

vars == <<row, marked, observed, assoc, rel, member, past, group, due, acts,
          deletion, attaching>>

evidenceVars == <<observed, assoc, due>>
homeVars == <<member, past, group>>
threadVars == <<row, marked, deletion>>

Act ==
    /\ acts < MaxActs
    /\ acts' = acts + 1

-----------------------------------------------------------------------------
(* Lineage.                                                                 *)

\* A thread and all its ancestors under the relations r, as ancestor_contains
\* and resolve_anchor_group walk them: the smallest set with t and the parents
\* of all its threads.
UpClosed(r, S) == \A c \in S : r[c] # None => r[c].parent \in S

Line(r, t) ==
    LET closed == {S \in SUBSET Threads : t \in S /\ UpClosed(r, S)}
    IN  {a \in Threads : \A S \in closed : a \in S}

\* Mutant: only a thread that is its own parent is noticed.
ClosesOnItself(t, p) == t = p

\* With t under p the relations would close a cycle.
Closes(t, p) == t \in Line(rel, p)

\* May the evidence name a parent for an import, and for a late reconciliation?
Resolves(p) == row[p] /\ ~marked[p]

Seated(p) == member[p] # None /\ member[p].state = "active"

ReadyForImport(p) == Resolves(p) /\ (member[p] # None => Seated(p))

ReadyForLate(p) == Resolves(p) /\ Seated(p)

-----------------------------------------------------------------------------
(* Homes: the rows of thread_group_member and thread_group, as one record.  *)

Homes == [member |-> member, past |-> past, group |-> group]

Become(h) ==
    /\ member' = h.member
    /\ past' = h.past
    /\ group' = h.group

\* Mutant: what the operator placed moves like the rest.
NeverFixed(h, t) == FALSE

\* The operator has placed t.
Fixed(h, t) == h.member[t] # None /\ h.member[t].by = "operator"

Seat(g, state, by) == [group |-> g, state |-> state, by |-> by]

Active(g) == group[g].status = "active"

MembersOf(h, g) ==
    {t \in Threads : h.member[t] # None /\ h.member[t].group = g}

\* Mutant: the state of the row that is left behind is not carried over.
AutomaticSeatLive(h, t, g) ==
    IF h.member[t] # None \/ row[t] THEN Seat(g, "active", "reconciler") ELSE None

\* An automatic row of t in g. A placeholder stays one; without a thread row
\* nothing is inserted.
AutomaticSeat(h, t, g) ==
    IF h.member[t] # None /\ h.member[t].state = "deleted"
    THEN Seat(g, "deleted", "reconciler")
    ELSE IF row[t] THEN Seat(g, "active", "reconciler") ELSE None

Left(h, S) ==
    {<<t, h.member[t].group>> : t \in {s \in S : h.member[s] # None}}

\* Mutant: the groups redirected earlier are forgotten.
RepointedNot(h, gone, g) == h.group

\* Groups that redirected to one of gone point to g instead.
Repointed(h, gone, g) ==
    [x \in Groups |->
       IF h.group[x].redirect \in gone
       THEN [h.group[x] EXCEPT !.redirect = g]
       ELSE h.group[x]]

\* Mutant: only the first thread that moves can leave a group empty.
EmptiedAlone(h, movers) ==
    {o \in {h.member[t].group : t \in {m \in movers : h.member[m] # None}} :
       MembersOf(h, o) \subseteq movers /\ Cardinality(MembersOf(h, o)) = 1}

\* The groups that the threads of movers leave behind empty.
Emptied(h, movers) ==
    {o \in {h.member[t].group : t \in {m \in movers : h.member[m] # None}} :
       MembersOf(h, o) \subseteq movers}

Movers(h, S, g) ==
    {t \in S : h.member[t] # None => ~Fixed(h, t) /\ h.member[t].group # g}

\* place_member for every thread of S: an emptied automatic group becomes a
\* redirect to g.
Move(h, S, g) ==
    LET movers == Movers(h, S, g)
        gone == {o \in Emptied(h, movers) : h.group[o].by = "reconciler"}
        flat == Repointed(h, gone, g)
    IN  [member |-> [t \in Threads |->
                       IF t \in movers THEN AutomaticSeat(h, t, g)
                                       ELSE h.member[t]],
         past |-> h.past \cup Left(h, movers),
         group |-> [x \in Groups |->
                      IF x \in gone
                      THEN [flat[x] EXCEPT !.status = "redirected",
                                           !.redirect = g]
                      ELSE flat[x]]]

\* The checks of place_member that end the transaction.
MayMove(h, S, g) ==
    \A o \in Emptied(h, Movers(h, S, g)) :
        /\ h.group[o].status = "active"
        /\ h.group[o].by = "reconciler" => h.group[g].status = "active"

\* The next group id, as a set so that an exhausted bound disables the action.
Unused ==
    {g \in Groups : \A x \in Groups : group[x].status = "none" <=> x >= g}

\* The group whose key is that of thread t, to be created if there is none.
KeyedGroup(t) ==
    LET active == {g \in Groups : Active(g) /\ group[g].key = t}
    IN  IF active # {} THEN active ELSE Unused

Open(h, g, t) ==
    IF h.group[g].status = "active" THEN h
    ELSE [h EXCEPT !.group[g] = [status |-> "active", by |-> "reconciler",
                                 key |-> t, redirect |-> None]]

\* The nearest ancestor of p with a membership, or the topmost one.
Anchors(r, p) ==
    LET housed == {a \in Line(r, p) : member[a] # None}
    IN  IF housed # {} THEN {a \in housed : housed \subseteq Line(r, a)}
                       ELSE {a \in Line(r, p) : r[a] = None}

\* The thread and its descendants up to the first the operator has placed.
Followers(r, t) ==
    {c \in Threads :
       /\ t \in Line(r, c)
       /\ \A x \in Threads \ {t} :
            Fixed(Homes, x) => ~(x \in Line(r, c) /\ t \in Line(r, x))}

\* ensure_membership
Follow(r, t, p) ==
    IF Fixed(Homes, t) THEN UNCHANGED homeVars
    ELSE \E a \in Anchors(r, p) :
           \E g \in IF member[a] # None THEN {member[a].group} ELSE KeyedGroup(a) :
               LET opened == Open(Homes, g, a)
                   anchored == IF member[a] # None THEN opened
                               ELSE Move(opened, {a}, g)
                   followers == Followers(r, t)
               IN  /\ MayMove(anchored, followers, g)
                   /\ Become(Move(anchored, followers, g))

\* A subject without a parent is a group of its own.
Singleton(t) ==
    IF member[t] # None THEN UNCHANGED homeVars
    ELSE \E g \in KeyedGroup(t) :
           Become([Open(Homes, g, t) EXCEPT
                     !.member[t] = Seat(g, "active", "reconciler")])

-----------------------------------------------------------------------------
(* Evidence and its candidate associations.                                 *)

\* record_candidate: a new association, or one that may still change. known
\* tells whether it names the thread of the parent.
Judged(x, state, known) ==
    IF x = None THEN [state |-> state, subject |-> TRUE, parent |-> known]
    ELSE IF x.state = "pending" \/ (state = "conflict" /\ x.state = "candidate")
         THEN [x EXCEPT !.state = state, !.parent = known]
         ELSE x

\* record_candidate for every evidence of S.
MarkedAll(a, S, state) ==
    [e \in Evidence |-> IF e \in S THEN Judged(a[e], state, row[e.parent])
                                   ELSE a[e]]

InState(a, states) == {e \in Evidence : a[e] # None /\ a[e].state \in states}

\* select_parent_candidate: the best evidence, of one parent and kind each.
Winners(C) == {e \in C : \A d \in C : d.rank <= e.rank}

Verdict(t, C) ==
    LET W == Winners(C)
        w == CHOOSE e \in W : TRUE
    IN  CASE W = {} -> "none"
          [] W \notin {{}, {w}} -> "tie"
          [] W = {w} /\ Closes(t, w.parent) -> "loop"
          [] W = {w} /\ ~Closes(t, w.parent) ->
               IF rel[t] = None THEN "adopted"
               ELSE IF rel[t].parent = w.parent /\ rel[t].kind = w.kind
                    THEN "kept" ELSE "rival"

\* The relations after the verdict: disputed evidence leaves no parent.
Ruled(t, W, verdict) ==
    CASE verdict \in {"tie", "rival"} -> [rel EXCEPT ![t] = None]
      [] verdict = "adopted" ->
           LET w == CHOOSE e \in W : TRUE
           IN  [rel EXCEPT ![t] = [parent |-> w.parent, kind |-> w.kind,
                                   evidence |-> w]]
      [] OTHER -> rel

\* Where the subject lives after the verdict.
House(t, verdict) ==
    IF verdict \in {"kept", "adopted"} THEN Follow(rel', t, rel'[t].parent)
                                       ELSE Singleton(t)

-----------------------------------------------------------------------------
Init ==
    /\ row = [t \in Threads |-> t \in Present]
    /\ marked = [t \in Threads |-> FALSE]
    /\ observed = {}
    /\ assoc = [e \in Evidence |-> None]
    /\ rel = [t \in Threads |-> None]
    /\ member = [t \in Threads |-> None]
    /\ past = {}
    /\ group = [g \in Groups |-> [status |-> "none", by |-> "reconciler",
                                  key |-> None, redirect |-> None]]
    /\ due = {}
    /\ acts = 0
    /\ deletion = None
    /\ attaching = None

\* add_memories_batch: a thread is imported, or comes back from its deletion.
ImportContent(t) ==
    /\ ~row[t]
    /\ row' = [row EXCEPT ![t] = TRUE]
    /\ marked' = [marked EXCEPT ![t] = FALSE]
    /\ member' = IF member[t] # None /\ member[t].state = "deleted"
                 THEN [member EXCEPT ![t].state = "active"] ELSE member
    /\ UNCHANGED <<acts, evidenceVars, rel, past, group, deletion, attaching>>

\* What an import does to the associations of its evidence E, of which C
\* names a parent that can be adopted now.
AfterImport(t, E, C, verdict) ==
    LET held == MarkedAll(assoc, E \ C, "pending")
        W == Winners(C)
    IN  CASE verdict \in {"tie", "rival"} -> MarkedAll(held, W, "conflict")
          [] verdict = "loop" ->
               [e \in Evidence |-> IF e \in W THEN Judged(held[e], "conflict", FALSE)
                                              ELSE held[e]]
          [] verdict = "adopted" \/ (verdict = "kept" /\ rel[t].evidence \in W) ->
               [e \in Evidence |->
                  IF e \in W /\ held[e] # None /\ held[e].state = "pending"
                  THEN [held[e] EXCEPT !.state = "candidate", !.parent = TRUE]
                  ELSE held[e]]
          [] OTHER -> held

\* reconcile_subject_inner: the transaction of an import. Evidence of E is
\* judged alone, whatever was decided about it before.
RecordObservations(t, E) ==
    /\ Resolves(t)
    /\ \A e \in E : e.child = t
    /\ observed' = observed \cup E
    /\ LET C == {e \in E : ReadyForImport(e.parent)}
           verdict == Verdict(t, C)
       IN  /\ rel' = Ruled(t, Winners(C), verdict)
           /\ assoc' = AfterImport(t, E, C, verdict)
           /\ House(t, verdict)
    /\ due' = IF member'[t] # None /\ member'[t].state = "active"
              THEN due \cup {e \in InState(assoc', {"pending"}) : e.parent = t}
              ELSE due
    /\ UNCHANGED <<acts, threadVars, attaching>>

\* The early returns of reconcile_pending_observation.
Reconcilable(e) ==
    /\ assoc[e] # None /\ assoc[e].state = "pending"
    /\ \A o \in InState(assoc, {"conflict"}) : o.child # e.child
    /\ Resolves(e.child) /\ Seated(e.child)
    /\ rel[e.child] # None => rel[e.child].evidence # None
    /\ ReadyForLate(e.parent)

AfterLate(C, verdict) ==
    LET W == Winners(C)
        waiting == C \cap InState(assoc, {"pending"})
    IN  CASE verdict \in {"tie", "loop"} ->
               MarkedAll(MarkedAll(assoc, W, "conflict"), waiting \ W,
                         "candidate")
          [] verdict = "rival" -> MarkedAll(assoc, C, "conflict")
          [] OTHER -> MarkedAll(assoc, waiting \cup W, "candidate")

\* reconcile_pending_observation: after the import of a parent has committed,
\* the evidence that waited for it, judged with all evidence of the child that
\* is not disputed.
Reconcile(e) ==
    /\ e \in due
    /\ due' = due \ {e}
    /\ IF Reconcilable(e)
       THEN LET t == e.child
                C == {o \in observed \ InState(assoc, {"conflict", "superseded"}) :
                        o.child = t /\ ReadyForLate(o.parent)}
                verdict == Verdict(t, C)
            IN  /\ rel' = Ruled(t, Winners(C), verdict)
                /\ assoc' = AfterLate(C, verdict)
                /\ House(t, verdict)
       ELSE UNCHANGED <<rel, assoc, homeVars>>
    /\ UNCHANGED <<acts, threadVars, observed, attaching>>

\* The import stops, or an earlier of its late reconciliations fails.
Abort(e) ==
    /\ e \in due
    /\ Act
    /\ due' = due \ {e}
    /\ UNCHANGED <<threadVars, homeVars, observed, assoc, rel, attaching>>

-----------------------------------------------------------------------------
(* Decisions of the operator on a candidate.                                *)

\* The candidate still names the subject that the identity resolves to.
Decidable(e) == assoc[e] # None /\ assoc[e].subject

Confirm(e) ==
    LET t == e.child
        p == e.parent
    IN  /\ Act
        /\ Decidable(e) /\ row[t]
        /\ assoc[e].parent /\ row[p]
        /\ ~Closes(t, p)
        /\ IF rel[t] # None /\ rel[t].parent = p
           THEN UNCHANGED <<rel, homeVars>>
           ELSE /\ rel' = [rel EXCEPT ![t] = [parent |-> p, kind |-> "delegated",
                                              evidence |-> None]]
                \* Only a thread with a home has an owner for a new group.
                /\ \/ member[t] # None
                   \/ \E a \in Anchors(rel', p) :
                        member[a] # None \/ \E g \in Groups : Active(g) /\ group[g].key = a
                /\ Follow(rel', t, p)
        /\ assoc' = [assoc EXCEPT ![e].state = "candidate"]
        /\ UNCHANGED <<threadVars, observed, due, attaching>>

Reject(e) ==
    /\ Act
    /\ assoc[e] # None
    /\ assoc' = [assoc EXCEPT ![e].state = "superseded"]
    /\ UNCHANGED <<threadVars, homeVars, observed, rel, due, attaching>>

Retract(e) ==
    /\ Act
    /\ Decidable(e) /\ row[e.child]
    /\ rel' = IF rel[e.child] # None /\ rel[e.child].evidence = None
              THEN [rel EXCEPT ![e.child] = None] ELSE rel
    /\ assoc' = [assoc EXCEPT ![e].state = "pending"]
    /\ UNCHANGED <<threadVars, homeVars, observed, due, attaching>>

-----------------------------------------------------------------------------
(* Groups made by the operator.                                             *)

\* The members S of h at g, placed by the operator.
Pinned(h, S, g) ==
    [t \in Threads |-> IF t \in S THEN Seat(g, h.member[t].state, "operator")
                                  ELSE h.member[t]]

Merge(source, target) ==
    /\ Act
    /\ source # target
    /\ Active(source) /\ Active(target)
    /\ LET moved == MembersOf(Homes, source)
       IN  /\ past' = past \cup Left(Homes, moved)
           /\ member' = Pinned(Homes, moved \cup MembersOf(Homes, target), target)
    /\ group' = [Repointed(Homes, {source}, target) EXCEPT
                   ![source] = [@ EXCEPT !.status = "redirected",
                                         !.redirect = target],
                   ![target].by = "operator"]
    /\ UNCHANGED <<threadVars, evidenceVars, rel, attaching>>

\* Two successors, of part and of the rest of the members.
Split(source, part) ==
    LET all == MembersOf(Homes, source)
    IN  /\ Act
        /\ Active(source)
        /\ part # {} /\ part \subseteq all /\ part # all
        /\ \E g \in Unused :
             /\ g + 1 \in Groups
             /\ past' = past \cup Left(Homes, all)
             /\ member' = Pinned([Homes EXCEPT !.member = Pinned(Homes, part, g)],
                                 all \ part, g + 1)
             /\ group' = [x \in Groups |->
                            IF x \in {g, g + 1}
                            THEN [status |-> "active", by |-> "operator",
                                  key |-> None, redirect |-> None]
                            ELSE IF x = source
                                 THEN [group[x] EXCEPT !.status = "split"]
                                 ELSE group[x]]
        /\ UNCHANGED <<threadVars, evidenceVars, rel, attaching>>

\* The handler of AttachThreadGroupMember reads the thread and its key, and the
\* membership is added in a transaction that looks at neither again.
BeginAttach(t, g) ==
    /\ Act
    /\ attaching = None
    /\ row[t] /\ group[g].status # "none"
    /\ attaching' = [thread |-> t, group |-> g]
    /\ UNCHANGED <<threadVars, evidenceVars, homeVars, rel>>

FinishAttach ==
    /\ attaching # None
    /\ LET t == attaching.thread
           g == attaching.group
       IN  IF Active(g) /\ member[t] = None
           THEN /\ member' = [member EXCEPT ![t] = Seat(g, "active", "operator")]
                /\ group' = [group EXCEPT ![g].by = "operator"]
           ELSE UNCHANGED <<member, group>>
    /\ attaching' = None
    /\ UNCHANGED <<acts, threadVars, evidenceVars, rel, past>>

\* Mutant: the id of a purged group is handed out again.
PurgedUnused == [status |-> "none", by |-> "reconciler", key |-> None, redirect |-> None]

\* What is left of a purged group: an id that is never used again.
Purged == [status |-> "purged", by |-> "reconciler", key |-> None, redirect |-> None]

\* The purge of a group without live members. A marker stays while another
\* group still has a row of its identity.
Purge(g) ==
    /\ Act
    /\ group[g].status \notin {"none", "purged"}
    /\ \A t \in MembersOf(Homes, g) : member[t].state # "active"
    /\ group[g].status = "split" =>
         \A x \in Groups : group[x].redirect # g
    /\ LET gone == MembersOf(Homes, g)
           left == {r \in past : r[2] # g}
       IN  /\ member' = [t \in Threads |->
                            IF t \in gone THEN None ELSE member[t]]
           /\ past' = left
           /\ marked' = [t \in Threads |->
                            /\ marked[t]
                            /\ t \in gone => \E r \in left : r[1] = t]
           /\ group' = [IF group[g].status = "redirected"
                        THEN Repointed(Homes, {g}, group[g].redirect)
                        ELSE group
                        EXCEPT ![g] = Purged]
    /\ UNCHANGED <<row, deletion, evidenceVars, rel, attaching>>

-----------------------------------------------------------------------------
(* Deletion of threads.                                                     *)

\* The transaction of a deletion: the threads of D that still exist leave a
\* marker and a placeholder.
Remove(D) ==
    /\ AttachesAlone /\ attaching # None => attaching.thread \notin D
    /\ row' = [t \in Threads |-> row[t] /\ t \notin D]
    /\ marked' = [t \in Threads |-> marked[t] \/ t \in D]
    /\ member' = [t \in Threads |->
                    IF t \in D /\ member[t] # None
                    THEN [member[t] EXCEPT !.state = "deleted"]
                    ELSE member[t]]
    /\ assoc' = [e \in Evidence |->
                   IF assoc[e] = None THEN None
                   ELSE [assoc[e] EXCEPT !.subject = @ /\ e.child \notin D,
                                         !.parent = @ /\ e.parent \notin D]]
    /\ UNCHANGED <<observed, due, rel, past, group, attaching>>

\* A deletion of t alone.
Delete(t) ==
    /\ Act
    /\ row[t]
    /\ Remove({t})
    /\ deletion' = IF deletion = None THEN None ELSE deletion \ {t}

\* A recursive deletion reads the descendants before its transaction, which
\* looks neither for new ones nor for lost ones.
BeginDelete(t) ==
    /\ Act
    /\ deletion = None
    /\ row[t]
    /\ deletion' = {c \in Threads : t \in Line(rel, c) /\ row[c]}
    /\ deletion' # {t}
    /\ UNCHANGED <<row, marked, evidenceVars, homeVars, rel, attaching>>

FinishDelete ==
    /\ deletion # None
    /\ Remove(deletion)
    /\ deletion' = None
    /\ UNCHANGED acts

-----------------------------------------------------------------------------
Next ==
    \/ \E t \in Threads : ImportContent(t)
    \/ \E t \in Threads : \E E \in Batches :
         RecordObservations(t, E)
    \/ \E e \in Evidence :
         Reconcile(e) \/ Abort(e) \/ Confirm(e) \/ Reject(e) \/ Retract(e)
    \/ \E g, h \in Groups : Merge(g, h)
    \/ \E g \in Groups : \E part \in SUBSET Threads : Split(g, part)
    \/ \E t \in Threads, g \in Groups : BeginAttach(t, g)
    \/ FinishAttach
    \/ \E g \in Groups : Purge(g)
    \/ \E t \in Threads : Delete(t) \/ BeginDelete(t)
    \/ FinishDelete

Spec == Init /\ [][Next]_vars

-----------------------------------------------------------------------------
(* Properties.                                                              *)

\* Types; ids of groups are handed out in order and never again, and an
\* association is of evidence that was recorded.
TypeOK ==
    /\ row \in [Threads -> BOOLEAN]
    /\ marked \in [Threads -> BOOLEAN]
    /\ observed \subseteq Evidence
    /\ assoc \in [Evidence -> Associations \cup {None}]
    /\ \A e \in Evidence : assoc[e] # None => e \in observed
    /\ rel \in [Threads -> Relations(observed) \cup {None}]
    /\ member \in [Threads -> Memberships \cup {None}]
    /\ past \subseteq Threads \X Groups
    /\ group \in [Groups -> GroupRows]
    /\ \A g, h \in Groups :
         group[g].status = "none" /\ group[h].status # "none" => h < g
    /\ due \subseteq observed
    /\ acts \in 0 .. MaxActs
    /\ deletion = None \/ deletion \subseteq Threads
    /\ attaching \in Attaches \cup {None}

\* The active relations never close a cycle, whatever the order in which
\* imports, late reconciliations and the operator adopt parents
\* (the checks by ancestor_contains in reconcile.rs).
Forest == \A t \in Threads : rel[t] # None => t \notin Line(rel, rel[t].parent)

\* A current membership, of a live thread or of the placeholder of a deleted
\* one, is in an active group: no merge, split, purge or move leaves a member
\* behind in a group that is gone (place_member, merge_groups, split_group).
HomesAreActive == \A t \in Threads : member[t] # None => Active(member[t].group)

\* A redirect leads to where members are in one step, or to a group that was
\* split or purged afterwards, never to another redirect (the flattening in
\* merge_groups, place_member and ThreadGroupPurgeService::delete).
RedirectsAreFlat ==
    \A g \in Groups :
        IF group[g].status = "redirected"
        THEN group[group[g].redirect].status \in {"active", "split", "purged"}
        ELSE group[g].redirect = None

\* Whoever starts from a member or from an old name of a group arrives at a
\* group: members are at home in active groups and redirects are flat, through
\* merges, splits, purges and moves in the middle of a chain.
HomesResolve == HomesAreActive /\ RedirectsAreFlat

\* A group that the reconciler made is redirected when its last member leaves,
\* so none is left active and empty (place_member).
NoEmptyAutomaticGroup ==
    \A g \in Groups :
        Active(g) /\ group[g].by = "reconciler" => MembersOf(Homes, g) # {}

\* A member that the operator has not placed is in the group of its parent,
\* also when the parent arrives or moves later (ensure_membership,
\* reassign_automatic_descendants). A purge forgets the home of a deleted
\* child, and the child may then come back as a group of its own.
FollowsParent ==
    (\A g \in Groups : group[g].status # "purged") =>
      \A t \in Threads :
         /\ member[t] # None /\ member[t].by = "reconciler"
         /\ rel[t] # None /\ member[rel[t].parent] # None
         => member[t].group = member[rel[t].parent].group

\* The threads of a family form trees and stay in the group of their root,
\* in whatever order evidence, imports and the operator arrive.
FamiliesTogether == Forest /\ FollowsParent

\* A live thread has no deletion marker, a live member has a thread, and a
\* placeholder stands for a thread that is gone and still has its marker: the
\* purge consumes no marker that a placeholder needs (delete_thread_in_tx,
\* add_memories_batch, place_member, ThreadGroupPurgeService::delete).
PlaceholdersAreMarked ==
    \A t \in Threads :
        /\ row[t] => ~marked[t]
        /\ member[t] # None =>
              IF member[t].state = "active" THEN row[t] ELSE ~row[t] /\ marked[t]

PlacedByOperator(t) == member[t] # None /\ member[t].by = "operator"

\* A thread that the operator has placed stays in its group, placed by the
\* operator, for as long as the group is active: no import, late
\* reconciliation, deletion or re-import moves it (Operator-fixed rows are never
\* touched, place_member).
OperatorsStay ==
    [][\A t \in Threads :
         PlacedByOperator(t) =>
           \/ PlacedByOperator(t)' /\ member'[t].group = member[t].group
           \/ group'[member[t].group].status # "active"]_vars

=============================================================================
