-------------------------- MODULE ThreadGroupsProofs --------------------------
(***************************************************************************)
(* Proofs about ThreadGroups, for any threads, evidence and groups:        *)
(* relations stay a forest, members stay in active groups, redirects stay  *)
(* flat, and what the operator placed stays.                               *)
(***************************************************************************)
EXTENDS ThreadGroups, TLAPS

(* Lineage: Line(r, t) is the smallest set with t and the parents of all   *)
(* its threads.                                                            *)

\* Relations by their parents; what they are founded on does not matter here.
Lineage(r) == \A t \in Threads : r[t] # None => r[t].parent \in Threads

LEMMA LineIs ==
    ASSUME NEW r, Lineage(r), NEW t \in Threads
    PROVE  /\ Line(r, t) \subseteq Threads /\ t \in Line(r, t)
           /\ UpClosed(r, Line(r, t))
           /\ \A S \in SUBSET Threads : t \in S /\ UpClosed(r, S) => Line(r, t) \subseteq S
<1>1. Line(r, t) \subseteq Threads /\ t \in Line(r, t)
  BY DEF Line
<1>2. UpClosed(r, Line(r, t))
  <2> SUFFICES ASSUME NEW c \in Line(r, t), r[c] # None,
                      NEW S \in SUBSET Threads, t \in S, UpClosed(r, S)
               PROVE  r[c].parent \in Threads /\ r[c].parent \in S
    BY <1>1 DEF UpClosed, Line, Lineage
  <2>1. c \in Threads /\ c \in S
    BY DEF Line
  <2> QED BY <2>1 DEF UpClosed, Lineage
<1>3. \A S \in SUBSET Threads : t \in S /\ UpClosed(r, S) => Line(r, t) \subseteq S
  BY DEF Line
<1> QED BY <1>1, <1>2, <1>3

LEMMA LineIsWithin ==
    ASSUME NEW r, Lineage(r), NEW t \in Threads, NEW a \in Line(r, t)
    PROVE  a \in Threads /\ Line(r, a) \subseteq Line(r, t)
<1>1. a \in Threads
  BY LineIs
<1> QED BY <1>1, LineIs

\* No thread is among the ancestors of its parent.
Acyclic(r) == \A t \in Threads : r[t] # None => t \notin Line(r, r[t].parent)

\* Taking relations away closes no cycle.
LEMMA FewerAreAcyclic ==
    ASSUME NEW r, NEW q, Lineage(r), Acyclic(r),
           \A t \in Threads : q[t] # None => r[t] # None /\ q[t].parent = r[t].parent
    PROVE  Lineage(q) /\ Acyclic(q)
<1>1. Lineage(q)
  BY DEF Lineage
<1>2. ASSUME NEW t \in Threads, q[t] # None, t \in Line(q, q[t].parent) PROVE FALSE
  <2>1. PICK p \in Threads : p = q[t].parent /\ p = r[t].parent /\ r[t] # None
    BY <1>2 DEF Lineage
  <2>2. UpClosed(q, Line(r, p)) /\ p \in Line(r, p) /\ Line(r, p) \in SUBSET Threads
    BY LineIs DEF UpClosed
  <2>3. Line(q, p) \subseteq Line(r, p)
    BY <1>1, <2>2, LineIs
  <2> QED BY <1>2, <2>1, <2>3 DEF Acyclic
<1> QED BY <1>1, <1>2 DEF Acyclic

\* Neither does a parent whose ancestors do not include the thread.
LEMMA AdoptionIsAcyclic ==
    ASSUME NEW r, NEW q, Lineage(r), Acyclic(r), NEW t \in Threads, NEW p \in Threads,
           t \notin Line(r, p), q[t].parent = p, q[t] # None,
           \A c \in Threads \ {t} : q[c] = r[c]
    PROVE  Lineage(q) /\ Acyclic(q)
<1>1. Lineage(q)
  BY DEF Lineage
<1>2. ASSUME NEW x \in Threads, t \notin Line(r, x) PROVE Line(q, x) \subseteq Line(r, x)
  <2>1. UpClosed(q, Line(r, x)) /\ x \in Line(r, x) /\ Line(r, x) \in SUBSET Threads
    BY <1>2, LineIs DEF UpClosed
  <2> QED BY <1>1, <2>1, LineIs
<1>3. ASSUME NEW c \in Threads, q[c] # None, c \in Line(q, q[c].parent) PROVE FALSE
  <2>1. CASE c = t
    BY <1>2, <1>3, <2>1
  <2>2. CASE c # t
    <3>1. PICK x \in Threads : x = r[c].parent /\ x = q[c].parent /\ r[c] # None
      BY <1>3, <2>2 DEF Lineage
    <3>2. c \notin Line(r, x)
      BY <3>1 DEF Acyclic
    <3>3. Line(q, x) \subseteq Line(r, x) \cup Line(r, p)
      <4> DEFINE S == Line(r, x) \cup Line(r, p)
      <4>1. S \in SUBSET Threads /\ x \in S
        BY LineIs
      <4>2. UpClosed(q, S)
        <5> SUFFICES ASSUME NEW y \in S, q[y] # None PROVE q[y].parent \in S
          BY DEF UpClosed
        <5>1. CASE y = t
          BY <5>1, LineIs
        <5>2. CASE y # t
          <6>1. q[y] = r[y]
            BY <4>1, <5>2
          <6>2. UpClosed(r, Line(r, x)) /\ UpClosed(r, Line(r, p))
            BY LineIs
          <6> QED BY <6>1, <6>2 DEF UpClosed
        <5> QED BY <5>1, <5>2
      <4> QED BY <1>1, <4>1, <4>2, LineIs
    <3>4. c \in Line(r, p)
      BY <1>3, <3>1, <3>2, <3>3
    <3>5. x \in Line(r, p)
      BY <3>1, <3>4, LineIs DEF UpClosed
    <3>6. Line(r, x) \subseteq Line(r, p)
      BY <3>5, LineIsWithin
    <3> QED BY <1>2, <1>3, <3>1, <3>2, <3>6
  <2> QED BY <2>1, <2>2
<1> QED BY <1>1, <1>3 DEF Acyclic

-----------------------------------------------------------------------------
(* Homes, as records: what the operations on them keep.                    *)

HomeRecords ==
    [member : [Threads -> Memberships \cup {None}], past : SUBSET (Threads \X Groups),
     group : [Groups -> GroupRows]]

\* Ids of groups are handed out in order.
InOrder(h) ==
    \A x, y \in Groups :
        h.group[x].status = "none" /\ h.group[y].status # "none" => y < x

\* Members are at home in active groups.
AtHome(h) ==
    \A t \in Threads : h.member[t] # None => h.group[h.member[t].group].status = "active"

\* A redirect leads to a group that is none, and only redirected groups have one.
Flat(h) ==
    \A x \in Groups :
        IF h.group[x].status = "redirected"
        THEN /\ h.group[x].redirect \in Groups
             /\ h.group[h.group[x].redirect].status \in {"active", "split", "purged"}
        ELSE h.group[x].redirect = None

Sound(h) == h \in HomeRecords /\ InOrder(h) /\ AtHome(h) /\ Flat(h)

\* Automatic groups have members, apart from g.
PeopledBut(h, g) ==
    \A x \in Groups \ {g} :
        h.group[x].status = "active" /\ h.group[x].by = "reconciler" => MembersOf(h, x) # {}

Peopled(h) == PeopledBut(h, None)

\* Members live, or are placeholders of threads that left a marker.
Living(h) ==
    \A t \in Threads : h.member[t] # None =>
        IF h.member[t].state = "active" THEN row[t] ELSE ~row[t] /\ marked[t]

\* What the operator placed is where it was.
Stays(h, k) == \A t \in Threads : Fixed(h, t) => k.member[t] = h.member[t]

\* What was purged stays purged.
Buries(h, k) == \A x \in Groups : h.group[x].status = "purged" => k.group[x].status = "purged"

LEMMA HomesAre ==
    ASSUME NEW h \in HomeRecords
    PROVE  /\ h.member \in [Threads -> Memberships \cup {None}]
           /\ h.past \in SUBSET (Threads \X Groups) /\ h.group \in [Groups -> GroupRows]
           /\ \A t \in Threads : h.member[t] # None =>
                /\ h.member[t].group \in Groups /\ h.member[t].state \in {"active", "deleted"}
                /\ h.member[t].by \in {"reconciler", "operator"}
           /\ \A x \in Groups : h.group[x].by \in {"reconciler", "operator"}
BY DEF HomeRecords, Memberships, GroupRows

LEMMA SeatIs ==
    ASSUME NEW g \in Groups, NEW state \in {"active", "deleted"}, NEW by \in {"reconciler", "operator"}
    PROVE  /\ Seat(g, state, by) \in Memberships /\ Seat(g, state, by) # None
           /\ Seat(g, state, by).group = g /\ Seat(g, state, by).state = state
           /\ Seat(g, state, by).by = by
BY NoneAssumption DEF Seat, Memberships

LEMMA AutomaticSeatIs ==
    ASSUME NEW h \in HomeRecords, NEW t \in Threads, NEW g \in Groups
    PROVE  /\ AutomaticSeat(h, t, g) \in Memberships \cup {None}
           /\ AutomaticSeat(h, t, g) # None =>
                /\ AutomaticSeat(h, t, g).group = g /\ AutomaticSeat(h, t, g).by = "reconciler"
                /\ \/ AutomaticSeat(h, t, g).state = "active" /\ row[t]
                   \/ /\ AutomaticSeat(h, t, g).state = "deleted"
                      /\ h.member[t] # None /\ h.member[t].state = "deleted"
           /\ row[t] => AutomaticSeat(h, t, g) # None
BY SeatIs DEF AutomaticSeat

\* place_member, taken apart.
Gone(h, S, g) == {o \in Emptied(h, Movers(h, S, g)) : h.group[o].by = "reconciler"}

LEMMA MoveIs ==
    ASSUME NEW h, Sound(h), NEW S \in SUBSET Threads, NEW g \in Groups,
           h.group[g].status = "active", MayMove(h, S, g)
    PROVE  LET k == Move(h, S, g) IN
           /\ k \in HomeRecords
           /\ \A t \in Threads :
                k.member[t] = IF t \in Movers(h, S, g) THEN AutomaticSeat(h, t, g)
                              ELSE h.member[t]
           /\ \A x \in Groups :
                /\ k.group[x].by = h.group[x].by /\ k.group[x].key = h.group[x].key
                /\ k.group[x].status = IF x \in Gone(h, S, g) THEN "redirected"
                                       ELSE h.group[x].status
                /\ k.group[x].redirect =
                     IF x \in Gone(h, S, g) \/ h.group[x].redirect \in Gone(h, S, g) THEN g
                     ELSE h.group[x].redirect
           /\ g \notin Gone(h, S, g)
           /\ \A x \in Gone(h, S, g) :
                /\ x \in Groups /\ h.group[x].status = "active" /\ h.group[x].by = "reconciler"
                /\ MembersOf(h, x) \subseteq Movers(h, S, g)
<1> DEFINE movers == Movers(h, S, g)
           gone == Gone(h, S, g)
           k == Move(h, S, g)
<1>1. h \in HomeRecords
  BY DEF Sound
<1>2. movers \subseteq Threads
  BY DEF Movers
<1>3. \A x \in gone :
        /\ x \in Groups /\ h.group[x].status = "active" /\ h.group[x].by = "reconciler"
        /\ MembersOf(h, x) \subseteq movers
        /\ \E t \in movers : h.member[t] # None /\ h.member[t].group = x
  <2> SUFFICES ASSUME NEW x \in gone
               PROVE  /\ x \in Groups /\ h.group[x].status = "active" /\ h.group[x].by = "reconciler"
                      /\ MembersOf(h, x) \subseteq movers
                      /\ \E t \in movers : h.member[t] # None /\ h.member[t].group = x
    OBVIOUS
  <2>1. x \in Emptied(h, movers) /\ h.group[x].by = "reconciler"
    BY DEF Gone
  <2>2. /\ MembersOf(h, x) \subseteq movers
        /\ \E t \in movers : h.member[t] # None /\ h.member[t].group = x
    BY <2>1 DEF Emptied
  <2>3. x \in Groups
    BY <1>1, <1>2, <2>2, HomesAre
  <2>4. h.group[x].status = "active"
    BY <2>1 DEF MayMove
  <2> QED BY <2>1, <2>2, <2>3, <2>4
<1>4. g \notin gone
  <2> SUFFICES ASSUME g \in gone PROVE FALSE
    OBVIOUS
  <2>1. PICK t \in movers : h.member[t] # None /\ h.member[t].group = g
    BY <1>3
  <2> QED BY <2>1 DEF Movers
<1>5. /\ k.member = [t \in Threads |-> IF t \in movers THEN AutomaticSeat(h, t, g) ELSE h.member[t]]
      /\ k.past = h.past \cup Left(h, movers)
      /\ k.group = [x \in Groups |->
                      IF x \in gone
                      THEN [Repointed(h, gone, g)[x] EXCEPT !.status = "redirected", !.redirect = g]
                      ELSE Repointed(h, gone, g)[x]]
      /\ k = [member |-> k.member, past |-> k.past, group |-> k.group]
  BY DEF Move, Gone
<1>6. \A x \in Groups :
        Repointed(h, gone, g)[x] = IF h.group[x].redirect \in gone
                                   THEN [h.group[x] EXCEPT !.redirect = g] ELSE h.group[x]
  BY DEF Repointed
<1> HIDE DEF k, movers
<1>7. k.member \in [Threads -> Memberships \cup {None}]
  <2>1. \A t \in Threads : /\ AutomaticSeat(h, t, g) \in Memberships \cup {None}
                         /\ h.member[t] \in Memberships \cup {None}
    BY <1>1, AutomaticSeatIs, HomesAre
  <2> QED BY <1>5, <2>1
<1>8. k.past \in SUBSET (Threads \X Groups)
  <2>1. \A t \in Threads : h.member[t] # None => h.member[t].group \in Groups
    BY <1>1, HomesAre
  <2>2. h.past \subseteq Threads \X Groups
    BY <1>1, HomesAre
  <2>3. ASSUME NEW p \in Left(h, movers) PROVE p \in Threads \X Groups
    <3>1. PICK t \in movers : h.member[t] # None /\ p = <<t, h.member[t].group>>
      BY DEF Left
    <3> QED BY <1>2, <2>1, <3>1
  <2> QED BY <1>5, <2>2, <2>3
<1> USE DEF k, movers
<1>9. ASSUME NEW x \in Groups
      PROVE  /\ k.group[x] \in GroupRows
             /\ k.group[x].by = h.group[x].by /\ k.group[x].key = h.group[x].key
             /\ k.group[x].status = IF x \in gone THEN "redirected" ELSE h.group[x].status
             /\ k.group[x].redirect = IF x \in gone \/ h.group[x].redirect \in gone THEN g
                                      ELSE h.group[x].redirect
  <2>1. h.group[x] \in GroupRows
    BY <1>1, HomesAre
  <2> DEFINE f == Repointed(h, gone, g)[x]
  <2>2. /\ f \in GroupRows /\ f.by = h.group[x].by /\ f.key = h.group[x].key
        /\ f.status = h.group[x].status
        /\ f.redirect = IF h.group[x].redirect \in gone THEN g ELSE h.group[x].redirect
    BY <1>6, <2>1 DEF GroupRows
  <2>3. k.group[x] = IF x \in gone THEN [f EXCEPT !.status = "redirected", !.redirect = g] ELSE f
    BY <1>5
  <2> HIDE DEF f, k, gone
  <2>4. CASE x \in gone
    <3>1. k.group[x] = [f EXCEPT !.status = "redirected", !.redirect = g]
      BY <2>3, <2>4
    <3> QED BY <2>2, <2>4, <3>1 DEF GroupRows
  <2>5. CASE x \notin gone
    BY <2>2, <2>3, <2>5
  <2> QED BY <2>4, <2>5
<1>10. k.group \in [Groups -> GroupRows]
  BY <1>5, <1>9
<1>11. k \in HomeRecords
  BY <1>5, <1>7, <1>8, <1>10 DEF HomeRecords
<1>12. \A t \in Threads : k.member[t] = IF t \in movers THEN AutomaticSeat(h, t, g) ELSE h.member[t]
  BY <1>5
<1> QED BY <1>3, <1>4, <1>9, <1>11, <1>12


LEMMA MoveKeeps ==
    ASSUME NEW h, Sound(h), NEW S \in SUBSET Threads, NEW g \in Groups,
           h.group[g].status = "active", MayMove(h, S, g), NEW k, k = Move(h, S, g)
    PROVE  /\ Sound(k) /\ Stays(h, k) /\ Stays(k, h) /\ k.group[g].status = "active"
           /\ \A z : PeopledBut(h, z) => PeopledBut(k, z)
           /\ Living(h) => Living(k)
           /\ Buries(h, k)
           /\ \A t \in S : row[t] /\ ~Fixed(h, t) => MembersOf(k, g) # {}
<1> DEFINE movers == Movers(h, S, g)
           gone == Gone(h, S, g)
<1>1. /\ k \in HomeRecords
      /\ \A t \in Threads :
           k.member[t] = IF t \in movers THEN AutomaticSeat(h, t, g) ELSE h.member[t]
      /\ \A x \in Groups :
           /\ k.group[x].by = h.group[x].by
           /\ k.group[x].status = IF x \in gone THEN "redirected" ELSE h.group[x].status
           /\ k.group[x].redirect = IF x \in gone \/ h.group[x].redirect \in gone THEN g
                                    ELSE h.group[x].redirect
      /\ g \notin gone
      /\ \A x \in gone : /\ x \in Groups /\ h.group[x].status = "active"
                         /\ h.group[x].by = "reconciler" /\ MembersOf(h, x) \subseteq movers
  BY MoveIs
<1>2. /\ h \in HomeRecords /\ InOrder(h) /\ AtHome(h) /\ Flat(h)
      /\ movers \subseteq Threads
      /\ \A t \in Threads \ movers : t \in S => h.member[t] # None
                                        /\ (Fixed(h, t) \/ h.member[t].group = g)
      /\ \A t \in movers : ~Fixed(h, t) /\ (h.member[t] # None => h.member[t].group # g)
      /\ movers \subseteq S
  BY DEF Sound, Movers, Fixed
<1>3. \A t \in Threads : h.member[t] # None => h.member[t].group \in Groups
  BY <1>2, HomesAre
<1>4. \A x \in Groups : h.group[x].by = "reconciler" /\ MembersOf(h, x) # {}
                          /\ MembersOf(h, x) \subseteq movers => x \in gone
  <2> SUFFICES ASSUME NEW x \in Groups, h.group[x].by = "reconciler", NEW t \in MembersOf(h, x),
                      MembersOf(h, x) \subseteq movers
               PROVE  x \in Gone(h, S, g)
    OBVIOUS
  <2>1. t \in movers /\ h.member[t] # None /\ h.member[t].group = x
    BY DEF MembersOf
  <2> QED BY <2>1 DEF Gone, Emptied
<1>5. \A t \in Threads : AutomaticSeat(h, t, g) # None =>
        /\ AutomaticSeat(h, t, g).group = g /\ AutomaticSeat(h, t, g).by = "reconciler"
        /\ \/ AutomaticSeat(h, t, g).state = "active" /\ row[t]
           \/ /\ AutomaticSeat(h, t, g).state = "deleted"
              /\ h.member[t] # None /\ h.member[t].state = "deleted"
  BY <1>2, AutomaticSeatIs
<1>6. \A t \in Threads : row[t] => AutomaticSeat(h, t, g) # None
  BY <1>2, AutomaticSeatIs
<1>7. \A x \in Groups : \A t \in Threads :
        /\ t \in MembersOf(h, x) <=> h.member[t] # None /\ h.member[t].group = x
        /\ t \in MembersOf(k, x) <=> k.member[t] # None /\ k.member[t].group = x
  BY DEF MembersOf
<1>8. \A x \in Groups : MembersOf(h, x) \subseteq Threads
  BY DEF MembersOf
<1> HIDE DEF movers, gone
<1>9. InOrder(k)
  BY <1>1, <1>2 DEF InOrder
<1>10. AtHome(k)
  <2> SUFFICES ASSUME NEW t \in Threads, k.member[t] # None
               PROVE  k.group[k.member[t].group].status = "active"
    BY DEF AtHome
  <2>1. CASE t \in movers
    BY <1>1, <1>5, <2>1
  <2>2. CASE t \notin movers
    <3>1. PICK x \in Groups : x = h.member[t].group /\ h.member[t] # None /\ k.member[t] = h.member[t]
      BY <1>1, <1>3, <2>2
    <3>2. x \notin gone
      BY <1>1, <1>7, <2>2, <3>1
    <3>3. h.group[x].status = "active"
      BY <1>2, <3>1 DEF AtHome
    <3> QED BY <1>1, <3>1, <3>2, <3>3
  <2> QED BY <2>1, <2>2
<1>11. Flat(k)
  <2> SUFFICES ASSUME NEW x \in Groups
               PROVE  IF k.group[x].status = "redirected"
                      THEN /\ k.group[x].redirect \in Groups
                           /\ k.group[k.group[x].redirect].status \in {"active", "split", "purged"}
                      ELSE k.group[x].redirect = None
    BY DEF Flat
  <2>1. CASE x \in gone
    BY <1>1, <2>1
  <2>2. CASE x \notin gone /\ h.group[x].status = "redirected"
    <3>1. PICK y \in Groups : y = h.group[x].redirect /\ h.group[y].status \in {"active", "split", "purged"}
      BY <1>2, <2>2 DEF Flat
    <3> QED BY <1>1, <2>2, <3>1
  <2>3. CASE x \notin gone /\ h.group[x].status # "redirected"
    <3>1. h.group[x].redirect = None
      BY <1>2, <2>3 DEF Flat
    <3>2. None \notin gone
      BY <1>1, NoneAssumption
    <3> QED BY <1>1, <2>3, <3>1, <3>2
  <2> QED BY <2>1, <2>2, <2>3
<1>12. Stays(h, k) /\ Stays(k, h)
  <2>1. Stays(h, k)
    BY <1>1, <1>2 DEF Stays
  <2>2. ASSUME NEW t \in Threads, Fixed(k, t) PROVE h.member[t] = k.member[t]
    BY <1>1, <1>5, <2>2 DEF Fixed
  <2> QED BY <2>1, <2>2 DEF Stays
<1>13. ASSUME NEW z, PeopledBut(h, z) PROVE PeopledBut(k, z)
  <2> SUFFICES ASSUME NEW x \in Groups \ {z}, k.group[x].status = "active",
                      k.group[x].by = "reconciler"
               PROVE  MembersOf(k, x) # {}
    BY DEF PeopledBut
  <2>1. x \notin gone /\ h.group[x].status = "active" /\ h.group[x].by = "reconciler"
    BY <1>1
  <2>2. MembersOf(h, x) # {}
    BY <1>13, <2>1 DEF PeopledBut
  <2>3. PICK t \in Threads : t \in MembersOf(h, x) /\ t \notin movers
    BY <1>4, <1>8, <2>1, <2>2
  <2> QED BY <1>1, <1>7, <2>3
<1>14. ASSUME Living(h) PROVE Living(k)
  <2> SUFFICES ASSUME NEW t \in Threads, k.member[t] # None
               PROVE  IF k.member[t].state = "active" THEN row[t] ELSE ~row[t] /\ marked[t]
    BY DEF Living
  <2>1. CASE t \in movers
    <3>1. k.member[t] = AutomaticSeat(h, t, g)
      BY <1>1, <2>1
    <3>2. h.member[t] # None /\ h.member[t].state = "deleted" => ~row[t] /\ marked[t]
      BY <1>14 DEF Living
    <3> QED BY <1>5, <3>1, <3>2
  <2>2. CASE t \notin movers
    BY <1>1, <1>14, <2>2 DEF Living
  <2> QED BY <2>1, <2>2
<1>15. ASSUME NEW t \in S, row[t], ~Fixed(h, t) PROVE MembersOf(k, g) # {}
  <2>1. CASE t \in movers
    BY <1>1, <1>2, <1>5, <1>6, <1>7, <1>15, <2>1
  <2>2. CASE t \notin movers
    BY <1>1, <1>2, <1>7, <1>15, <2>2
  <2> QED BY <2>1, <2>2
<1>16. Sound(k) /\ k.group[g].status = "active"
  BY <1>1, <1>9, <1>10, <1>11 DEF Sound
<1>17. Buries(h, k)
  BY <1>1 DEF Buries
<1> QED BY <1>12, <1>13, <1>14, <1>15, <1>16, <1>17


\* KeyedGroup, taken apart, as it stands before the step.
LEMMA KeyedGroupIs ==
    ASSUME NEW t, NEW g \in KeyedGroup(t)
    PROVE  g \in Groups /\ (group[g].status = "active" \/ g \in Unused)
BY DEF KeyedGroup, Active, Unused

\* The group that is found or opened for t.
LEMMA OpenKeeps ==
    ASSUME Sound(Homes), NEW t \in Threads, NEW g \in Groups,
           group[g].status = "active" \/ g \in Unused, NEW k, k = Open(Homes, g, t)
    PROVE  /\ Sound(k) /\ k.group[g].status = "active" /\ k.member = member
           /\ group[g].status = "active" => k = Homes
           /\ Peopled(Homes) => PeopledBut(k, g)
           /\ Living(Homes) => Living(k)
           /\ Buries(Homes, k)
<1> DEFINE new == [status |-> "active", by |-> "reconciler", key |-> t, redirect |-> None]
<1>1. Homes.group = group /\ Homes.member = member /\ Homes.past = past
  BY DEF Homes
<1>2. CASE group[g].status = "active"
  <2>1. k = Homes
    BY <1>1, <1>2 DEF Open
  <2>2. Peopled(Homes) => PeopledBut(k, g)
    BY <2>1, NoneAssumption DEF Peopled, PeopledBut
  <2>3. Buries(Homes, k)
    BY <2>1 DEF Buries
  <2> QED BY <1>1, <1>2, <2>1, <2>2, <2>3
<1>3. CASE group[g].status # "active"
  <2>1. k = [Homes EXCEPT !.group[g] = new]
    BY <1>1, <1>3 DEF Open
  <2>2. Homes \in HomeRecords /\ InOrder(Homes) /\ AtHome(Homes) /\ Flat(Homes)
    BY DEF Sound
  <2>3. /\ group \in [Groups -> GroupRows] /\ member \in [Threads -> Memberships \cup {None}]
        /\ past \in SUBSET (Threads \X Groups)
        /\ \A c \in Threads : member[c] # None => member[c].group \in Groups
    BY <1>1, <2>2, HomesAre
  <2>4. /\ k.member = member /\ k.past = past /\ k.group = [group EXCEPT ![g] = new]
        /\ k = [member |-> k.member, past |-> k.past, group |-> k.group]
    BY <2>1 DEF Homes
  <2>5. new \in GroupRows
    BY DEF GroupRows
  <2>6. \A x \in Groups : k.group[x] = IF x = g THEN new ELSE group[x]
    BY <2>3, <2>4
  <2>7. k.group \in [Groups -> GroupRows]
    BY <2>3, <2>4, <2>5
  <2>8. k \in HomeRecords
    BY <2>3, <2>4, <2>7 DEF HomeRecords
  <2>9. \A x \in Groups : group[x].status = "none" <=> x >= g
    BY <1>3 DEF Unused
  <2>10. InOrder(k)
    <3> SUFFICES ASSUME NEW x \in Groups, NEW y \in Groups,
                        k.group[x].status = "none", k.group[y].status # "none"
                 PROVE  y < x
      BY DEF InOrder
    <3>1. x # g /\ group[x].status = "none"
      BY <2>6
    <3>2. y = g \/ group[y].status # "none"
      BY <2>6
    <3> QED BY <2>9, <3>1, <3>2 DEF Groups
  <2>11. group[g].status = "none"
    BY <2>9 DEF Groups
  <2>12. AtHome(k)
    <3> SUFFICES ASSUME NEW c \in Threads, member[c] # None
                 PROVE  k.group[member[c].group].status = "active"
      BY <2>4 DEF AtHome
    <3>1. member[c].group \in Groups /\ group[member[c].group].status = "active"
      BY <1>1, <2>2, <2>3 DEF AtHome
    <3> QED BY <2>6, <2>11, <3>1
  <2>13. Flat(k)
    <3> SUFFICES ASSUME NEW x \in Groups
                 PROVE  IF k.group[x].status = "redirected"
                        THEN /\ k.group[x].redirect \in Groups
                             /\ k.group[k.group[x].redirect].status \in {"active", "split", "purged"}
                        ELSE k.group[x].redirect = None
      BY DEF Flat
    <3>1. IF group[x].status = "redirected"
          THEN /\ group[x].redirect \in Groups
               /\ group[group[x].redirect].status \in {"active", "split", "purged"}
          ELSE group[x].redirect = None
      BY <1>1, <2>2 DEF Flat
    <3> QED BY <2>6, <2>11, <3>1
  <2>14. ASSUME Peopled(Homes) PROVE PeopledBut(k, g)
    <3> SUFFICES ASSUME NEW x \in Groups \ {g}, group[x].status = "active",
                        group[x].by = "reconciler"
                 PROVE  MembersOf(k, x) # {}
      BY <2>6 DEF PeopledBut
    <3>1. MembersOf(Homes, x) # {}
      BY <1>1, <2>14, NoneAssumption DEF Peopled, PeopledBut
    <3> QED BY <1>1, <2>4, <3>1 DEF MembersOf
  <2>15. Living(Homes) => Living(k)
    BY <1>1, <2>4 DEF Living
  <2>16. Sound(k)
    BY <2>8, <2>10, <2>12, <2>13 DEF Sound
  <2>17. Buries(Homes, k)
    BY <1>1, <2>6, <2>11 DEF Buries
  <2> QED BY <1>3, <2>4, <2>6, <2>14, <2>15, <2>16, <2>17
<1> QED BY <1>2, <1>3

\* The ancestors of a thread, but for itself, are those of its parent.
LEMMA LineUnrolls ==
    ASSUME NEW r, Lineage(r), NEW t \in Threads, NEW a \in Line(r, t), a # t
    PROVE  r[t] # None /\ a \in Line(r, r[t].parent)
<1>1. CASE r[t] = None
  <2>1. {t} \in SUBSET Threads /\ UpClosed(r, {t})
    BY <1>1 DEF UpClosed
  <2>2. Line(r, t) \subseteq {t}
    BY <2>1, LineIs
  <2> QED BY <2>2
<1>2. CASE r[t] # None
  <2>1. PICK p \in Threads : p = r[t].parent
    BY <1>2 DEF Lineage
  <2>2. Line(r, p) \subseteq Threads /\ p \in Line(r, p) /\ UpClosed(r, Line(r, p))
    BY LineIs
  <2>3. {t} \cup Line(r, p) \in SUBSET Threads /\ UpClosed(r, {t} \cup Line(r, p))
    BY <2>1, <2>2 DEF UpClosed
  <2>4. Line(r, t) \subseteq {t} \cup Line(r, p)
    BY <2>3, LineIs
  <2> QED BY <1>2, <2>1, <2>4
<1> QED BY <1>1, <1>2

\* Without cycles a thread follows itself.
LEMMA ItFollowsItself ==
    ASSUME NEW r, Lineage(r), Acyclic(r), NEW t \in Threads
    PROVE  t \in Followers(r, t)
<1>1. ASSUME NEW x \in Threads \ {t}, x \in Line(r, t), t \in Line(r, x) PROVE FALSE
  <2>1. r[t] # None /\ x \in Line(r, r[t].parent)
    BY <1>1, LineUnrolls
  <2>2. PICK p \in Threads : p = r[t].parent
    BY <2>1 DEF Lineage
  <2>3. Line(r, x) \subseteq Line(r, p)
    BY <2>1, <2>2, LineIsWithin
  <2> QED BY <1>1, <2>1, <2>2, <2>3 DEF Acyclic
<1>2. t \in Line(r, t)
  BY LineIs
<1> QED BY <1>1, <1>2 DEF Followers

LEMMA AnchorsAre ==
    ASSUME NEW r, Lineage(r), NEW p \in Threads PROVE Anchors(r, p) \subseteq Threads
<1>1. Line(r, p) \subseteq Threads
  BY LineIs
<1> QED BY <1>1 DEF Anchors


LEMMA BecomeIs ==
    ASSUME NEW k \in HomeRecords, Become(k)
    PROVE  Homes' = k
<1>1. k = [member |-> k.member, past |-> k.past, group |-> k.group]
  BY DEF HomeRecords
<1>2. Homes' = [member |-> k.member, past |-> k.past, group |-> k.group]
  BY DEF Homes, Become
<1> QED BY <1>1, <1>2

\* What the housing of a thread keeps.
Kept ==
    /\ Sound(Homes)' /\ Stays(Homes, Homes') /\ Buries(Homes, Homes')
    /\ Peopled(Homes) => Peopled(Homes)'
    /\ Living(Homes) /\ UNCHANGED <<row, marked>> => Living(Homes)'

LEMMA NothingMoved ==
    ASSUME Sound(Homes), UNCHANGED homeVars PROVE Kept
<1>1. Homes' = Homes
  BY DEF Homes, homeVars
<1> QED BY <1>1 DEF Kept, Stays, Buries, Peopled, PeopledBut, MembersOf, Living, Sound, InOrder, AtHome, Flat,
                    HomeRecords, GroupRows, Memberships, Groups

LEMMA FollowKeeps ==
    ASSUME Sound(Homes), NEW r, Lineage(r), Acyclic(r), NEW t \in Threads, NEW p \in Threads,
           row[t], Follow(r, t, p)
    PROVE  Kept
<1>1. CASE Fixed(Homes, t)
  BY <1>1, NothingMoved DEF Follow
<1>2. CASE ~Fixed(Homes, t)
  <2>1. PICK a \in Anchors(r, p) :
          \E g \in IF member[a] # None THEN {member[a].group} ELSE KeyedGroup(a) :
             LET opened == Open(Homes, g, a)
                 anchored == IF member[a] # None THEN opened ELSE Move(opened, {a}, g)
                 followers == Followers(r, t)
             IN  MayMove(anchored, followers, g) /\ Become(Move(anchored, followers, g))
    BY <1>2 DEF Follow
  <2>2. PICK g \in IF member[a] # None THEN {member[a].group} ELSE KeyedGroup(a) :
             LET opened == Open(Homes, g, a)
                 anchored == IF member[a] # None THEN opened ELSE Move(opened, {a}, g)
                 followers == Followers(r, t)
             IN  MayMove(anchored, followers, g) /\ Become(Move(anchored, followers, g))
    BY <2>1
  <2>3. PICK f : f = Followers(r, t)
    OBVIOUS
  <2>4. PICK opened : opened = Open(Homes, g, a)
    OBVIOUS
  <2>5. PICK anchored : anchored = IF member[a] # None THEN opened ELSE Move(opened, {a}, g)
    OBVIOUS
  <2>6. PICK k : k = Move(anchored, f, g)
    OBVIOUS
  <2>7. MayMove(anchored, f, g) /\ Become(k)
    BY <2>2, <2>3, <2>4, <2>5, <2>6
  <2>8. a \in Threads
    BY AnchorsAre
  <2>9. Homes.member = member /\ Homes.group = group
    BY DEF Homes
  <2>10. g \in Groups /\ (group[g].status = "active" \/ g \in Unused)
    <3>1. CASE member[a] # None
      <4>1. g = member[a].group
        BY <2>2, <3>1
      <4>2. member[a].group \in Groups /\ group[member[a].group].status = "active"
        BY <2>8, <2>9, <3>1, HomesAre DEF Sound, AtHome
      <4> QED BY <4>1, <4>2
    <3>2. CASE member[a] = None
      BY <2>2, <3>2, KeyedGroupIs
    <3> QED BY <3>1, <3>2
  <2>11. /\ Sound(opened) /\ opened.group[g].status = "active" /\ opened.member = member
         /\ Peopled(Homes) => PeopledBut(opened, g)
         /\ Living(Homes) => Living(opened)
         /\ Buries(Homes, opened)
    BY <2>4, <2>8, <2>10, OpenKeeps
  <2>12. Stays(Homes, opened)
    BY <2>9, <2>11 DEF Stays
  <2>13. /\ Sound(anchored) /\ anchored.group[g].status = "active"
         /\ Stays(opened, anchored) /\ Stays(anchored, opened)
         /\ PeopledBut(opened, g) => PeopledBut(anchored, g)
         /\ Living(opened) => Living(anchored)
         /\ Buries(opened, anchored)
    <3>1. CASE member[a] # None
      BY <2>5, <2>11, <3>1 DEF Stays, Buries
    <3>2. CASE member[a] = None
      <4>1. anchored = Move(opened, {a}, g)
        BY <2>5, <3>2
      <4>2. Emptied(opened, Movers(opened, {a}, g)) = {}
        BY <2>11, <3>2 DEF Emptied, Movers
      <4>3. MayMove(opened, {a}, g)
        BY <4>2 DEF MayMove
      <4>4. {a} \in SUBSET Threads
        BY <2>8
      <4> QED BY <2>10, <2>11, <4>1, <4>3, <4>4, MoveKeeps
    <3> QED BY <3>1, <3>2
  <2>14. f \in SUBSET Threads
    BY <2>3 DEF Followers
  <2>15. /\ Sound(k) /\ k.group[g].status = "active" /\ Stays(anchored, k)
         /\ PeopledBut(anchored, g) => PeopledBut(k, g)
         /\ Living(anchored) => Living(k)
         /\ Buries(anchored, k)
         /\ \A c \in f : row[c] /\ ~Fixed(anchored, c) => MembersOf(k, g) # {}
    BY <2>6, <2>7, <2>10, <2>13, <2>14, MoveKeeps
  <2>16. t \in f
    BY <2>3, ItFollowsItself
  <2>17. ~Fixed(anchored, t)
    BY <1>2, <2>9, <2>11, <2>13 DEF Stays, Fixed
  <2>18. MembersOf(k, g) # {}
    BY <2>15, <2>16, <2>17
  <2>19. Homes' = k
    BY <2>7, <2>15, BecomeIs DEF Sound
  <2>20. Stays(Homes, k)
    <3> SUFFICES ASSUME NEW c \in Threads, Fixed(Homes, c) PROVE k.member[c] = Homes.member[c]
      BY DEF Stays
    <3>1. opened.member[c] = Homes.member[c] /\ Fixed(opened, c)
      BY <2>12 DEF Stays, Fixed
    <3>2. anchored.member[c] = Homes.member[c] /\ Fixed(anchored, c)
      BY <2>13, <3>1 DEF Stays, Fixed
    <3> QED BY <2>15, <3>2 DEF Stays
  <2>21. Peopled(Homes) => Peopled(k)
    <3> SUFFICES ASSUME Peopled(Homes), NEW x \in Groups, k.group[x].status = "active",
                        k.group[x].by = "reconciler"
                 PROVE  MembersOf(k, x) # {}
      BY DEF Peopled, PeopledBut
    <3>1. PeopledBut(k, g)
      BY <2>11, <2>13, <2>15
    <3> QED BY <2>18, <3>1 DEF PeopledBut
  <2>22. Living(Homes) => Living(k)
    BY <2>11, <2>13, <2>15
  <2>23. Living(Homes) /\ UNCHANGED <<row, marked>> => Living(Homes)'
    BY <2>19, <2>22 DEF Living
  <2>24. Sound(Homes)'
    BY <2>15, <2>19 DEF Sound, InOrder, AtHome, Flat, HomeRecords, GroupRows, Memberships, Groups
  <2>25. Peopled(Homes) => Peopled(Homes)'
    BY <2>19, <2>21 DEF Peopled, PeopledBut, MembersOf, Groups
  <2>26. Buries(Homes, k)
    BY <2>11, <2>13, <2>15 DEF Buries
  <2> QED BY <2>19, <2>20, <2>23, <2>24, <2>25, <2>26 DEF Kept
<1> QED BY <1>1, <1>2

\* A thread without a home gets a group of its own.
LEMMA SingletonKeeps ==
    ASSUME Sound(Homes), NEW t \in Threads, row[t], Singleton(t)
    PROVE  Kept
<1>1. CASE member[t] # None
  BY <1>1, NothingMoved DEF Singleton
<1>2. CASE member[t] = None
  <2>1. PICK g \in KeyedGroup(t) :
          Become([Open(Homes, g, t) EXCEPT !.member[t] = Seat(g, "active", "reconciler")])
    BY <1>2 DEF Singleton
  <2>2. PICK opened : opened = Open(Homes, g, t)
    OBVIOUS
  <2>3. PICK k : k = [opened EXCEPT !.member[t] = Seat(g, "active", "reconciler")]
    OBVIOUS
  <2>4. Become(k)
    BY <2>1, <2>2, <2>3
  <2>5. g \in Groups /\ (group[g].status = "active" \/ g \in Unused)
    BY <2>1, KeyedGroupIs
  <2>6. /\ Sound(opened) /\ opened.group[g].status = "active" /\ opened.member = member
        /\ Peopled(Homes) => PeopledBut(opened, g)
        /\ Living(Homes) => Living(opened)
        /\ Buries(Homes, opened)
    BY <2>2, <2>5, OpenKeeps
  <2>7. /\ opened \in HomeRecords /\ InOrder(opened) /\ AtHome(opened) /\ Flat(opened)
    BY <2>6 DEF Sound
  <2>8. PICK seat : seat = Seat(g, "active", "reconciler")
    OBVIOUS
  <2>9. /\ seat \in Memberships /\ seat # None /\ seat.group = g /\ seat.state = "active"
        /\ seat.by = "reconciler"
    BY <2>5, <2>8, SeatIs
  <2>10. /\ k.member = [opened.member EXCEPT ![t] = seat] /\ k.group = opened.group
         /\ k.past = opened.past /\ k = [member |-> k.member, past |-> k.past, group |-> k.group]
    BY <2>3, <2>7, <2>8 DEF HomeRecords
  <2>11. opened.member \in [Threads -> Memberships \cup {None}]
    BY <2>7, HomesAre
  <2>12. /\ k.member \in [Threads -> Memberships \cup {None}]
         /\ \A c \in Threads : k.member[c] = IF c = t THEN seat ELSE member[c]
    BY <2>6, <2>9, <2>10, <2>11
  <2>13. k \in HomeRecords
    BY <2>7, <2>10, <2>12, HomesAre DEF HomeRecords
  <2>14. InOrder(k) /\ Flat(k)
    BY <2>7, <2>10 DEF InOrder, Flat
  <2>15. AtHome(k)
    <3> SUFFICES ASSUME NEW c \in Threads, k.member[c] # None
                 PROVE  k.group[k.member[c].group].status = "active"
      BY DEF AtHome
    <3> QED BY <2>6, <2>7, <2>9, <2>10, <2>12 DEF AtHome
  <2>16. Homes' = k
    BY <2>4, <2>13, BecomeIs
  <2>17. Stays(Homes, k)
    BY <1>2, <2>12 DEF Stays, Fixed, Homes
  <2>18. Peopled(Homes) => Peopled(k)
    <3> SUFFICES ASSUME Peopled(Homes), NEW x \in Groups, k.group[x].status = "active",
                        k.group[x].by = "reconciler"
                 PROVE  MembersOf(k, x) # {}
      BY DEF Peopled, PeopledBut
    <3>1. CASE x = g
      BY <2>9, <2>12, <3>1 DEF MembersOf
    <3>2. CASE x # g
      <4>1. MembersOf(opened, x) # {}
        BY <2>6, <2>10, <3>2 DEF PeopledBut
      <4> QED BY <1>2, <2>6, <2>12, <4>1 DEF MembersOf
    <3> QED BY <3>1, <3>2
  <2>19. Living(Homes) /\ UNCHANGED <<row, marked>> => Living(Homes)'
    <3>1. Living(Homes) => Living(k)
      BY <2>6, <2>9, <2>12 DEF Living
    <3> QED BY <2>16, <3>1 DEF Living
  <2>20. Sound(Homes)'
    BY <2>13, <2>14, <2>15, <2>16 DEF Sound, InOrder, AtHome, Flat, HomeRecords, GroupRows,
                                      Memberships, Groups
  <2>21. Peopled(Homes) => Peopled(Homes)'
    BY <2>16, <2>18 DEF Peopled, PeopledBut, MembersOf, Groups
  <2>22. Buries(Homes, k)
    BY <2>6, <2>10 DEF Buries
  <2> QED BY <2>16, <2>17, <2>19, <2>20, <2>21, <2>22 DEF Kept
<1> QED BY <1>1, <1>2


-----------------------------------------------------------------------------
(* Where Follow puts the threads of a family.                              *)

LEMMA MovePlaces ==
    ASSUME NEW h, Sound(h), Living(h), NEW S \in SUBSET Threads, NEW g \in Groups,
           h.group[g].status = "active", MayMove(h, S, g), NEW k, k = Move(h, S, g),
           NEW c \in Threads
    PROVE  /\ c \notin S => k.member[c] = h.member[c]
           /\ c \in S /\ ~Fixed(h, c) /\ (row[c] \/ h.member[c] # None) =>
                k.member[c] # None /\ k.member[c].group = g
           /\ k.member[c] # None => h.member[c] # None \/ row[c]
           /\ h.member[c] # None => k.member[c] # None
<1>1. h \in HomeRecords
  BY DEF Sound
<1>2. k.member[c] = IF c \in Movers(h, S, g) THEN AutomaticSeat(h, c, g) ELSE h.member[c]
  BY MoveIs
<1>3. /\ AutomaticSeat(h, c, g) # None => AutomaticSeat(h, c, g).group = g
      /\ row[c] => AutomaticSeat(h, c, g) # None
  BY <1>1, AutomaticSeatIs
<1>4. h.member[c] # None => AutomaticSeat(h, c, g) # None
  <2> SUFFICES ASSUME h.member[c] # None PROVE AutomaticSeat(h, c, g) # None
    OBVIOUS
  <2>1. h.member[c].state \in {"active", "deleted"}
    BY <1>1, HomesAre
  <2>2. CASE h.member[c].state = "active"
    BY <1>3, <2>2 DEF Living
  <2>3. CASE h.member[c].state = "deleted"
    BY <2>3, SeatIs DEF AutomaticSeat
  <2> QED BY <2>1, <2>2, <2>3
<1>5. c \in Movers(h, S, g) <=>
        c \in S /\ (h.member[c] # None => ~Fixed(h, c) /\ h.member[c].group # g)
  BY DEF Movers
<1>6. ~row[c] /\ h.member[c] = None => AutomaticSeat(h, c, g) = None
  BY DEF AutomaticSeat
<1> QED BY <1>2, <1>3, <1>4, <1>5, <1>6

\* Two threads are not ancestors of each other.
LEMMA NoTwoWays ==
    ASSUME NEW r, Lineage(r), Acyclic(r), NEW t \in Threads, NEW x \in Threads,
           x \in Line(r, t), t \in Line(r, x)
    PROVE  x = t
<1> SUFFICES ASSUME x # t PROVE FALSE
  OBVIOUS
<1>1. r[t] # None /\ x \in Line(r, r[t].parent)
  BY LineUnrolls
<1>2. PICK p \in Threads : p = r[t].parent
  BY <1>1 DEF Lineage
<1>3. Line(r, x) \subseteq Line(r, p)
  BY <1>1, <1>2, LineIsWithin
<1> QED BY <1>1, <1>2, <1>3 DEF Acyclic

\* A parent that has a home, or no parent of its own, is the anchor.
LEMMA ParentIsAnchor ==
    ASSUME NEW r, Lineage(r), Acyclic(r), NEW p \in Threads, member[p] # None \/ r[p] = None,
           NEW a \in Anchors(r, p)
    PROVE  a = p
<1>1. PICK housed : housed = {x \in Line(r, p) : member[x] # None}
  OBVIOUS
<1>2. /\ a \in Line(r, p)
      /\ housed # {} => housed \subseteq Line(r, a)
  BY <1>1 DEF Anchors
<1>3. a \in Threads /\ p \in Line(r, p)
  BY <1>2, LineIs
<1>4. CASE member[p] # None
  <2>1. p \in Line(r, a)
    BY <1>1, <1>2, <1>3, <1>4
  <2> QED BY <1>2, <1>3, <2>1, NoTwoWays
<1>5. CASE r[p] = None
  BY <1>2, <1>5, LineUnrolls
<1> QED BY <1>4, <1>5

LEMMA FollowPlaces ==
    ASSUME Sound(Homes), Living(Homes), NEW r, Lineage(r), Acyclic(r),
           NEW t \in Threads, NEW p \in Threads, ~Fixed(Homes, t), Follow(r, t, p),
           member[p] # None \/ r[p] = None, p \notin Followers(r, t)
    PROVE  \E g \in Groups :
             /\ \A c \in Followers(r, t) :
                  ~Fixed(Homes, c) /\ (row[c] \/ member[c] # None) =>
                    member'[c] # None /\ member'[c].group = g
             /\ \A c \in Threads \ Followers(r, t) :
                  c # p \/ member[p] # None => member'[c] = member[c]
             /\ member[p] # None \/ row[p] => member'[p] # None /\ member'[p].group = g
             /\ \A c \in Threads : member[c] # None => member'[c] # None
<1>1. PICK a \in Anchors(r, p) :
        \E g \in IF member[a] # None THEN {member[a].group} ELSE KeyedGroup(a) :
           LET opened == Open(Homes, g, a)
               anchored == IF member[a] # None THEN opened ELSE Move(opened, {a}, g)
               followers == Followers(r, t)
           IN  MayMove(anchored, followers, g) /\ Become(Move(anchored, followers, g))
  BY DEF Follow
<1>2. a = p
  BY ParentIsAnchor
<1>3. PICK g \in IF member[p] # None THEN {member[p].group} ELSE KeyedGroup(p) :
           LET opened == Open(Homes, g, p)
               anchored == IF member[p] # None THEN opened ELSE Move(opened, {p}, g)
               followers == Followers(r, t)
           IN  MayMove(anchored, followers, g) /\ Become(Move(anchored, followers, g))
  BY <1>1, <1>2
<1>4. PICK f : f = Followers(r, t)
  OBVIOUS
<1>5. PICK opened : opened = Open(Homes, g, p)
  OBVIOUS
<1>6. PICK anchored : anchored = IF member[p] # None THEN opened ELSE Move(opened, {p}, g)
  OBVIOUS
<1>7. PICK k : k = Move(anchored, f, g)
  OBVIOUS
<1>8. MayMove(anchored, f, g) /\ Become(k)
  BY <1>3, <1>4, <1>5, <1>6, <1>7
<1>9. f \in SUBSET Threads
  BY <1>4 DEF Followers
<1>10. Homes.member = member /\ Homes.group = group
  BY DEF Homes
<1>11. g \in Groups /\ (group[g].status = "active" \/ g \in Unused)
       /\ (member[p] # None => member[p].group = g)
  <2>1. CASE member[p] # None
    <3>1. g = member[p].group
      BY <1>3, <2>1
    <3>2. member[p].group \in Groups /\ group[member[p].group].status = "active"
      BY <1>10, <2>1, HomesAre DEF Sound, AtHome
    <3> QED BY <3>1, <3>2
  <2>2. CASE member[p] = None
    BY <1>3, <2>2, KeyedGroupIs
  <2> QED BY <2>1, <2>2
<1>12. /\ Sound(opened) /\ opened.group[g].status = "active" /\ opened.member = member
       /\ Living(opened)
  BY <1>5, <1>11, OpenKeeps
<1>13. /\ Sound(anchored) /\ anchored.group[g].status = "active" /\ Living(anchored)
       /\ Stays(anchored, opened)
       /\ \A c \in Threads : c # p \/ member[p] # None => anchored.member[c] = member[c]
       /\ member[p] # None \/ row[p] => anchored.member[p] # None /\ anchored.member[p].group = g
       /\ \A c \in Threads : member[c] # None => anchored.member[c] # None
  <2>1. CASE member[p] # None
    BY <1>6, <1>11, <1>12, <2>1 DEF Stays
  <2>2. CASE member[p] = None
    <3>1. PICK s \in SUBSET Threads : s = {p}
      OBVIOUS
    <3>2. anchored = Move(opened, s, g)
      BY <1>6, <2>2, <3>1
    <3>3. Emptied(opened, Movers(opened, s, g)) = {}
      BY <1>12, <2>2, <3>1 DEF Emptied, Movers
    <3>4. MayMove(opened, s, g)
      BY <3>3 DEF MayMove
    <3>5. /\ Sound(anchored) /\ anchored.group[g].status = "active" /\ Living(anchored)
          /\ Stays(anchored, opened)
      BY <1>11, <1>12, <3>2, <3>4, MoveKeeps
    <3>6. ~Fixed(opened, p)
      BY <1>12, <2>2 DEF Fixed
    <3>7. ASSUME NEW c \in Threads
          PROVE  /\ c \notin s => anchored.member[c] = opened.member[c]
                 /\ c \in s /\ ~Fixed(opened, c) /\ (row[c] \/ opened.member[c] # None) =>
                      anchored.member[c] # None /\ anchored.member[c].group = g
                 /\ opened.member[c] # None => anchored.member[c] # None
      BY <1>11, <1>12, <3>2, <3>4, MovePlaces
    <3> QED BY <1>12, <2>2, <3>1, <3>5, <3>6, <3>7
  <2> QED BY <2>1, <2>2
<1>14. ASSUME NEW c \in Threads
       PROVE  /\ c \notin f => k.member[c] = anchored.member[c]
              /\ c \in f /\ ~Fixed(anchored, c) /\ (row[c] \/ anchored.member[c] # None) =>
                   k.member[c] # None /\ k.member[c].group = g
              /\ anchored.member[c] # None => k.member[c] # None
  BY <1>7, <1>8, <1>9, <1>11, <1>13, MovePlaces
<1>15. member' = k.member
  BY <1>8 DEF Become
<1>16. ASSUME NEW c \in f, ~Fixed(Homes, c), row[c] \/ member[c] # None
       PROVE  member'[c] # None /\ member'[c].group = g
  <2>1. ~Fixed(anchored, c)
    BY <1>9, <1>10, <1>12, <1>13, <1>16 DEF Stays, Fixed
  <2>2. row[c] \/ anchored.member[c] # None
    BY <1>9, <1>13, <1>16
  <2> QED BY <1>9, <1>14, <1>15, <2>1, <2>2
<1>17. ASSUME NEW c \in Threads \ f, c # p \/ member[p] # None
       PROVE  member'[c] = member[c]
  BY <1>13, <1>14, <1>15, <1>17
<1>18. member[p] # None \/ row[p] => member'[p] # None /\ member'[p].group = g
  BY <1>4, <1>13, <1>14, <1>15
<1>19. \A c \in Threads : member[c] # None => member'[c] # None
  BY <1>13, <1>14, <1>15
<1> QED BY <1>4, <1>11, <1>16, <1>17, <1>18, <1>19


-----------------------------------------------------------------------------
(* The inductive invariant.                                                *)

\* An attach that has begun, with no deletion in between, names a thread.
AttachedLive == attaching # None => row[attaching.thread]

NoLiveMarker == \A t \in Threads : row[t] => ~marked[t]

\* Until a purge forgets a home, a thread with a parent has a home, and one that
\* the operator has not placed shares it with its parent.
Unpurged == \A g \in Groups : group[g].status # "purged"

Tied ==
    \A t \in Threads : rel[t] # None =>
        /\ member[t] # None
        /\ member[t].by = "reconciler" =>
             /\ member[rel[t].parent] # None
             /\ member[rel[t].parent].group = member[t].group

Together == AttachesAlone /\ Unpurged => Tied

Inv ==
    /\ TypeOK /\ Acyclic(rel) /\ NoLiveMarker
    /\ Sound(Homes) /\ Peopled(Homes) /\ Together
    /\ AttachesAlone => AttachedLive /\ Living(Homes)


-----------------------------------------------------------------------------
(* What the actions do to homes.                                           *)

\* What the operator placed stays, or the group it is in is no longer active.
Obeyed ==
    \A t \in Threads : PlacedByOperator(t) =>
        \/ PlacedByOperator(t)' /\ member'[t].group = member[t].group
        \/ group'[member[t].group].status # "active"

LEMMA HomesNow ==
    /\ Homes.member = member /\ Homes.past = past /\ Homes.group = group
    /\ Homes'.member = member' /\ Homes'.past = past' /\ Homes'.group = group'
    /\ Homes' = [member |-> member', past |-> past', group |-> group']
BY DEF Homes

LEMMA SoundIs ==
    ASSUME Sound(Homes)
    PROVE  /\ member \in [Threads -> Memberships \cup {None}]
           /\ past \in SUBSET (Threads \X Groups)
           /\ group \in [Groups -> GroupRows]
           /\ \A t \in Threads : member[t] # None =>
                /\ member[t].group \in Groups /\ member[t].state \in {"active", "deleted"}
                /\ member[t].by \in {"reconciler", "operator"}
                /\ group[member[t].group].status = "active"
           /\ \A x \in Groups :
                /\ group[x].by \in {"reconciler", "operator"}
                /\ IF group[x].status = "redirected"
                   THEN /\ group[x].redirect \in Groups
                        /\ group[group[x].redirect].status \in {"active", "split", "purged"}
                   ELSE group[x].redirect = None
           /\ \A x, y \in Groups :
                group[x].status = "none" /\ group[y].status # "none" => y < x
<1>1. Homes \in HomeRecords /\ InOrder(Homes) /\ AtHome(Homes) /\ Flat(Homes)
  BY DEF Sound
<1> QED BY <1>1, HomesAre, HomesNow DEF InOrder, AtHome, Flat

LEMMA SoundNext ==
    ASSUME member' \in [Threads -> Memberships \cup {None}],
           past' \in SUBSET (Threads \X Groups),
           group' \in [Groups -> GroupRows],
           \A t \in Threads : member'[t] # None => group'[member'[t].group].status = "active",
           \A x \in Groups :
                IF group'[x].status = "redirected"
                THEN /\ group'[x].redirect \in Groups
                     /\ group'[group'[x].redirect].status \in {"active", "split", "purged"}
                ELSE group'[x].redirect = None,
           \A x, y \in Groups :
                group'[x].status = "none" /\ group'[y].status # "none" => y < x
    PROVE  Sound(Homes)'
<1>1. PICK k : k = Homes'
  OBVIOUS
<1>2. /\ k.member = member' /\ k.past = past' /\ k.group = group'
      /\ k = [member |-> k.member, past |-> k.past, group |-> k.group]
  BY <1>1, HomesNow
<1>3. k \in HomeRecords
  BY <1>2 DEF HomeRecords
<1>4. InOrder(k) /\ AtHome(k) /\ Flat(k)
  BY <1>2 DEF InOrder, AtHome, Flat
<1> QED BY <1>1, <1>3, <1>4 DEF Sound, InOrder, AtHome, Flat, HomeRecords, GroupRows, Memberships,
                                Groups

LEMMA PeopledIs ==
    Peopled(Homes) <=>
      \A x \in Groups : group[x].status = "active" /\ group[x].by = "reconciler" =>
        \E t \in Threads : member[t] # None /\ member[t].group = x
<1>1. \A x \in Groups : MembersOf(Homes, x) # {} <=>
        \E t \in Threads : member[t] # None /\ member[t].group = x
  BY HomesNow DEF MembersOf
<1> QED BY <1>1, HomesNow, NoneAssumption DEF Peopled, PeopledBut

LEMMA PeopledNext ==
    ASSUME \A x \in Groups : group'[x].status = "active" /\ group'[x].by = "reconciler" =>
             \E t \in Threads : member'[t] # None /\ member'[t].group = x
    PROVE  Peopled(Homes)'
<1>1. \A x \in Groups : (MembersOf(Homes, x) # {})' <=>
        \E t \in Threads : member'[t] # None /\ member'[t].group = x
  BY HomesNow DEF MembersOf
<1> QED BY <1>1, HomesNow DEF Peopled, PeopledBut, Groups

LEMMA KeptIsObeyed == Kept => Obeyed
<1> SUFFICES ASSUME Kept, NEW t \in Threads, PlacedByOperator(t)
             PROVE  PlacedByOperator(t)' /\ member'[t].group = member[t].group
  BY DEF Obeyed
<1>1. Fixed(Homes, t)
  BY HomesNow DEF Fixed, PlacedByOperator
<1>2. member'[t] = member[t]
  BY <1>1, HomesNow DEF Kept, Stays
<1> QED BY <1>2 DEF PlacedByOperator

\* Each action on homes keeps this.
HomesKept ==
    /\ Sound(Homes)' /\ Obeyed /\ Buries(Homes, Homes')
    /\ Peopled(Homes)'

\* Members stay live or deleted.
StatesKept ==
    \A t \in Threads : member'[t] # None =>
        member[t] # None /\ member'[t].state = member[t].state

\* Nobody loses a home, and those who shared a group with one that is still where
\* the reconciler placed it share one with it afterwards.
KeepsCompany ==
    /\ \A t \in Threads : member[t] # None => member'[t] # None
    /\ \A t, u \in Threads :
         /\ member[t] # None /\ member[u] # None /\ member[u].group = member[t].group
         /\ member'[t].by = "reconciler"
         => member[t].by = "reconciler" /\ member'[u].group = member'[t].group

LEMMA ImportContentOfHomes ==
    ASSUME Inv, NEW t \in Threads, ImportContent(t)
    PROVE  HomesKept /\ KeepsCompany
<1>1. /\ group' = group /\ past' = past
      /\ member' = IF member[t] # None /\ member[t].state = "deleted"
                   THEN [member EXCEPT ![t].state = "active"] ELSE member
  BY DEF ImportContent
<1>2. member \in [Threads -> Memberships \cup {None}]
  BY SoundIs DEF Inv
<1>3. \A c \in Threads : /\ member'[c] # None <=> member[c] # None
                         /\ member[c] # None => /\ member'[c] \in Memberships
                                                /\ member'[c].group = member[c].group
                                                /\ member'[c].by = member[c].by
  <2> SUFFICES ASSUME NEW c \in Threads
               PROVE  /\ member'[c] # None <=> member[c] # None
                      /\ member[c] # None => /\ member'[c] \in Memberships
                                             /\ member'[c].group = member[c].group
                                             /\ member'[c].by = member[c].by
    OBVIOUS
  <2>1. CASE c = t /\ member[t] # None /\ member[t].state = "deleted"
    <3>1. member[t] \in Memberships
      BY <1>2, <2>1
    <3>2. member'[t] = [member[t] EXCEPT !.state = "active"]
      BY <1>1, <1>2, <2>1
    <3>3. member'[t] \in Memberships
      BY <3>1, <3>2 DEF Memberships
    <3>4. member'[t] # None /\ member'[t].group = member[t].group /\ member'[t].by = member[t].by
      BY <3>1, <3>2, <3>3, NoneAssumption DEF Memberships
    <3> QED BY <2>1, <3>3, <3>4
  <2>2. CASE ~(c = t /\ member[t] # None /\ member[t].state = "deleted")
    BY <1>1, <1>2, <2>2
  <2> QED BY <2>1, <2>2
<1>4. member' \in [Threads -> Memberships \cup {None}]
  <2>1. member' = [c \in Threads |-> member'[c]]
    BY <1>1, <1>2
  <2> QED BY <1>2, <1>3, <2>1
<1>5. Sound(Homes)'
  BY <1>1, <1>3, <1>4, SoundIs, SoundNext DEF Inv
<1>6. Obeyed
  BY <1>3 DEF Obeyed, PlacedByOperator
<1>7. Peopled(Homes)'
  BY <1>1, <1>3, PeopledIs, PeopledNext DEF Inv
<1>8. Buries(Homes, Homes')
  BY <1>1, HomesNow DEF Buries
<1>9. KeepsCompany
  BY <1>3 DEF KeepsCompany
<1> QED BY <1>5, <1>6, <1>7, <1>8, <1>9 DEF HomesKept

\* The members S of h at g, by the operator.
LEMMA PinnedIs ==
    ASSUME NEW h, NEW S, NEW g \in Groups, h.member \in [Threads -> Memberships \cup {None}],
           \A t \in S : t \in Threads => h.member[t] # None
    PROVE  /\ Pinned(h, S, g) \in [Threads -> Memberships \cup {None}]
           /\ \A t \in Threads :
                IF t \in S
                THEN /\ Pinned(h, S, g)[t] # None /\ Pinned(h, S, g)[t].group = g
                     /\ Pinned(h, S, g)[t].state = h.member[t].state
                     /\ Pinned(h, S, g)[t].by = "operator"
                ELSE Pinned(h, S, g)[t] = h.member[t]
<1>1. \A t \in Threads : t \in S => h.member[t].state \in {"active", "deleted"}
  BY DEF Memberships
<1>2. \A t \in Threads : t \in S =>
        /\ Seat(g, h.member[t].state, "operator") \in Memberships
        /\ Seat(g, h.member[t].state, "operator") # None
        /\ Seat(g, h.member[t].state, "operator").group = g
        /\ Seat(g, h.member[t].state, "operator").state = h.member[t].state
        /\ Seat(g, h.member[t].state, "operator").by = "operator"
  BY <1>1, SeatIs
<1> QED BY <1>2 DEF Pinned

LEMMA LeftIs ==
    ASSUME Sound(Homes), NEW S \in SUBSET Threads
    PROVE  Left(Homes, S) \in SUBSET (Threads \X Groups)
<1> SUFFICES ASSUME NEW t \in S, member[t] # None
             PROVE  <<t, member[t].group>> \in Threads \X Groups
  BY HomesNow DEF Left
<1> QED BY SoundIs

\* Groups that redirected to one of gone point to g instead.
LEMMA RepointedIs ==
    ASSUME Sound(Homes), NEW gone, NEW g \in Groups
    PROVE  /\ Repointed(Homes, gone, g) \in [Groups -> GroupRows]
           /\ \A x \in Groups :
                /\ Repointed(Homes, gone, g)[x].status = group[x].status
                /\ Repointed(Homes, gone, g)[x].by = group[x].by
                /\ Repointed(Homes, gone, g)[x].redirect =
                     IF group[x].redirect \in gone THEN g ELSE group[x].redirect
<1>1. \A x \in Groups : group[x] \in GroupRows
  BY SoundIs
<1>2. \A x \in Groups : [group[x] EXCEPT !.redirect = g] \in GroupRows
  BY <1>1 DEF GroupRows
<1>3. \A x \in Groups : Repointed(Homes, gone, g)[x] =
        IF group[x].redirect \in gone THEN [group[x] EXCEPT !.redirect = g] ELSE group[x]
  BY HomesNow DEF Repointed
<1>4. Repointed(Homes, gone, g) = [x \in Groups |-> Repointed(Homes, gone, g)[x]]
  BY DEF Repointed
<1>5. \A x \in Groups : Repointed(Homes, gone, g)[x] \in GroupRows
  BY <1>1, <1>2, <1>3
<1>6. ASSUME NEW x \in Groups
      PROVE  /\ Repointed(Homes, gone, g)[x].status = group[x].status
             /\ Repointed(Homes, gone, g)[x].by = group[x].by
             /\ Repointed(Homes, gone, g)[x].redirect =
                  IF group[x].redirect \in gone THEN g ELSE group[x].redirect
  BY <1>1, <1>3 DEF GroupRows
<1> QED BY <1>4, <1>5, <1>6

LEMMA MembersAre ==
    \A g \in Groups : \A t \in Threads :
        t \in MembersOf(Homes, g) <=> member[t] # None /\ member[t].group = g
BY HomesNow DEF MembersOf

LEMMA MergeOfHomes ==
    ASSUME Inv, NEW source \in Groups, NEW target \in Groups, Merge(source, target)
    PROVE  HomesKept /\ StatesKept /\ KeepsCompany
<1>1. Sound(Homes) /\ Peopled(Homes)
  BY DEF Inv
<1>2. PICK moved : moved = MembersOf(Homes, source)
  OBVIOUS
<1>3. PICK S : S = moved \cup MembersOf(Homes, target)
  OBVIOUS
<1>4. PICK f : f = Repointed(Homes, {source}, target)
  OBVIOUS
<1>5. /\ source # target /\ group[source].status = "active" /\ group[target].status = "active"
      /\ past' = past \cup Left(Homes, moved)
      /\ member' = Pinned(Homes, S, target)
      /\ group' = [f EXCEPT ![source] = [@ EXCEPT !.status = "redirected", !.redirect = target],
                            ![target].by = "operator"]
  BY <1>2, <1>3, <1>4 DEF Merge, Active
<1>5a. source # target /\ group[source].status = "active" /\ group[target].status = "active"
  BY <1>5
<1>6. \A t \in Threads : t \in S <=> member[t] # None /\ member[t].group \in {source, target}
  BY <1>2, <1>3, MembersAre
<1>7. /\ member \in [Threads -> Memberships \cup {None}]
      /\ \A t \in Threads : member[t] # None => member[t].group \in Groups
                                               /\ group[member[t].group].status = "active"
  BY <1>1, SoundIs
<1>8. /\ member' \in [Threads -> Memberships \cup {None}]
      /\ \A t \in Threads :
           IF t \in S THEN /\ member'[t] # None /\ member'[t].group = target
                           /\ member'[t].by = "operator" /\ member'[t].state = member[t].state
           ELSE member'[t] = member[t]
  BY <1>5, <1>6, <1>7, PinnedIs, HomesNow
<1>9. /\ f \in [Groups -> GroupRows]
      /\ \A x \in Groups :
           /\ f[x].status = group[x].status /\ f[x].by = group[x].by
           /\ f[x].redirect = IF group[x].redirect = source THEN target ELSE group[x].redirect
  BY <1>1, <1>4, RepointedIs
<1>10. ASSUME NEW x \in Groups
       PROVE  /\ group'[x] \in GroupRows
              /\ group'[x].status = IF x = source THEN "redirected" ELSE group[x].status
              /\ group'[x].by = IF x = target THEN "operator" ELSE group[x].by
              /\ group'[x].redirect = IF x = source \/ group[x].redirect = source THEN target
                                      ELSE group[x].redirect
  <2>1. f[x] \in GroupRows
    BY <1>9
  <2>2. CASE x = source
    <3>1. group'[x] = [f[x] EXCEPT !.status = "redirected", !.redirect = target]
      BY <1>5, <1>9, <2>2
    <3> QED BY <1>5, <1>9, <2>1, <2>2, <3>1 DEF GroupRows
  <2>3. CASE x = target
    <3>1. group'[x] = [f[x] EXCEPT !.by = "operator"]
      BY <1>5, <1>9, <2>3
    <3> QED BY <1>5, <1>9, <2>1, <2>3, <3>1 DEF GroupRows
  <2>4. CASE x # source /\ x # target
    BY <1>5, <1>9, <2>1, <2>4
  <2> QED BY <2>2, <2>3, <2>4
<1>11. group' \in [Groups -> GroupRows]
  <2>1. group' = [x \in Groups |-> group'[x]]
    BY <1>5, <1>9
  <2> QED BY <1>10, <2>1
<1>12. past' \in SUBSET (Threads \X Groups)
  <2>1. moved \in SUBSET Threads
    BY <1>2 DEF MembersOf
  <2>2. Left(Homes, moved) \in SUBSET (Threads \X Groups)
    BY <1>1, <2>1, LeftIs
  <2> QED BY <1>1, <1>5, <2>2, SoundIs
<1>13. ASSUME NEW t \in Threads, member'[t] # None
       PROVE  group'[member'[t].group].status = "active"
  <2>1. CASE t \in S
    BY <1>5a, <1>8, <1>10, <2>1
  <2>2. CASE t \notin S
    <3>1. PICK x \in Groups : x = member[t].group /\ member'[t] = member[t] /\ x # source
                              /\ group[x].status = "active"
      BY <1>6, <1>7, <1>8, <1>13, <2>2
    <3> QED BY <1>10, <3>1
  <2> QED BY <2>1, <2>2
<1>14. ASSUME NEW x \in Groups
       PROVE  IF group'[x].status = "redirected"
              THEN /\ group'[x].redirect \in Groups
                   /\ group'[group'[x].redirect].status \in {"active", "split", "purged"}
              ELSE group'[x].redirect = None
  <2>1. IF group[x].status = "redirected"
        THEN /\ group[x].redirect \in Groups
             /\ group[group[x].redirect].status \in {"active", "split", "purged"}
        ELSE group[x].redirect = None
    BY <1>1, SoundIs
  <2>2. group'[target].status = "active"
    BY <1>5a, <1>10
  <2>3. CASE x = source \/ group[x].redirect = source
    <3>1. group'[x].redirect = target
      BY <1>10, <2>3
    <3>2. group'[x].status = "redirected"
      <4>1. CASE x = source
        BY <1>10, <4>1
      <4>2. CASE x # source
        <5>1. group[x].status = "redirected"
          BY <2>1, <2>3, <4>2, NoneAssumption
        <5> QED BY <1>10, <4>2, <5>1
      <4> QED BY <4>1, <4>2
    <3> QED BY <2>2, <3>1, <3>2
  <2>4. CASE x # source /\ group[x].redirect # source
    BY <1>10, <2>1, <2>4
  <2> QED BY <2>3, <2>4
<1>15. \A x, y \in Groups : group'[x].status = "none" /\ group'[y].status # "none" => y < x
  <2>1. ASSUME NEW x \in Groups PROVE group'[x].status = "none" <=> group[x].status = "none"
    <3>1. CASE x = source
      BY <1>5a, <1>10, <3>1
    <3>2. CASE x # source
      BY <1>10, <3>2
    <3> QED BY <3>1, <3>2
  <2> QED BY <1>1, <2>1, SoundIs
<1>16. Sound(Homes)'
  BY <1>8, <1>11, <1>12, <1>13, <1>14, <1>15, SoundNext
<1>17. Obeyed
  <2> SUFFICES ASSUME NEW t \in Threads, PlacedByOperator(t)
               PROVE  \/ PlacedByOperator(t)' /\ member'[t].group = member[t].group
                      \/ group'[member[t].group].status # "active"
    BY DEF Obeyed
  <2>1. member[t] # None
    BY DEF PlacedByOperator
  <2>2. CASE member[t].group = source
    BY <1>10, <2>2
  <2>3. CASE member[t].group # source
    BY <1>6, <1>8, <2>1, <2>3 DEF PlacedByOperator
  <2> QED BY <2>2, <2>3
<1>18. Peopled(Homes)'
  <2> SUFFICES ASSUME NEW x \in Groups, group'[x].status = "active", group'[x].by = "reconciler"
               PROVE  \E t \in Threads : member'[t] # None /\ member'[t].group = x
    BY PeopledNext
  <2>1. x # source /\ x # target /\ group[x].status = "active" /\ group[x].by = "reconciler"
    BY <1>10
  <2>2. PICK t \in Threads : member[t] # None /\ member[t].group = x
    BY <1>1, <2>1, PeopledIs
  <2> QED BY <1>6, <1>8, <2>1, <2>2
<1>19. StatesKept
  BY <1>6, <1>8 DEF StatesKept
<1>20. Buries(Homes, Homes')
  BY <1>5a, <1>10, HomesNow DEF Buries
<1>21. KeepsCompany
  BY <1>6, <1>8 DEF KeepsCompany
<1> QED BY <1>16, <1>17, <1>18, <1>19, <1>20, <1>21 DEF HomesKept

LEMMA SplitOfHomes ==
    ASSUME Inv, NEW source \in Groups, NEW part \in SUBSET Threads, Split(source, part)
    PROVE  HomesKept /\ StatesKept /\ KeepsCompany
<1>1. Sound(Homes) /\ Peopled(Homes)
  BY DEF Inv
<1>2. PICK all : all = MembersOf(Homes, source)
  OBVIOUS
<1>3. PICK g \in Unused :
        /\ g + 1 \in Groups
        /\ past' = past \cup Left(Homes, all)
        /\ member' = Pinned([Homes EXCEPT !.member = Pinned(Homes, part, g)], all \ part, g + 1)
        /\ group' = [x \in Groups |->
                       IF x \in {g, g + 1}
                       THEN [status |-> "active", by |-> "operator",
                             key |-> None, redirect |-> None]
                       ELSE IF x = source
                            THEN [group[x] EXCEPT !.status = "split"]
                            ELSE group[x]]
  BY <1>2 DEF Split
<1>4. group[source].status = "active" /\ part \subseteq all
  BY <1>2 DEF Split, Active
<1>5. /\ g \in Groups /\ g + 1 \in Groups /\ g \in Nat
      /\ \A x \in Groups : group[x].status = "none" <=> x >= g
  BY <1>3 DEF Unused, Groups
<1>6. /\ member \in [Threads -> Memberships \cup {None}]
      /\ \A t \in Threads : member[t] # None => member[t].group \in Groups
                                               /\ group[member[t].group].status = "active"
  BY <1>1, SoundIs
<1>7. /\ all \subseteq Threads
      /\ \A t \in Threads : t \in all <=> member[t] # None /\ member[t].group = source
  BY <1>2, MembersAre DEF MembersOf
<1>8. PICK h : h = [Homes EXCEPT !.member = Pinned(Homes, part, g)]
  OBVIOUS
<1>9. h.member = Pinned(Homes, part, g)
  BY <1>8 DEF Homes
<1>10. /\ h.member \in [Threads -> Memberships \cup {None}]
       /\ \A t \in Threads :
            IF t \in part THEN /\ h.member[t] # None /\ h.member[t].group = g
                               /\ h.member[t].by = "operator"
                               /\ h.member[t].state = member[t].state
            ELSE h.member[t] = member[t]
  BY <1>4, <1>5, <1>6, <1>7, <1>9, PinnedIs, HomesNow
<1>11. /\ member' \in [Threads -> Memberships \cup {None}]
       /\ \A t \in Threads :
            IF t \in all \ part THEN /\ member'[t] # None /\ member'[t].group = g + 1
                                     /\ member'[t].by = "operator"
                                     /\ member'[t].state = h.member[t].state
            ELSE member'[t] = h.member[t]
  <2>1. member' = Pinned(h, all \ part, g + 1)
    BY <1>3, <1>8
  <2>2. \A t \in all \ part : t \in Threads => h.member[t] # None
    BY <1>7, <1>10
  <2> QED BY <1>5, <1>10, <2>1, <2>2, PinnedIs
<1>12. /\ \A t \in all : /\ member'[t] # None /\ member'[t].group \in {g, g + 1}
                         /\ member'[t].by = "operator" /\ member'[t].state = member[t].state
       /\ \A t \in Threads \ all : member'[t] = member[t]
  BY <1>4, <1>7, <1>10, <1>11
<1>13. ASSUME NEW x \in Groups
       PROVE  /\ group'[x] \in GroupRows
              /\ group'[x].status = IF x \in {g, g + 1} THEN "active"
                                    ELSE IF x = source THEN "split" ELSE group[x].status
              /\ group'[x].by = IF x \in {g, g + 1} THEN "operator" ELSE group[x].by
              /\ group'[x].redirect = IF x \in {g, g + 1} THEN None ELSE group[x].redirect
  <2>1. group[x] \in GroupRows
    BY <1>1, SoundIs
  <2>2. CASE x \in {g, g + 1}
    <3>1. group'[x] = [status |-> "active", by |-> "operator", key |-> None, redirect |-> None]
      BY <1>3, <2>2
    <3> QED BY <2>2, <3>1 DEF GroupRows
  <2>3. CASE x \notin {g, g + 1} /\ x = source
    <3>1. group'[x] = [group[x] EXCEPT !.status = "split"]
      BY <1>3, <2>3
    <3> QED BY <2>1, <2>3, <3>1 DEF GroupRows
  <2>4. CASE x \notin {g, g + 1} /\ x # source
    <3>1. group'[x] = group[x]
      BY <1>3, <2>4
    <3> QED BY <2>1, <2>4, <3>1
  <2> QED BY <2>2, <2>3, <2>4
<1>14. group' \in [Groups -> GroupRows]
  <2>1. group' = [x \in Groups |-> group'[x]]
    BY <1>3
  <2> QED BY <1>13, <2>1
<1>15. past' \in SUBSET (Threads \X Groups)
  BY <1>1, <1>3, <1>7, LeftIs, SoundIs
<1>16. /\ \A x \in Groups : x \in {g, g + 1} => group[x].status = "none"
       /\ source \notin {g, g + 1}
  BY <1>4, <1>5 DEF Groups
<1>17. ASSUME NEW t \in Threads, member'[t] # None
       PROVE  group'[member'[t].group].status = "active"
  <2>1. CASE t \in all
    BY <1>5, <1>12, <1>13, <2>1
  <2>2. CASE t \notin all
    <3>1. PICK x \in Groups : x = member[t].group /\ member'[t] = member[t] /\ x # source
                              /\ group[x].status = "active"
      BY <1>6, <1>7, <1>12, <1>17, <2>2
    <3> QED BY <1>13, <3>1
  <2> QED BY <2>1, <2>2
<1>18. ASSUME NEW x \in Groups
       PROVE  IF group'[x].status = "redirected"
              THEN /\ group'[x].redirect \in Groups
                   /\ group'[group'[x].redirect].status \in {"active", "split", "purged"}
              ELSE group'[x].redirect = None
  <2>1. IF group[x].status = "redirected"
        THEN /\ group[x].redirect \in Groups
             /\ group[group[x].redirect].status \in {"active", "split", "purged"}
        ELSE group[x].redirect = None
    BY <1>1, SoundIs
  <2>2. CASE x \in {g, g + 1}
    BY <1>13, <2>2
  <2>3. CASE x \notin {g, g + 1} /\ x = source
    BY <1>4, <1>13, <2>1, <2>3
  <2>4. CASE x \notin {g, g + 1} /\ x # source
    BY <1>13, <2>1, <2>4
  <2> QED BY <2>2, <2>3, <2>4
<1>19. ASSUME NEW x \in Groups, NEW y \in Groups,
              group'[x].status = "none", group'[y].status # "none"
       PROVE  y < x
  <2>1. x \notin {g, g + 1} /\ group[x].status = "none"
    BY <1>13, <1>19
  <2>2. x > g + 1
    BY <1>5, <2>1 DEF Groups
  <2>3. y \in {g, g + 1} \/ group[y].status # "none"
    <3> SUFFICES ASSUME y \notin {g, g + 1} PROVE group[y].status # "none"
      OBVIOUS
    <3>1. group'[y].status = IF y = source THEN "split" ELSE group[y].status
      BY <1>13
    <3> QED BY <1>4, <1>19, <3>1
  <2>4. x \in Nat /\ y \in Nat
    BY DEF Groups
  <2>5. y = g \/ y = g + 1 \/ ~(y >= g)
    BY <1>5, <2>3
  <2> QED BY <1>5, <2>2, <2>4, <2>5
<1>20. Sound(Homes)'
  BY <1>11, <1>14, <1>15, <1>17, <1>18, <1>19, SoundNext
<1>21. Obeyed
  <2> SUFFICES ASSUME NEW t \in Threads, PlacedByOperator(t)
               PROVE  \/ PlacedByOperator(t)' /\ member'[t].group = member[t].group
                      \/ group'[member[t].group].status # "active"
    BY DEF Obeyed
  <2>1. CASE t \in all
    BY <1>7, <1>13, <1>16, <2>1
  <2>2. CASE t \notin all
    BY <1>12, <2>2 DEF PlacedByOperator
  <2> QED BY <2>1, <2>2
<1>22. Peopled(Homes)'
  <2> SUFFICES ASSUME NEW x \in Groups, group'[x].status = "active", group'[x].by = "reconciler"
               PROVE  \E t \in Threads : member'[t] # None /\ member'[t].group = x
    BY PeopledNext
  <2>1. x \notin {g, g + 1} /\ x # source /\ group[x].status = "active" /\ group[x].by = "reconciler"
    BY <1>13
  <2>2. PICK t \in Threads : member[t] # None /\ member[t].group = x
    BY <1>1, <2>1, PeopledIs
  <2> QED BY <1>7, <1>12, <2>1, <2>2
<1>23. StatesKept
  BY <1>7, <1>12 DEF StatesKept
<1>24. Buries(Homes, Homes')
  <2> SUFFICES ASSUME NEW x \in Groups, group[x].status = "purged" PROVE group'[x].status = "purged"
    BY HomesNow DEF Buries
  <2>1. x \notin {g, g + 1} /\ x # source
    BY <1>4, <1>16
  <2> QED BY <1>13, <2>1
<1>25. KeepsCompany
  BY <1>7, <1>12 DEF KeepsCompany
<1> QED BY <1>20, <1>21, <1>22, <1>23, <1>24, <1>25 DEF HomesKept

LEMMA FinishAttachOfHomes ==
    ASSUME Inv, FinishAttach
    PROVE  HomesKept /\ KeepsCompany
<1>1. Sound(Homes) /\ Peopled(Homes)
  BY DEF Inv
<1>2. PICK t \in Threads, g \in Groups : t = attaching.thread /\ g = attaching.group
  BY DEF FinishAttach, Inv, TypeOK, Attaches
<1>3. /\ past' = past
      /\ IF Active(g) /\ member[t] = None
         THEN /\ member' = [member EXCEPT ![t] = Seat(g, "active", "operator")]
              /\ group' = [group EXCEPT ![g].by = "operator"]
         ELSE member' = member /\ group' = group
  BY <1>2 DEF FinishAttach
<1>4. CASE Active(g) /\ member[t] = None
  <2>1. PICK seat \in Memberships : /\ seat = Seat(g, "active", "operator") /\ seat # None
                                    /\ seat.group = g /\ seat.by = "operator"
    BY SeatIs
  <2>2. /\ member' \in [Threads -> Memberships \cup {None}]
        /\ \A c \in Threads : member'[c] = IF c = t THEN seat ELSE member[c]
    BY <1>1, <1>3, <1>4, <2>1, SoundIs
  <2>3. /\ \A x \in Groups : group[x] \in GroupRows
        /\ group' = [x \in Groups |-> IF x = g THEN [group[g] EXCEPT !.by = "operator"] ELSE group[x]]
    BY <1>1, <1>3, <1>4, SoundIs
  <2>4. ASSUME NEW x \in Groups
        PROVE  /\ group'[x] \in GroupRows
               /\ group'[x].status = group[x].status /\ group'[x].redirect = group[x].redirect
               /\ group'[x].by = IF x = g THEN "operator" ELSE group[x].by
    <3>1. CASE x = g
      <4>1. group'[x] = [group[x] EXCEPT !.by = "operator"] /\ group[x] \in GroupRows
        BY <2>3, <3>1
      <4> QED BY <3>1, <4>1 DEF GroupRows
    <3>2. CASE x # g
      BY <2>3, <3>2
    <3> QED BY <3>1, <3>2
  <2>5. group' \in [Groups -> GroupRows]
    BY <2>3, <2>4
  <2>6. Sound(Homes)'
    BY <1>1, <1>3, <1>4, <2>1, <2>2, <2>4, <2>5, SoundIs, SoundNext DEF Active
  <2>7. Obeyed
    BY <1>4, <2>2 DEF Obeyed, PlacedByOperator
  <2>8. Peopled(Homes)'
    BY <1>1, <1>4, <2>2, <2>4, PeopledIs, PeopledNext
  <2>9. Buries(Homes, Homes')
    BY <2>4, HomesNow DEF Buries
  <2>10. KeepsCompany
    BY <1>4, <2>2 DEF KeepsCompany
  <2> QED BY <2>6, <2>7, <2>8, <2>9, <2>10 DEF HomesKept
<1>5. CASE ~(Active(g) /\ member[t] = None)
  <2>1. UNCHANGED homeVars
    BY <1>3, <1>5 DEF homeVars
  <2>2. KeepsCompany
    BY <2>1 DEF homeVars, KeepsCompany
  <2> QED BY <1>1, <2>1, <2>2, NothingMoved, KeptIsObeyed DEF HomesKept, Kept
<1> QED BY <1>4, <1>5

LEMMA PurgeOfHomes ==
    ASSUME Inv, NEW g \in Groups, Purge(g)
    PROVE  /\ HomesKept /\ group'[g].status = "purged"
           /\ \A t \in Threads : member'[t] # None =>
                member'[t] = member[t] /\ t \notin MembersOf(Homes, g)
<1>1. Sound(Homes) /\ Peopled(Homes)
  BY DEF Inv
<1>2. PICK to : to = group[g].redirect
  OBVIOUS
<1>3. PICK f : f = IF group[g].status = "redirected" THEN Repointed(Homes, {g}, to) ELSE group
  OBVIOUS
<1>4. /\ group[g].status \notin {"none", "purged"}
      /\ member' = [t \in Threads |-> IF t \in MembersOf(Homes, g) THEN None ELSE member[t]]
      /\ past' = {r \in past : r[2] # g}
      /\ group' = [f EXCEPT ![g] = Purged]
  BY <1>2, <1>3 DEF Purge
<1>5. \A t \in Threads : t \in MembersOf(Homes, g) <=> member[t] # None /\ member[t].group = g
  BY MembersAre
<1>6. /\ member \in [Threads -> Memberships \cup {None}]
      /\ \A t \in Threads : member[t] # None => member[t].group \in Groups
                                               /\ group[member[t].group].status = "active"
  BY <1>1, SoundIs
<1>7. /\ member' \in [Threads -> Memberships \cup {None}]
      /\ \A t \in Threads : member'[t] = IF member[t] # None /\ member[t].group = g THEN None
                                         ELSE member[t]
  BY <1>4, <1>5, <1>6
<1>8. ASSUME NEW x \in Groups
      PROVE  IF group[x].status = "redirected"
             THEN /\ group[x].redirect \in Groups
                  /\ group[group[x].redirect].status \in {"active", "split", "purged"}
             ELSE group[x].redirect = None
  BY <1>1, SoundIs
<1>9. /\ f \in [Groups -> GroupRows]
      /\ \A x \in Groups :
           /\ f[x].status = group[x].status /\ f[x].by = group[x].by
           /\ f[x].redirect = IF group[g].status = "redirected" /\ group[x].redirect = g THEN to
                              ELSE group[x].redirect
  <2>1. CASE group[g].status = "redirected"
    <3>1. to \in Groups
      BY <1>2, <1>8, <2>1
    <3>2. f = Repointed(Homes, {g}, to)
      BY <1>3, <2>1
    <3>3. /\ f \in [Groups -> GroupRows]
          /\ \A x \in Groups :
               /\ f[x].status = group[x].status /\ f[x].by = group[x].by
               /\ f[x].redirect = IF group[x].redirect \in {g} THEN to ELSE group[x].redirect
      BY <1>1, <3>1, <3>2, RepointedIs
    <3> QED BY <2>1, <3>3
  <2>2. CASE group[g].status # "redirected"
    <3>1. f = group
      BY <1>3, <2>2
    <3> QED BY <1>1, <2>2, <3>1, SoundIs
  <2> QED BY <2>1, <2>2
<1>10. Purged \in GroupRows /\ Purged.status = "purged" /\ Purged.redirect = None
  BY DEF Purged, GroupRows
<1>11. /\ group' \in [Groups -> GroupRows]
       /\ \A x \in Groups : group'[x] = IF x = g THEN Purged ELSE f[x]
  BY <1>4, <1>9, <1>10
<1>12. ASSUME NEW x \in Groups
       PROVE  /\ group'[x].status = IF x = g THEN "purged" ELSE group[x].status
              /\ x # g => group'[x].by = group[x].by
              /\ group'[x].redirect =
                   IF x = g THEN None
                   ELSE IF group[g].status = "redirected" /\ group[x].redirect = g THEN to
                   ELSE group[x].redirect
  <2>1. CASE x = g
    BY <1>10, <1>11, <2>1
  <2>2. CASE x # g
    BY <1>9, <1>11, <2>2
  <2> QED BY <2>1, <2>2
<1>13. past' \in SUBSET (Threads \X Groups)
  BY <1>1, <1>4, SoundIs
<1>14. ASSUME NEW t \in Threads, member'[t] # None
       PROVE  /\ member'[t] = member[t] /\ member[t].group # g
              /\ group'[member'[t].group].status = "active"
  <2>1. member'[t] = member[t] /\ member[t].group # g
    BY <1>7, <1>14
  <2>2. PICK x \in Groups : x = member[t].group /\ x # g /\ group[x].status = "active"
    BY <1>6, <1>14, <2>1
  <2>3. group'[x].status = "active"
    BY <1>12, <2>2
  <2> QED BY <2>1, <2>2, <2>3
<1>15. ASSUME NEW x \in Groups
       PROVE  IF group'[x].status = "redirected"
              THEN /\ group'[x].redirect \in Groups
                   /\ group'[group'[x].redirect].status \in {"active", "split", "purged"}
              ELSE group'[x].redirect = None
  <2>1. CASE x = g
    BY <1>12, <2>1
  <2>2. CASE x # g /\ group[x].status # "redirected"
    <3>1. group[x].redirect = None /\ None # g
      BY <1>8, <2>2, NoneAssumption
    <3>2. group'[x].redirect = None /\ group'[x].status # "redirected"
      BY <1>12, <2>2, <3>1
    <3> QED BY <3>2
  <2>3. CASE x # g /\ group[x].status = "redirected"
    <3>1. PICK y \in Groups : y = group[x].redirect /\ group[y].status \in {"active", "split", "purged"}
      BY <1>8, <2>3
    <3>2. ~(group[g].status = "redirected" /\ group[x].redirect = g)
      BY <3>1
    <3>3. group'[x].redirect = y /\ group'[x].status = "redirected"
      BY <1>12, <2>3, <3>1, <3>2
    <3>4. group'[y].status \in {"active", "split", "purged"}
      BY <1>12, <3>1
    <3> QED BY <3>1, <3>3, <3>4
  <2> QED BY <2>1, <2>2, <2>3
<1>16. ASSUME NEW x \in Groups, NEW y \in Groups,
              group'[x].status = "none", group'[y].status # "none"
       PROVE  y < x
  <2>1. group[x].status = "none"
    BY <1>12, <1>16
  <2>2. group[y].status # "none"
    <3>1. CASE y = g
      BY <1>4, <3>1
    <3>2. CASE y # g
      BY <1>12, <1>16, <3>2
    <3> QED BY <3>1, <3>2
  <2> QED BY <1>1, <2>1, <2>2, SoundIs
<1>17. Sound(Homes)'
  BY <1>7, <1>11, <1>13, <1>14, <1>15, <1>16, SoundNext
<1>18. Obeyed
  <2> SUFFICES ASSUME NEW t \in Threads, PlacedByOperator(t)
               PROVE  \/ PlacedByOperator(t)' /\ member'[t].group = member[t].group
                      \/ group'[member[t].group].status # "active"
    BY DEF Obeyed
  <2>1. CASE member[t].group = g
    BY <1>12, <2>1
  <2>2. CASE member[t].group # g
    BY <1>7, <2>2 DEF PlacedByOperator
  <2> QED BY <2>1, <2>2
<1>19. Peopled(Homes)'
  <2> SUFFICES ASSUME NEW x \in Groups, group'[x].status = "active", group'[x].by = "reconciler"
               PROVE  \E t \in Threads : member'[t] # None /\ member'[t].group = x
    BY PeopledNext
  <2>1. x # g
    BY <1>12
  <2>2. group[x].status = "active" /\ group[x].by = "reconciler"
    BY <1>12, <2>1
  <2>3. PICK t \in Threads : member[t] # None /\ member[t].group = x
    BY <1>1, <2>2, PeopledIs
  <2> QED BY <1>7, <2>1, <2>3
<1>20. Buries(Homes, Homes')
  BY <1>12, HomesNow DEF Buries
<1> QED BY <1>5, <1>12, <1>14, <1>17, <1>18, <1>19, <1>20 DEF HomesKept

LEMMA RemoveOfHomes ==
    ASSUME Inv, NEW D, Remove(D)
    PROVE  HomesKept /\ KeepsCompany
<1>1. Sound(Homes) /\ Peopled(Homes)
  BY DEF Inv
<1>2. /\ group' = group /\ past' = past
      /\ member' = [t \in Threads |->
                      IF t \in D /\ member[t] # None
                      THEN [member[t] EXCEPT !.state = "deleted"] ELSE member[t]]
  BY DEF Remove
<1>3. member \in [Threads -> Memberships \cup {None}]
  BY <1>1, SoundIs
<1>4. ASSUME NEW t \in Threads
      PROVE  /\ member'[t] # None <=> member[t] # None
             /\ member[t] # None => /\ member'[t] \in Memberships
                                    /\ member'[t].group = member[t].group
                                    /\ member'[t].by = member[t].by
  <2>1. CASE t \in D /\ member[t] # None
    <3>1. member'[t] = [member[t] EXCEPT !.state = "deleted"] /\ member[t] \in Memberships
      BY <1>2, <1>3, <2>1
    <3>2. /\ member'[t] \in Memberships /\ member'[t].group = member[t].group
          /\ member'[t].by = member[t].by
      BY <3>1 DEF Memberships
    <3> QED BY <2>1, <3>2, NoneAssumption
  <2>2. CASE ~(t \in D /\ member[t] # None)
    BY <1>2, <1>3, <2>2
  <2> QED BY <2>1, <2>2
<1>5. member' \in [Threads -> Memberships \cup {None}]
  <2>1. member' = [t \in Threads |-> member'[t]]
    BY <1>2
  <2> QED BY <1>3, <1>4, <2>1
<1>6. Sound(Homes)'
  BY <1>1, <1>2, <1>4, <1>5, SoundIs, SoundNext
<1>7. Obeyed
  BY <1>4 DEF Obeyed, PlacedByOperator
<1>8. Peopled(Homes)'
  BY <1>1, <1>2, <1>4, PeopledIs, PeopledNext
<1>9. Buries(Homes, Homes')
  BY <1>2, HomesNow DEF Buries
<1>10. KeepsCompany
  BY <1>4 DEF KeepsCompany
<1> QED BY <1>6, <1>7, <1>8, <1>9, <1>10 DEF HomesKept


-----------------------------------------------------------------------------
(* Verdicts, relations and associations.                                   *)

LEMMA EvidenceIs ==
    ASSUME NEW e \in Evidence
    PROVE  e.child \in Threads /\ e.parent \in Threads /\ e.kind \in Kinds
BY EvidenceAssumption

LEMMA RelationIs ==
    ASSUME NEW O \in SUBSET Evidence, NEW p \in Threads, NEW kind \in Kinds, NEW e \in O \cup {None},
           NEW x, x = [parent |-> p, kind |-> kind, evidence |-> e]
    PROVE  x \in Relations(O) /\ x # None /\ x.parent = p
<1>1. x \in Relations(O) /\ x.parent = p
  BY DEF Relations
<1>2. x \in Relations(Evidence)
  BY DEF Relations
<1> QED BY <1>1, <1>2, NoneAssumption

LEMMA RelationsAre ==
    ASSUME NEW O \in SUBSET Evidence, NEW r \in [Threads -> Relations(O) \cup {None}]
    PROVE  Lineage(r)
BY DEF Lineage, Relations

LEMMA MoreRelations ==
    ASSUME NEW O \in SUBSET Evidence, NEW P \in SUBSET O
    PROVE  Relations(P) \subseteq Relations(O)
BY DEF Relations

\* What a verdict says of the relations.
LEMMA RuledIs ==
    ASSUME Inv, NEW t \in Threads, NEW O \in SUBSET Evidence, observed \subseteq O,
           NEW C \in SUBSET O, NEW verdict, verdict = Verdict(t, C),
           NEW q, q = Ruled(t, Winners(C), verdict)
    PROVE  /\ q \in [Threads -> Relations(O) \cup {None}]
           /\ Lineage(q) /\ Acyclic(q)
           /\ verdict \in {"kept", "adopted"} => q[t] # None
           /\ verdict = "adopted" =>
                /\ \E w \in C : q[t].parent = w.parent
                /\ \A c \in Threads \ {t} : q[c] = rel[c]
           /\ verdict # "adopted" =>
                \A c \in Threads : q[c] # None => rel[c] # None /\ q[c] = rel[c]
<1>1. PICK W : W = Winners(C)
  OBVIOUS
<1>2. PICK w : w = CHOOSE e \in W : TRUE
  OBVIOUS
<1>3. W \subseteq C
  BY <1>1 DEF Winners
<1>4. verdict = CASE W = {} -> "none"
                  [] W \notin {{}, {w}} -> "tie"
                  [] W = {w} /\ Closes(t, w.parent) -> "loop"
                  [] W = {w} /\ ~Closes(t, w.parent) ->
                       IF rel[t] = None THEN "adopted"
                       ELSE IF rel[t].parent = w.parent /\ rel[t].kind = w.kind
                            THEN "kept" ELSE "rival"
  BY <1>1, <1>2 DEF Verdict
<1>5. /\ verdict \in {"none", "tie", "loop", "adopted", "kept", "rival"}
      /\ verdict = "adopted" => W = {w} /\ ~Closes(t, w.parent)
      /\ verdict = "kept" => rel[t] # None
  BY <1>4
<1>6. q = CASE verdict \in {"tie", "rival"} -> [rel EXCEPT ![t] = None]
            [] verdict = "adopted" ->
                 [rel EXCEPT ![t] = [parent |-> w.parent, kind |-> w.kind, evidence |-> w]]
            [] OTHER -> rel
  BY <1>1, <1>2 DEF Ruled
<1>7. /\ rel \in [Threads -> Relations(O) \cup {None}] /\ Lineage(rel) /\ Acyclic(rel)
  <2>1. rel \in [Threads -> Relations(observed) \cup {None}] /\ observed \subseteq Evidence /\ Acyclic(rel)
    BY DEF Inv, TypeOK
  <2> QED BY <2>1, MoreRelations, RelationsAre
<1>8. CASE verdict \in {"tie", "rival"}
  <2>1. q = [rel EXCEPT ![t] = None]
    BY <1>6, <1>8
  <2>2. \A c \in Threads : q[c] # None => rel[c] # None /\ q[c] = rel[c]
    BY <1>7, <2>1
  <2>3. q \in [Threads -> Relations(O) \cup {None}]
    BY <1>7, <2>1
  <2> QED BY <1>5, <1>7, <1>8, <2>2, <2>3, FewerAreAcyclic
<1>9. CASE verdict = "adopted"
  <2>1. PICK x : x = [parent |-> w.parent, kind |-> w.kind, evidence |-> w]
    OBVIOUS
  <2>2. q = [rel EXCEPT ![t] = x]
    BY <1>6, <1>9, <2>1
  <2>3. w \in O /\ w \in Evidence /\ ~Closes(t, w.parent)
    BY <1>3, <1>5, <1>9
  <2>4. w.parent \in Threads /\ w.kind \in Kinds
    BY <2>3, EvidenceIs
  <2>5. x \in Relations(O) /\ x # None /\ x.parent = w.parent
    BY <2>1, <2>3, <2>4, RelationIs
  <2>6. q \in [Threads -> Relations(O) \cup {None}] /\ q[t] = x
    BY <1>7, <2>2, <2>5
  <2>7. t \notin Line(rel, w.parent)
    BY <2>3 DEF Closes
  <2>8. \A c \in Threads \ {t} : q[c] = rel[c]
    BY <1>7, <2>2
  <2>9. Lineage(q) /\ Acyclic(q)
    BY <1>7, <2>4, <2>5, <2>6, <2>7, <2>8, AdoptionIsAcyclic
  <2> QED BY <1>3, <1>5, <1>9, <2>5, <2>6, <2>8, <2>9
<1>10. CASE verdict \notin {"tie", "rival", "adopted"}
  <2>1. q = rel
    BY <1>6, <1>10
  <2> QED BY <1>5, <1>7, <1>10, <2>1
<1> QED BY <1>8, <1>9, <1>10

LEMMA HouseKeeps ==
    ASSUME Inv, NEW t \in Threads, row[t], NEW verdict, NEW q, q = rel', Lineage(q), Acyclic(q),
           verdict \in {"kept", "adopted"} => q[t] # None, House(t, verdict)
    PROVE  Kept
<1>1. Sound(Homes)
  BY DEF Inv
<1>2. CASE verdict \in {"kept", "adopted"}
  <2>1. PICK p \in Threads : p = q[t].parent
    BY <1>2 DEF Lineage
  <2>2. Follow(rel', t, rel'[t].parent)
    BY <1>2 DEF House
  <2>3. Follow(q, t, p)
    BY <2>1, <2>2
  <2> QED BY <1>1, <2>1, <2>3, FollowKeeps
<1>3. CASE verdict \notin {"kept", "adopted"}
  <2>1. Singleton(t)
    BY <1>3 DEF House
  <2> QED BY <1>1, <2>1, SingletonKeeps
<1> QED BY <1>2, <1>3

LEMMA JudgedIs ==
    ASSUME NEW x \in Associations \cup {None},
           NEW state \in {"pending", "candidate", "conflict", "superseded"}, NEW known \in BOOLEAN
    PROVE  Judged(x, state, known) \in Associations /\ Judged(x, state, known) # None
<1>1. [state |-> state, subject |-> TRUE, parent |-> known] \in Associations
  BY DEF Associations
<1>2. x # None => [x EXCEPT !.state = state, !.parent = known] \in Associations
  <2> SUFFICES ASSUME x # None PROVE [x EXCEPT !.state = state, !.parent = known] \in Associations
    OBVIOUS
  <2>1. /\ x \in [state : {"pending", "candidate", "conflict", "superseded"},
                  subject : BOOLEAN, parent : BOOLEAN]
    BY DEF Associations
  <2>2. [x EXCEPT !.state = state] \in
          [state : {"pending", "candidate", "conflict", "superseded"}, subject : BOOLEAN, parent : BOOLEAN]
    BY <2>1
  <2> QED BY <2>2 DEF Associations
<1>3. Judged(x, state, known) \in Associations
  BY <1>1, <1>2 DEF Judged
<1> QED BY <1>3, NoneAssumption

LEMMA MarkedAllIs ==
    ASSUME NEW a \in [Evidence -> Associations \cup {None}], NEW S,
           NEW state \in {"pending", "candidate", "conflict", "superseded"},
           row \in [Threads -> BOOLEAN]
    PROVE  /\ MarkedAll(a, S, state) \in [Evidence -> Associations \cup {None}]
           /\ \A e \in Evidence : MarkedAll(a, S, state)[e] # None => e \in S \/ a[e] # None
<1>1. \A e \in Evidence : row[e.parent] \in BOOLEAN
  BY EvidenceIs
<1>2. \A e \in Evidence : Judged(a[e], state, row[e.parent]) \in Associations
  BY <1>1, JudgedIs
<1> QED BY <1>2 DEF MarkedAll

LEMMA AfterImportIs ==
    ASSUME Inv, NEW t \in Threads, NEW E \in SUBSET Evidence, NEW C \in SUBSET E, NEW verdict,
           NEW b, b = AfterImport(t, E, C, verdict)
    PROVE  /\ b \in [Evidence -> Associations \cup {None}]
           /\ \A e \in Evidence : b[e] # None => e \in E \/ assoc[e] # None
<1>1. PICK held : held = MarkedAll(assoc, E \ C, "pending")
  OBVIOUS
<1>2. PICK W : W = Winners(C)
  OBVIOUS
<1>3. assoc \in [Evidence -> Associations \cup {None}] /\ row \in [Threads -> BOOLEAN]
  BY DEF Inv, TypeOK
<1>4. /\ held \in [Evidence -> Associations \cup {None}]
      /\ \A e \in Evidence : held[e] # None => e \in E \/ assoc[e] # None
  BY <1>1, <1>3, MarkedAllIs
<1>5. W \subseteq E
  BY <1>2 DEF Winners
<1>6. b = CASE verdict \in {"tie", "rival"} -> MarkedAll(held, W, "conflict")
            [] verdict = "loop" ->
                 [e \in Evidence |-> IF e \in W THEN Judged(held[e], "conflict", FALSE) ELSE held[e]]
            [] verdict = "adopted" \/ (verdict = "kept" /\ rel[t].evidence \in W) ->
                 [e \in Evidence |->
                    IF e \in W /\ held[e] # None /\ held[e].state = "pending"
                    THEN [held[e] EXCEPT !.state = "candidate", !.parent = TRUE]
                    ELSE held[e]]
            [] OTHER -> held
  BY <1>1, <1>2 DEF AfterImport
<1>7. CASE verdict \in {"tie", "rival"}
  <2>1. b = MarkedAll(held, W, "conflict")
    BY <1>6, <1>7
  <2> QED BY <1>3, <1>4, <1>5, <2>1, MarkedAllIs
<1>8. CASE verdict = "loop"
  <2>1. b = [e \in Evidence |-> IF e \in W THEN Judged(held[e], "conflict", FALSE) ELSE held[e]]
    BY <1>6, <1>8
  <2>2. \A e \in Evidence : Judged(held[e], "conflict", FALSE) \in Associations
    BY <1>4, JudgedIs
  <2> QED BY <1>4, <1>5, <2>1, <2>2
<1>9. CASE /\ verdict \notin {"tie", "rival", "loop"}
           /\ verdict = "adopted" \/ (verdict = "kept" /\ rel[t].evidence \in W)
  <2>1. b = [e \in Evidence |->
                    IF e \in W /\ held[e] # None /\ held[e].state = "pending"
                    THEN [held[e] EXCEPT !.state = "candidate", !.parent = TRUE]
                    ELSE held[e]]
    BY <1>6, <1>9
  <2>2. ASSUME NEW e \in Evidence, held[e] # None
        PROVE  [held[e] EXCEPT !.state = "candidate", !.parent = TRUE] \in Associations
    <3>1. held[e] \in Associations
      BY <1>4, <2>2
    <3>2. [held[e] EXCEPT !.state = "candidate"] \in Associations
      BY <3>1 DEF Associations
    <3> QED BY <3>2 DEF Associations
  <2> QED BY <1>4, <1>5, <2>1, <2>2
<1>10. CASE /\ verdict \notin {"tie", "rival", "loop"}
            /\ ~(verdict = "adopted" \/ (verdict = "kept" /\ rel[t].evidence \in W))
  <2>1. b = held
    BY <1>6, <1>10
  <2> QED BY <1>4, <2>1
<1> QED BY <1>7, <1>8, <1>9, <1>10

LEMMA AfterLateIs ==
    ASSUME Inv, NEW C \in SUBSET observed, NEW verdict, NEW b, b = AfterLate(C, verdict)
    PROVE  /\ b \in [Evidence -> Associations \cup {None}]
           /\ \A e \in Evidence : b[e] # None => e \in observed
<1>1. PICK waiting : waiting = C \cap InState(assoc, {"pending"})
  OBVIOUS
<1>2. PICK W : W = Winners(C)
  OBVIOUS
<1>3. /\ assoc \in [Evidence -> Associations \cup {None}] /\ row \in [Threads -> BOOLEAN]
      /\ \A e \in Evidence : assoc[e] # None => e \in observed
  BY DEF Inv, TypeOK
<1>4. W \subseteq observed /\ waiting \subseteq observed
  BY <1>1, <1>2 DEF Winners
<1>5. b = CASE verdict \in {"tie", "loop"} ->
                 MarkedAll(MarkedAll(assoc, W, "conflict"), waiting \ W, "candidate")
            [] verdict = "rival" -> MarkedAll(assoc, C, "conflict")
            [] OTHER -> MarkedAll(assoc, waiting \cup W, "candidate")
  BY <1>1, <1>2 DEF AfterLate
<1>6. CASE verdict \in {"tie", "loop"}
  <2>1. PICK m : m = MarkedAll(assoc, W, "conflict")
    OBVIOUS
  <2>2. b = MarkedAll(m, waiting \ W, "candidate")
    BY <1>5, <1>6, <2>1
  <2>3. /\ m \in [Evidence -> Associations \cup {None}]
        /\ \A e \in Evidence : m[e] # None => e \in W \/ assoc[e] # None
    BY <1>3, <2>1, MarkedAllIs
  <2>4. /\ b \in [Evidence -> Associations \cup {None}]
        /\ \A e \in Evidence : b[e] # None => e \in waiting \ W \/ m[e] # None
    BY <1>3, <2>2, <2>3, MarkedAllIs
  <2> QED BY <1>3, <1>4, <2>3, <2>4
<1>7. CASE verdict = "rival"
  <2>1. b = MarkedAll(assoc, C, "conflict")
    BY <1>5, <1>7
  <2>2. /\ b \in [Evidence -> Associations \cup {None}]
        /\ \A e \in Evidence : b[e] # None => e \in C \/ assoc[e] # None
    BY <1>3, <2>1, MarkedAllIs
  <2> QED BY <1>3, <2>2
<1>8. CASE verdict \notin {"tie", "loop", "rival"}
  <2>1. b = MarkedAll(assoc, waiting \cup W, "candidate")
    BY <1>5, <1>8
  <2>2. /\ b \in [Evidence -> Associations \cup {None}]
        /\ \A e \in Evidence : b[e] # None => e \in waiting \cup W \/ assoc[e] # None
    BY <1>3, <2>1, MarkedAllIs
  <2> QED BY <1>3, <1>4, <2>2
<1> QED BY <1>6, <1>7, <1>8


-----------------------------------------------------------------------------
(* Each action keeps the invariant.                                        *)

EvidenceOK ==
    /\ observed \subseteq Evidence
    /\ assoc \in [Evidence -> Associations \cup {None}]
    /\ \A e \in Evidence : assoc[e] # None => e \in observed
    /\ rel \in [Threads -> Relations(observed) \cup {None}]
    /\ due \subseteq observed
    /\ Acyclic(rel)

ThreadsOK ==
    /\ row \in [Threads -> BOOLEAN]
    /\ marked \in [Threads -> BOOLEAN]
    /\ acts \in 0 .. MaxActs
    /\ deletion = None \/ deletion \subseteq Threads
    /\ attaching \in Attaches \cup {None}
    /\ NoLiveMarker
    /\ AttachesAlone => AttachedLive /\ Living(Homes)

LEMMA InvIs ==
    Inv <=> EvidenceOK /\ ThreadsOK /\ Sound(Homes) /\ Peopled(Homes) /\ Together
BY SoundIs DEF Inv, TypeOK, EvidenceOK, ThreadsOK

LEMMA InvNext ==
    ASSUME EvidenceOK', ThreadsOK', HomesKept, Together'
    PROVE  Inv' /\ Obeyed
<1>1. Sound(Homes)' /\ Peopled(Homes)' /\ Obeyed
  BY DEF HomesKept
<1>2. (EvidenceOK /\ ThreadsOK /\ Sound(Homes) /\ Peopled(Homes) /\ Together)'
  BY <1>1
<1>3. Inv'
  BY <1>2, InvIs, PTL
<1> QED BY <1>1, <1>3

LEMMA SameHomes == ASSUME Inv, UNCHANGED homeVars PROVE HomesKept
BY NothingMoved, KeptIsObeyed DEF Inv, HomesKept, Kept

LEMMA SameEvidence == ASSUME Inv, UNCHANGED <<evidenceVars, rel>> PROVE EvidenceOK'
<1>1. EvidenceOK
  BY InvIs
<1>2. observed' = observed /\ assoc' = assoc /\ due' = due /\ rel' = rel
  BY DEF evidenceVars
<1> QED BY <1>1, <1>2 DEF EvidenceOK, Acyclic, Line, UpClosed, Relations, Associations

LEMMA LivingNext ==
    ASSUME Living(Homes), StatesKept, row' = row,
           \A t \in Threads : member'[t] # None /\ marked[t] => marked'[t]
    PROVE  Living(Homes)'
<1> SUFFICES ASSUME NEW t \in Threads, member'[t] # None
             PROVE  IF member'[t].state = "active" THEN row'[t] ELSE ~row'[t] /\ marked'[t]
  BY HomesNow DEF Living
<1>1. /\ member[t] # None /\ member'[t].state = member[t].state
  BY DEF StatesKept
<1>2. IF member[t].state = "active" THEN row[t] ELSE ~row[t] /\ marked[t]
  BY <1>1, HomesNow DEF Living
<1> QED BY <1>1, <1>2

LEMMA SameStates == ASSUME UNCHANGED homeVars PROVE StatesKept
BY DEF StatesKept, homeVars

\* Threads, their markers and attaches are as before.
LEMMA SameThreads ==
    ASSUME Inv, UNCHANGED <<threadVars, attaching>>, acts' = acts \/ Act,
           AttachesAlone => Living(Homes)'
    PROVE  ThreadsOK'
<1>1. ThreadsOK
  BY InvIs
<1>2. /\ row' = row /\ marked' = marked /\ deletion' = deletion /\ attaching' = attaching
  BY DEF threadVars
<1>3. acts' \in 0 .. MaxActs
  BY <1>1, BoundsAssumption DEF ThreadsOK, Act
<1> QED BY <1>1, <1>2, <1>3 DEF ThreadsOK, NoLiveMarker, AttachedLive, Attaches, Groups

LEMMA LivingUnlessMoved ==
    ASSUME Inv, UNCHANGED <<threadVars, homeVars>>
    PROVE  AttachesAlone => Living(Homes)'
BY LivingNext, SameStates DEF Inv, threadVars

LEMMA LivingOfHouse ==
    ASSUME Inv, UNCHANGED threadVars, Kept
    PROVE  AttachesAlone => Living(Homes)'
BY DEF Inv, threadVars, Kept


-----------------------------------------------------------------------------
(* Families stay together.                                                 *)

LEMMA UnpurgedBefore ==
    ASSUME Buries(Homes, Homes'), Unpurged' PROVE Unpurged
BY HomesNow DEF Buries, Unpurged, Groups

\* Where no relation is new and members keep company.
LEMMA TiesStay ==
    ASSUME Inv, HomesKept \/ Kept,
           \A t \in Threads : rel'[t] # None => rel[t] # None /\ rel'[t].parent = rel[t].parent,
           KeepsCompany
    PROVE  Together'
<1> SUFFICES ASSUME AttachesAlone, Unpurged', NEW t \in Threads, rel'[t] # None
             PROVE  /\ member'[t] # None
                    /\ member'[t].by = "reconciler" =>
                         /\ member'[rel'[t].parent] # None
                         /\ member'[rel'[t].parent].group = member'[t].group
  BY DEF Together, Tied
<1>1. Unpurged
  BY UnpurgedBefore DEF HomesKept, Kept
<1>2. PICK u \in Threads : rel[t] # None /\ u = rel[t].parent /\ u = rel'[t].parent
  <2>1. rel \in [Threads -> Relations(observed) \cup {None}]
    BY DEF Inv, TypeOK
  <2> QED BY <2>1 DEF Relations
<1>3. /\ member[t] # None
      /\ member[t].by = "reconciler" => member[u] # None /\ member[u].group = member[t].group
  BY <1>1, <1>2 DEF Inv, Together, Tied
<1>4. ASSUME member'[t].by = "reconciler" PROVE member[t].by = "reconciler"
  BY <1>3, <1>4 DEF KeepsCompany
<1> QED BY <1>2, <1>3, <1>4 DEF KeepsCompany

LEMMA TiesStayAtHome ==
    ASSUME Inv, UNCHANGED homeVars,
           \A t \in Threads : rel'[t] # None => rel[t] # None /\ rel'[t].parent = rel[t].parent
    PROVE  Together'
<1>1. member' = member
  BY DEF homeVars
<1>2. Kept
  BY NothingMoved DEF Inv
<1>3. KeepsCompany
  BY <1>1 DEF KeepsCompany
<1> QED BY <1>2, <1>3, TiesStay

LEMMA SingletonTies ==
    ASSUME Inv, NEW t \in Threads, row[t], Singleton(t),
           \A c \in Threads : rel'[c] # None => rel[c] # None /\ rel'[c].parent = rel[c].parent
    PROVE  Together'
<1>1. Kept
  BY SingletonKeeps DEF Inv
<1>2. \A c \in Threads : member[c] # None => member'[c] = member[c]
  <2>1. CASE member[t] # None
    BY <2>1 DEF Singleton, homeVars
  <2>2. CASE member[t] = None
    <3>1. PICK g : Become([Open(Homes, g, t) EXCEPT !.member[t] = Seat(g, "active", "reconciler")])
      BY <2>2 DEF Singleton
    <3>2. PICK o : o = Open(Homes, g, t)
      OBVIOUS
    <3>3. o.member = member /\ \E m, p, y : o = [member |-> m, past |-> p, group |-> y]
      BY <3>2 DEF Open, Homes
    <3>4. PICK s : s = Seat(g, "active", "reconciler")
      OBVIOUS
    <3>5. member' = [o EXCEPT !.member[t] = s].member
      BY <3>1, <3>2, <3>4 DEF Become
    <3>6. member' = [member EXCEPT ![t] = s]
      BY <3>3, <3>5
    <3> QED BY <2>2, <3>6, SoundIs DEF Inv
  <2> QED BY <2>1, <2>2
<1>3. KeepsCompany
  BY <1>2 DEF KeepsCompany
<1> QED BY <1>1, <1>3, TiesStay

LEMMA FollowTies ==
    ASSUME Inv, NEW q, q = rel', Lineage(q), Acyclic(q), NEW t \in Threads, NEW p \in Threads,
           q[t] # None, q[t].parent = p, \A c \in Threads \ {t} : q[c] = rel[c],
           row[t], (rel[t] # None /\ rel[t].parent = p) \/ row[p], Follow(q, t, p)
    PROVE  Together'
<1> SUFFICES ASSUME AttachesAlone, Unpurged', NEW c \in Threads, q[c] # None, NEW x \in Threads,
                    x = q[c].parent
             PROVE  /\ member'[c] # None
                    /\ member'[c].by = "reconciler" =>
                         member'[x] # None /\ member'[x].group = member'[c].group
  BY DEF Together, Tied, Lineage
<1>1. Sound(Homes) /\ Living(Homes) /\ Kept
  BY FollowKeeps DEF Inv
<1>2. Unpurged
  BY <1>1, UnpurgedBefore DEF Kept
<1>3. /\ \A d \in Threads : rel[d] # None =>
           /\ member[d] # None
           /\ member[d].by = "reconciler" =>
                /\ member[rel[d].parent] # None
                /\ member[rel[d].parent].group = member[d].group
      /\ \A d \in Threads : member[d] # None => member[d].by \in {"reconciler", "operator"}
  BY <1>1, <1>2, SoundIs DEF Inv, Together, Tied
<1>4. CASE Fixed(Homes, t)
  <2>1. member' = member
    BY <1>4 DEF Follow, homeVars
  <2>2. CASE c = t
    BY <1>4, <2>1, <2>2, HomesNow DEF Fixed
  <2>3. CASE c # t
    BY <1>3, <2>1, <2>3
  <2> QED BY <2>2, <2>3
<1>5. CASE ~Fixed(Homes, t)
  <2>1. p \in Line(q, p) /\ t \notin Line(q, p)
    BY LineIs DEF Acyclic
  <2>2. p # t /\ q[p] = rel[p]
    BY <2>1
  <2>3. member[p] # None \/ q[p] = None
    BY <1>3, <2>2
  <2>4. p \notin Followers(q, t)
    BY <2>1 DEF Followers
  <2>5. member[p] # None \/ row[p]
    <3>1. CASE rel[t] # None /\ rel[t].parent = p
      BY <1>3, <1>5, <3>1, HomesNow DEF Fixed
    <3> QED BY <3>1
  <2>6. PICK f : f = Followers(q, t)
    OBVIOUS
  <2>7. PICK g \in Groups :
             /\ \A d \in f : ~Fixed(Homes, d) /\ (row[d] \/ member[d] # None) =>
                    member'[d] # None /\ member'[d].group = g
             /\ \A d \in Threads \ f : d # p \/ member[p] # None => member'[d] = member[d]
             /\ member[p] # None \/ row[p] => member'[p] # None /\ member'[p].group = g
             /\ \A d \in Threads : member[d] # None => member'[d] # None
    BY <1>1, <1>5, <2>3, <2>4, <2>6, FollowPlaces
  <2>8. t \in f
    BY <2>6, ItFollowsItself
  <2>9. CASE c = t
    BY <1>5, <2>5, <2>7, <2>8, <2>9
  <2>10. CASE c # t
    <3>1. rel[c] # None /\ rel[c].parent = x /\ member[c] # None /\ member'[c] # None
      BY <1>3, <2>7, <2>10
    <3> SUFFICES ASSUME member'[c].by = "reconciler"
                 PROVE  member'[x] # None /\ member'[x].group = member'[c].group
      BY <3>1
    <3>2. ~Fixed(Homes, c)
      BY <1>1, HomesNow DEF Kept, Stays, Fixed
    <3>3. member[c].by = "reconciler"
      BY <1>3, <3>1, <3>2, HomesNow DEF Fixed
    <3>4. member[x] # None /\ member[x].group = member[c].group
      BY <1>3, <3>1, <3>3
    <3>5. /\ c \in Line(q, c) /\ x \in Line(q, c) /\ x \in Line(q, x)
          /\ Line(q, x) \subseteq Line(q, c)
          /\ \A y \in Line(q, c) : y # c => y \in Line(q, x)
      <4>1. c \in Line(q, c) /\ x \in Line(q, c) /\ x \in Line(q, x)
        BY LineIs DEF UpClosed
      <4>2. Line(q, x) \subseteq Line(q, c)
        BY <4>1, LineIsWithin
      <4>3. \A y \in Line(q, c) : y # c => y \in Line(q, x)
        BY LineUnrolls
      <4> QED BY <4>1, <4>2, <4>3
    <3>6. CASE c \in f
      <4>1. t \in Line(q, c) /\ t \in Line(q, x)
        BY <2>6, <2>10, <3>5, <3>6 DEF Followers
      <4>2. \A y \in Threads \ {t} : Fixed(Homes, y) => ~(y \in Line(q, c) /\ t \in Line(q, y))
        BY <2>6, <3>6 DEF Followers
      <4>3. x \in f
        BY <2>6, <3>5, <4>1, <4>2 DEF Followers
      <4>4. ~Fixed(Homes, x)
        BY <1>5, <3>5, <4>1, <4>2
      <4>5. member'[x] # None /\ member'[x].group = g
        BY <2>7, <3>4, <4>3, <4>4
      <4> QED BY <2>7, <3>1, <3>2, <3>6, <4>5
    <3>7. CASE c \notin f
      <4>1. member'[c] = member[c]
        BY <2>7, <3>1, <3>7
      <4>2. x \notin f
        <5> SUFFICES ASSUME x \in f PROVE FALSE
          OBVIOUS
        <5>1. t \in Line(q, x) /\ t \in Line(q, c)
          BY <2>6, <3>5 DEF Followers
        <5>2. PICK y \in Threads \ {t} : Fixed(Homes, y) /\ y \in Line(q, c) /\ t \in Line(q, y)
          BY <2>6, <3>7, <5>1 DEF Followers
        <5>3. y \in Line(q, x)
          BY <3>2, <3>5, <5>2
        <5> QED BY <2>6, <5>2, <5>3 DEF Followers
      <4>3. member'[x] = member[x]
        BY <2>7, <3>4, <4>2
      <4> QED BY <3>4, <4>1, <4>3
    <3> QED BY <3>6, <3>7
  <2> QED BY <2>9, <2>10
<1> QED BY <1>4, <1>5

LEMMA HouseTies ==
    ASSUME Inv, NEW t \in Threads, row[t], NEW O \in SUBSET Evidence, observed \subseteq O,
           NEW C \in SUBSET O, \A e \in C : row[e.parent],
           NEW verdict, verdict = Verdict(t, C),
           NEW q, q = Ruled(t, Winners(C), verdict), q = rel', House(t, verdict)
    PROVE  Together'
<1>1. /\ Lineage(q) /\ Acyclic(q)
      /\ verdict \in {"kept", "adopted"} => q[t] # None
      /\ verdict = "adopted" =>
           /\ \E w \in C : q[t].parent = w.parent
           /\ \A c \in Threads \ {t} : q[c] = rel[c]
      /\ verdict # "adopted" =>
           \A c \in Threads : q[c] # None => rel[c] # None /\ q[c] = rel[c]
  BY ONLY Inv, observed \subseteq O, verdict = Verdict(t, C), q = Ruled(t, Winners(C), verdict),
          RuledIs
<1>2. CASE verdict \in {"kept", "adopted"}
  <2>1. PICK p \in Threads : p = q[t].parent
    BY <1>1, <1>2 DEF Lineage
  <2>2. Follow(q, t, p)
    BY <1>2, <2>1 DEF House
  <2>3. CASE verdict = "adopted"
    <3>1. row[p]
      BY <1>1, <2>1, <2>3
    <3> QED BY <1>1, <1>2, <2>1, <2>2, <2>3, <3>1, FollowTies
  <2>4. CASE verdict = "kept"
    <3>1. q = rel
      <4>1. verdict \notin {"tie", "rival", "adopted"}
        BY <2>4
      <4> QED BY <4>1 DEF Ruled
    <3> QED BY <1>1, <1>2, <2>1, <2>2, <3>1, FollowTies
  <2> QED BY <1>2, <2>3, <2>4
<1>3. CASE verdict \notin {"kept", "adopted"}
  <2>1. Singleton(t)
    BY <1>3 DEF House
  <2> QED BY <1>1, <1>3, <2>1, SingletonTies
<1> QED BY <1>2, <1>3

\* Imports, late reconciliations and decisions: the relations change.

LEMMA RecordObservationsKeeps ==
    ASSUME Inv, NEW t \in Threads, NEW E \in Batches, RecordObservations(t, E)
    PROVE  Inv' /\ Obeyed
<1>1. PICK C : C = {e \in E : ReadyForImport(e.parent)}
  OBVIOUS
<1>2. PICK verdict : verdict = Verdict(t, C)
  OBVIOUS
<1>3. PICK O : O = observed \cup E
  OBVIOUS
<1>4. /\ row[t] /\ observed' = O
      /\ rel' = Ruled(t, Winners(C), verdict)
      /\ assoc' = AfterImport(t, E, C, verdict)
      /\ House(t, verdict)
      /\ UNCHANGED <<acts, threadVars, attaching>>
      /\ \/ due' = due \cup {e \in InState(assoc', {"pending"}) : e.parent = t}
         \/ due' = due
  BY <1>1, <1>2, <1>3 DEF RecordObservations, Resolves
<1>5. /\ O \in SUBSET Evidence /\ observed \subseteq O /\ C \in SUBSET O /\ C \in SUBSET E
      /\ E \in SUBSET Evidence /\ E \subseteq O
  BY <1>1, <1>3, BatchesAssumption DEF Inv, TypeOK
<1>6. PICK q : q = Ruled(t, Winners(C), verdict)
  OBVIOUS
<1>7. /\ q \in [Threads -> Relations(O) \cup {None}] /\ Lineage(q) /\ Acyclic(q)
      /\ verdict \in {"kept", "adopted"} => q[t] # None
  BY <1>2, <1>5, <1>6, RuledIs
<1>8. rel' = q
  BY <1>4, <1>6
<1>9. Kept
  BY <1>4, <1>7, <1>8, HouseKeeps
<1>10. PICK b : b = AfterImport(t, E, C, verdict)
  OBVIOUS
<1>11. /\ b \in [Evidence -> Associations \cup {None}]
       /\ \A e \in Evidence : b[e] # None => e \in E \/ assoc[e] # None
  BY <1>5, <1>10, AfterImportIs
<1>12. assoc' = b
  BY <1>4, <1>10
<1>13. due \subseteq observed /\ \A e \in Evidence : assoc[e] # None => e \in observed
  BY DEF Inv, TypeOK
<1>14. \A e \in Evidence : b[e] # None => e \in O
  BY <1>3, <1>11, <1>13
<1>15. due' \subseteq O
  <2>1. \A e \in InState(assoc', {"pending"}) : e \in O
    BY <1>12, <1>14 DEF InState
  <2> QED BY <1>4, <1>5, <1>13, <2>1
<1>16. EvidenceOK'
  BY <1>4, <1>5, <1>7, <1>8, <1>11, <1>12, <1>14, <1>15
     DEF EvidenceOK, Acyclic, Line, UpClosed, Relations, Associations
<1>17. ThreadsOK'
  <2>1. UNCHANGED threadVars /\ UNCHANGED attaching /\ acts' = acts
    BY <1>4
  <2>2. AttachesAlone => Living(Homes)'
    BY <1>9, <2>1, LivingOfHouse
  <2> QED BY <2>1, <2>2, SameThreads
<1>18. HomesKept
  BY <1>9, KeptIsObeyed DEF HomesKept, Kept, Inv
<1>19. Together'
  <2>1. \A e \in C : row[e.parent]
    BY <1>1 DEF ReadyForImport, Resolves
  <2> QED BY <1>2, <1>4, <1>5, <1>6, <1>8, <2>1, HouseTies
<1> QED BY <1>16, <1>17, <1>18, <1>19, InvNext

LEMMA ReconcileKeeps ==
    ASSUME Inv, NEW e \in Evidence, Reconcile(e)
    PROVE  Inv' /\ Obeyed
<1>1. /\ due' = due \ {e} /\ observed' = observed
      /\ UNCHANGED <<acts, threadVars, attaching>>
  BY DEF Reconcile
<1>2. /\ observed \in SUBSET Evidence /\ due \subseteq observed
      /\ \A x \in Evidence : assoc[x] # None => x \in observed
  BY DEF Inv, TypeOK
<1>3. CASE Reconcilable(e)
  <2>1. PICK t \in Threads : t = e.child
    BY EvidenceIs
  <2>2. PICK C : C = {o \in observed \ InState(assoc, {"conflict", "superseded"}) :
                        o.child = t /\ ReadyForLate(o.parent)}
    OBVIOUS
  <2>3. PICK verdict : verdict = Verdict(t, C)
    OBVIOUS
  <2>4. /\ rel' = Ruled(t, Winners(C), verdict)
        /\ assoc' = AfterLate(C, verdict)
        /\ House(t, verdict)
    BY <1>3, <2>1, <2>2, <2>3 DEF Reconcile
  <2>5. row[t]
    BY <1>3, <2>1 DEF Reconcilable, Resolves
  <2>6. C \in SUBSET observed
    BY <2>2
  <2>7. PICK q : q = Ruled(t, Winners(C), verdict)
    OBVIOUS
  <2>8. /\ q \in [Threads -> Relations(observed) \cup {None}] /\ Lineage(q) /\ Acyclic(q)
        /\ verdict \in {"kept", "adopted"} => q[t] # None
    BY <1>2, <2>3, <2>6, <2>7, RuledIs
  <2>9. rel' = q
    BY <2>4, <2>7
  <2>10. Kept
    BY <2>4, <2>5, <2>8, <2>9, HouseKeeps
  <2>11. PICK b : b = AfterLate(C, verdict)
    OBVIOUS
  <2>12. /\ b \in [Evidence -> Associations \cup {None}]
         /\ \A x \in Evidence : b[x] # None => x \in observed
    BY <2>6, <2>11, AfterLateIs
  <2>13. assoc' = b
    BY <2>4, <2>11
  <2>14. EvidenceOK'
    BY <1>1, <1>2, <2>8, <2>9, <2>12, <2>13
       DEF EvidenceOK, Acyclic, Line, UpClosed, Relations, Associations
  <2>15. ThreadsOK'
    <3>1. UNCHANGED threadVars /\ UNCHANGED attaching /\ acts' = acts
      BY <1>1
    <3>2. AttachesAlone => Living(Homes)'
      BY <2>10, <3>1, LivingOfHouse
    <3> QED BY <3>1, <3>2, SameThreads
  <2>16. HomesKept
    BY <2>10, KeptIsObeyed DEF HomesKept, Kept, Inv
  <2>17. Together'
    <3>1. \A o \in C : row[o.parent]
      BY <2>2 DEF ReadyForLate, Resolves
    <3> QED BY <1>2, <2>3, <2>4, <2>5, <2>6, <2>7, <2>9, <3>1, HouseTies
  <2> QED BY <2>14, <2>15, <2>16, <2>17, InvNext
<1>4. CASE ~Reconcilable(e)
  <2>1. UNCHANGED <<rel, assoc, homeVars>>
    BY <1>4 DEF Reconcile
  <2>2. HomesKept
    BY <2>1, SameHomes
  <2>3. ThreadsOK'
    <3>1. AttachesAlone => Living(Homes)'
      BY <1>1, <2>1, LivingUnlessMoved
    <3> QED BY <1>1, <3>1, SameThreads
  <2>4. EvidenceOK'
    <3>1. EvidenceOK
      BY InvIs
    <3>2. assoc' = assoc /\ rel' = rel
      BY <2>1
    <3> QED BY <1>1, <3>1, <3>2 DEF EvidenceOK, Acyclic, Line, UpClosed, Relations, Associations
  <2>5. Together'
    BY <2>1, TiesStayAtHome
  <2> QED BY <2>2, <2>3, <2>4, <2>5, InvNext
<1> QED BY <1>3, <1>4

LEMMA AbortKeeps ==
    ASSUME Inv, NEW e \in Evidence, Abort(e)
    PROVE  Inv' /\ Obeyed
<1>1. /\ Act /\ due' = due \ {e} /\ observed' = observed /\ assoc' = assoc /\ rel' = rel
      /\ UNCHANGED threadVars /\ UNCHANGED homeVars /\ UNCHANGED attaching
  BY DEF Abort
<1>2. HomesKept
  BY <1>1, SameHomes
<1>3. ThreadsOK'
  <2>1. AttachesAlone => Living(Homes)'
    BY <1>1, LivingUnlessMoved
  <2> QED BY <1>1, <2>1, SameThreads
<1>4. EvidenceOK'
  <2>1. EvidenceOK
    BY InvIs
  <2> QED BY <1>1, <2>1 DEF EvidenceOK, Acyclic, Line, UpClosed, Relations, Associations
<1>5. Together'
  BY <1>1, TiesStayAtHome
<1> QED BY <1>2, <1>3, <1>4, <1>5, InvNext

\* One association is changed.
LEMMA OneJudged ==
    ASSUME Inv, NEW e \in Evidence, assoc[e] # None,
           NEW state \in {"pending", "candidate", "conflict", "superseded"},
           NEW b, b = [assoc EXCEPT ![e].state = state]
    PROVE  /\ b \in [Evidence -> Associations \cup {None}]
           /\ \A x \in Evidence : b[x] # None => x \in observed
<1>1. /\ assoc \in [Evidence -> Associations \cup {None}]
      /\ \A x \in Evidence : assoc[x] # None => x \in observed
  BY DEF Inv, TypeOK
<1>2. [assoc[e] EXCEPT !.state = state] \in Associations
  <2>1. assoc[e] \in Associations
    BY <1>1
  <2> QED BY <2>1 DEF Associations
<1> QED BY <1>1, <1>2

LEMMA ConfirmKeeps ==
    ASSUME Inv, NEW e \in Evidence, Confirm(e)
    PROVE  Inv' /\ Obeyed
<1>1. PICK t \in Threads, p \in Threads : t = e.child /\ p = e.parent
  BY EvidenceIs
<1>2. /\ Act /\ assoc[e] # None /\ row[t] /\ row[p] /\ ~Closes(t, p)
      /\ assoc' = [assoc EXCEPT ![e].state = "candidate"]
      /\ observed' = observed /\ due' = due
      /\ UNCHANGED threadVars /\ UNCHANGED attaching
      /\ \/ rel' = rel /\ UNCHANGED homeVars
         \/ /\ rel' = [rel EXCEPT ![t] = [parent |-> p, kind |-> "delegated", evidence |-> None]]
            /\ Follow(rel', t, p)
  BY <1>1 DEF Confirm, Decidable
<1>3. /\ observed \in SUBSET Evidence /\ due \subseteq observed
      /\ rel \in [Threads -> Relations(observed) \cup {None}] /\ Acyclic(rel) /\ Sound(Homes)
  BY DEF Inv, TypeOK
<1>4. Lineage(rel)
  BY <1>3, RelationsAre
<1>5. PICK b : b = [assoc EXCEPT ![e].state = "candidate"]
  OBVIOUS
<1>6. /\ b \in [Evidence -> Associations \cup {None}]
      /\ \A x \in Evidence : b[x] # None => x \in observed
  BY <1>2, <1>5, OneJudged
<1>7. PICK q : q = rel'
  OBVIOUS
<1>8. q \in [Threads -> Relations(observed) \cup {None}] /\ Acyclic(q) /\ Kept /\ Together'
  <2>1. CASE rel' = rel /\ UNCHANGED homeVars
    BY <1>3, <1>7, <2>1, NothingMoved, TiesStayAtHome
  <2>2. CASE /\ rel' = [rel EXCEPT ![t] = [parent |-> p, kind |-> "delegated", evidence |-> None]]
             /\ Follow(rel', t, p)
    <3>1. PICK x : x = [parent |-> p, kind |-> "delegated", evidence |-> None]
      OBVIOUS
    <3>2. x \in Relations(observed) /\ x # None /\ x.parent = p
      BY <1>3, <3>1, RelationIs DEF Kinds
    <3>3. q = [rel EXCEPT ![t] = x]
      BY <1>7, <2>2, <3>1
    <3>4. /\ q \in [Threads -> Relations(observed) \cup {None}] /\ q[t] = x
          /\ \A c \in Threads \ {t} : q[c] = rel[c]
      BY <1>3, <3>2, <3>3
    <3>5. t \notin Line(rel, p)
      BY <1>2 DEF Closes
    <3>6. Lineage(q) /\ Acyclic(q)
      BY <1>3, <1>4, <3>2, <3>4, <3>5, AdoptionIsAcyclic
    <3>7. Follow(q, t, p)
      BY <1>7, <2>2
    <3>8. Kept
      BY <1>2, <1>3, <3>6, <3>7, FollowKeeps
    <3>9. Together'
      BY <1>2, <1>7, <3>2, <3>4, <3>6, <3>7, FollowTies
    <3> QED BY <3>4, <3>6, <3>8, <3>9
  <2> QED BY <1>2, <2>1, <2>2
<1>9. EvidenceOK'
  <2>1. assoc' = b /\ rel' = q
    BY <1>2, <1>5, <1>7
  <2> QED BY <1>2, <1>3, <1>6, <1>8, <2>1 DEF EvidenceOK, Acyclic, Line, UpClosed, Relations, Associations
<1>10. ThreadsOK'
  <2>1. AttachesAlone => Living(Homes)'
    BY <1>2, <1>8, LivingOfHouse
  <2> QED BY <1>2, <2>1, SameThreads
<1>11. HomesKept
  BY <1>8, KeptIsObeyed DEF HomesKept, Kept, Inv
<1> QED BY <1>8, <1>9, <1>10, <1>11, InvNext

LEMMA RejectKeeps ==
    ASSUME Inv, NEW e \in Evidence, Reject(e)
    PROVE  Inv' /\ Obeyed
<1>1. /\ Act /\ assoc[e] # None /\ assoc' = [assoc EXCEPT ![e].state = "superseded"]
      /\ observed' = observed /\ due' = due /\ rel' = rel
      /\ UNCHANGED threadVars /\ UNCHANGED homeVars /\ UNCHANGED attaching
  BY DEF Reject
<1>2. PICK b : b = [assoc EXCEPT ![e].state = "superseded"]
  OBVIOUS
<1>3. /\ b \in [Evidence -> Associations \cup {None}]
      /\ \A x \in Evidence : b[x] # None => x \in observed
  BY <1>1, <1>2, OneJudged
<1>4. EvidenceOK'
  <2>1. EvidenceOK /\ assoc' = b
    BY <1>1, <1>2, InvIs
  <2> QED BY <1>1, <1>3, <2>1 DEF EvidenceOK, Acyclic, Line, UpClosed, Relations, Associations
<1>5. ThreadsOK'
  <2>1. AttachesAlone => Living(Homes)'
    BY <1>1, LivingUnlessMoved
  <2> QED BY <1>1, <2>1, SameThreads
<1>6. HomesKept
  BY <1>1, SameHomes
<1>7. Together'
  BY <1>1, TiesStayAtHome
<1> QED BY <1>4, <1>5, <1>6, <1>7, InvNext

LEMMA RetractKeeps ==
    ASSUME Inv, NEW e \in Evidence, Retract(e)
    PROVE  Inv' /\ Obeyed
<1>1. PICK t \in Threads : t = e.child
  BY EvidenceIs
<1>2. /\ Act /\ assoc[e] # None /\ assoc' = [assoc EXCEPT ![e].state = "pending"]
      /\ observed' = observed /\ due' = due
      /\ rel' = [rel EXCEPT ![t] = None] \/ rel' = rel
      /\ UNCHANGED threadVars /\ UNCHANGED homeVars /\ UNCHANGED attaching
  BY <1>1 DEF Retract, Decidable
<1>3. PICK b : b = [assoc EXCEPT ![e].state = "pending"]
  OBVIOUS
<1>4. /\ b \in [Evidence -> Associations \cup {None}]
      /\ \A x \in Evidence : b[x] # None => x \in observed
  BY <1>2, <1>3, OneJudged
<1>5. /\ observed \in SUBSET Evidence /\ due \subseteq observed
      /\ rel \in [Threads -> Relations(observed) \cup {None}] /\ Acyclic(rel)
  BY DEF Inv, TypeOK
<1>6. Lineage(rel)
  BY <1>5, RelationsAre
<1>7. PICK q : q = rel'
  OBVIOUS
<1>8. /\ q \in [Threads -> Relations(observed) \cup {None}]
      /\ \A c \in Threads : q[c] # None => rel[c] # None /\ q[c].parent = rel[c].parent
  BY <1>2, <1>5, <1>7
<1>9. Acyclic(q)
  BY <1>5, <1>6, <1>8, FewerAreAcyclic
<1>10. EvidenceOK'
  <2>1. assoc' = b /\ rel' = q
    BY <1>2, <1>3, <1>7
  <2> QED BY <1>2, <1>4, <1>5, <1>8, <1>9, <2>1
          DEF EvidenceOK, Acyclic, Line, UpClosed, Relations, Associations
<1>11. ThreadsOK'
  <2>1. AttachesAlone => Living(Homes)'
    BY <1>2, LivingUnlessMoved
  <2> QED BY <1>2, <2>1, SameThreads
<1>12. HomesKept
  BY <1>2, SameHomes
<1>13. Together'
  BY <1>2, <1>7, <1>8, TiesStayAtHome
<1> QED BY <1>10, <1>11, <1>12, <1>13, InvNext

\* Threads and groups: the relations stay.

LEMMA ImportContentKeeps ==
    ASSUME Inv, NEW t \in Threads, ImportContent(t)
    PROVE  Inv' /\ Obeyed
<1>1. /\ ~row[t] /\ row' = [row EXCEPT ![t] = TRUE] /\ marked' = [marked EXCEPT ![t] = FALSE]
      /\ member' = IF member[t] # None /\ member[t].state = "deleted"
                   THEN [member EXCEPT ![t].state = "active"] ELSE member
      /\ acts' = acts /\ deletion' = deletion /\ attaching' = attaching
      /\ UNCHANGED <<evidenceVars, rel>>
  BY DEF ImportContent
<1>2. ThreadsOK /\ Sound(Homes)
  BY InvIs
<1>3. /\ row \in [Threads -> BOOLEAN] /\ marked \in [Threads -> BOOLEAN]
      /\ \A c \in Threads : row[c] => ~marked[c]
  BY <1>2 DEF ThreadsOK, NoLiveMarker
<1>4. /\ row' \in [Threads -> BOOLEAN] /\ marked' \in [Threads -> BOOLEAN]
      /\ \A c \in Threads : /\ row'[c] = (row[c] \/ c = t)
                            /\ marked'[c] = (marked[c] /\ c # t)
  BY <1>1, <1>3
<1>5. NoLiveMarker'
  BY <1>3, <1>4 DEF NoLiveMarker
<1>6. AttachesAlone => AttachedLive'
  <2> SUFFICES ASSUME AttachesAlone, attaching # None PROVE row'[attaching.thread]
    BY <1>1 DEF AttachedLive
  <2>1. row[attaching.thread] /\ attaching.thread \in Threads
    BY <1>2 DEF ThreadsOK, AttachedLive, Attaches
  <2> QED BY <1>4, <2>1
<1>7. AttachesAlone => Living(Homes)'
  <2> SUFFICES ASSUME AttachesAlone, NEW c \in Threads, member'[c] # None
               PROVE  IF member'[c].state = "active" THEN row'[c] ELSE ~row'[c] /\ marked'[c]
    BY HomesNow DEF Living
  <2>1. \A x \in Threads : member[x] # None =>
          IF member[x].state = "active" THEN row[x] ELSE ~row[x] /\ marked[x]
    BY <1>2, HomesNow DEF ThreadsOK, Living
  <2>2. /\ member \in [Threads -> Memberships \cup {None}]
        /\ \A x \in Threads : member[x] # None => member[x].state \in {"active", "deleted"}
    BY <1>2, SoundIs
  <2>3. CASE c = t
    <3>1. CASE member[t] # None /\ member[t].state = "deleted"
      <4>1. member'[t] = [member[t] EXCEPT !.state = "active"] /\ member[t] \in Memberships
        BY <1>1, <2>2, <3>1
      <4>2. member'[t].state = "active"
        BY <4>1 DEF Memberships
      <4> QED BY <1>4, <2>3, <4>2
    <3>2. CASE ~(member[t] # None /\ member[t].state = "deleted")
      <4>1. member' = member
        BY <1>1, <3>2
      <4>2. member[t] # None /\ member[t].state = "active"
        BY <2>2, <2>3, <3>2, <4>1
      <4> QED BY <1>1, <2>1, <4>2
    <3> QED BY <3>1, <3>2
  <2>4. CASE c # t
    <3>1. member'[c] = member[c]
      BY <1>1, <2>2, <2>4
    <3> QED BY <1>4, <2>1, <2>4, <3>1
  <2> QED BY <2>3, <2>4
<1>8. ThreadsOK'
  BY <1>1, <1>2, <1>4, <1>5, <1>6, <1>7 DEF ThreadsOK, Attaches, Groups
<1>9. Together'
  BY <1>1, ImportContentOfHomes, TiesStay
<1> QED BY <1>1, <1>8, <1>9, ImportContentOfHomes, SameEvidence, InvNext

LEMMA MergeKeeps ==
    ASSUME Inv, NEW source \in Groups, NEW target \in Groups, Merge(source, target)
    PROVE  Inv' /\ Obeyed
<1>1. /\ Act /\ UNCHANGED <<threadVars, attaching>> /\ UNCHANGED <<evidenceVars, rel>>
      /\ row' = row /\ marked' = marked
  BY DEF Merge, threadVars
<1>2. HomesKept /\ StatesKept /\ KeepsCompany
  BY MergeOfHomes
<1>3. AttachesAlone => Living(Homes)'
  BY <1>1, <1>2, LivingNext DEF Inv
<1>4. ThreadsOK'
  BY <1>1, <1>3, SameThreads
<1>5. Together'
  BY <1>1, <1>2, TiesStay
<1> QED BY <1>1, <1>2, <1>4, <1>5, SameEvidence, InvNext

LEMMA SplitKeeps ==
    ASSUME Inv, NEW source \in Groups, NEW part \in SUBSET Threads, Split(source, part)
    PROVE  Inv' /\ Obeyed
<1>1. /\ Act /\ UNCHANGED <<threadVars, attaching>> /\ UNCHANGED <<evidenceVars, rel>>
      /\ row' = row /\ marked' = marked
  BY DEF Split, threadVars
<1>2. HomesKept /\ StatesKept /\ KeepsCompany
  BY SplitOfHomes
<1>3. AttachesAlone => Living(Homes)'
  BY <1>1, <1>2, LivingNext DEF Inv
<1>4. ThreadsOK'
  BY <1>1, <1>3, SameThreads
<1>5. Together'
  BY <1>1, <1>2, TiesStay
<1> QED BY <1>1, <1>2, <1>4, <1>5, SameEvidence, InvNext

LEMMA BeginAttachKeeps ==
    ASSUME Inv, NEW t \in Threads, NEW g \in Groups, BeginAttach(t, g)
    PROVE  Inv' /\ Obeyed
<1>1. /\ Act /\ row[t] /\ attaching' = [thread |-> t, group |-> g]
      /\ UNCHANGED threadVars /\ UNCHANGED homeVars /\ UNCHANGED <<evidenceVars, rel>>
      /\ row' = row /\ marked' = marked /\ deletion' = deletion
  BY DEF BeginAttach, threadVars
<1>2. ThreadsOK
  BY InvIs
<1>3. AttachesAlone => Living(Homes)'
  BY <1>1, LivingUnlessMoved
<1>4. ThreadsOK'
  BY <1>1, <1>2, <1>3, BoundsAssumption
     DEF ThreadsOK, NoLiveMarker, AttachedLive, Attaches, Groups, Act
<1>5. Together'
  BY <1>1, TiesStayAtHome
<1> QED BY <1>1, <1>4, <1>5, SameHomes, SameEvidence, InvNext

LEMMA FinishAttachKeeps ==
    ASSUME Inv, FinishAttach
    PROVE  Inv' /\ Obeyed
<1>1. /\ attaching # None /\ attaching' = None /\ acts' = acts
      /\ UNCHANGED <<evidenceVars, rel>>
      /\ row' = row /\ marked' = marked /\ deletion' = deletion
  BY DEF FinishAttach, threadVars
<1>2. ThreadsOK /\ Sound(Homes)
  BY InvIs
<1>3. PICK t \in Threads, g \in Groups : t = attaching.thread /\ g = attaching.group
  BY <1>1, <1>2 DEF ThreadsOK, Attaches
<1>4. \/ member' = [member EXCEPT ![t] = Seat(g, "active", "operator")]
      \/ member' = member
  BY <1>3 DEF FinishAttach
<1>5. AttachesAlone => Living(Homes)'
  <2> SUFFICES ASSUME AttachesAlone, NEW c \in Threads, member'[c] # None
               PROVE  IF member'[c].state = "active" THEN row'[c] ELSE ~row'[c] /\ marked'[c]
    BY HomesNow DEF Living
  <2>1. \A x \in Threads : member[x] # None =>
          IF member[x].state = "active" THEN row[x] ELSE ~row[x] /\ marked[x]
    BY <1>2, HomesNow DEF ThreadsOK, Living
  <2>2. row[t]
    BY <1>1, <1>2, <1>3 DEF ThreadsOK, AttachedLive
  <2>3. CASE member'[c] = member[c]
    BY <1>1, <2>1, <2>3
  <2>4. CASE member'[c] # member[c]
    <3>1. c = t /\ member'[c] = Seat(g, "active", "operator")
      BY <1>2, <1>4, <2>4, SoundIs
    <3>2. member'[c].state = "active"
      BY <3>1, SeatIs
    <3> QED BY <1>1, <2>2, <3>1, <3>2
  <2> QED BY <2>3, <2>4
<1>6. ThreadsOK'
  BY <1>1, <1>2, <1>5 DEF ThreadsOK, NoLiveMarker, AttachedLive, Attaches, Groups
<1>7. Together'
  BY <1>1, FinishAttachOfHomes, TiesStay
<1> QED BY <1>1, <1>6, <1>7, FinishAttachOfHomes, SameEvidence, InvNext

LEMMA PurgeKeeps ==
    ASSUME Inv, NEW g \in Groups, Purge(g)
    PROVE  Inv' /\ Obeyed
<1>1. /\ Act /\ UNCHANGED <<evidenceVars, rel>>
      /\ row' = row /\ deletion' = deletion /\ attaching' = attaching
  BY DEF Purge
<1>2. PICK gone : gone = MembersOf(Homes, g)
  OBVIOUS
<1>3. \E left : marked' = [t \in Threads |->
                            /\ marked[t]
                            /\ t \in gone => \E r \in left : r[1] = t]
  BY <1>2 DEF Purge
<1>4. /\ HomesKept /\ group'[g].status = "purged"
      /\ \A t \in Threads : member'[t] # None => member'[t] = member[t] /\ t \notin gone
  BY <1>2, PurgeOfHomes
<1>5. ThreadsOK
  BY InvIs
<1>6. marked \in [Threads -> BOOLEAN]
  BY <1>5 DEF ThreadsOK
<1>7. /\ marked' \in [Threads -> BOOLEAN]
      /\ \A t \in Threads : /\ marked'[t] => marked[t]
                            /\ t \notin gone => marked'[t] = marked[t]
  BY <1>3, <1>6
<1>8. StatesKept
  BY <1>4 DEF StatesKept
<1>9. AttachesAlone => Living(Homes)'
  BY <1>1, <1>4, <1>5, <1>7, <1>8, LivingNext DEF ThreadsOK
<1>10. NoLiveMarker'
  BY <1>1, <1>5, <1>7 DEF ThreadsOK, NoLiveMarker
<1>11. ThreadsOK'
  BY <1>1, <1>5, <1>7, <1>9, <1>10, BoundsAssumption DEF ThreadsOK, AttachedLive, Attaches, Groups, Act
<1>12. Together'
  BY <1>4 DEF Together, Unpurged, Groups
<1> QED BY <1>1, <1>4, <1>11, <1>12, SameEvidence, InvNext

\* The transaction of a deletion.
LEMMA RemoveKeeps ==
    ASSUME Inv, NEW D \in SUBSET Threads, Remove(D), acts' \in 0 .. MaxActs,
           deletion' = None \/ deletion' \subseteq Threads
    PROVE  Inv' /\ Obeyed
<1>1. /\ AttachesAlone /\ attaching # None => attaching.thread \notin D
      /\ row' = [t \in Threads |-> row[t] /\ t \notin D]
      /\ marked' = [t \in Threads |-> marked[t] \/ t \in D]
      /\ member' = [t \in Threads |->
                      IF t \in D /\ member[t] # None
                      THEN [member[t] EXCEPT !.state = "deleted"]
                      ELSE member[t]]
      /\ assoc' = [e \in Evidence |->
                     IF assoc[e] = None THEN None
                     ELSE [assoc[e] EXCEPT !.subject = @ /\ e.child \notin D,
                                           !.parent = @ /\ e.parent \notin D]]
      /\ observed' = observed /\ due' = due /\ rel' = rel /\ attaching' = attaching
  BY DEF Remove
<1>2. EvidenceOK /\ ThreadsOK /\ Sound(Homes)
  BY InvIs
<1>3. /\ row' \in [Threads -> BOOLEAN] /\ marked' \in [Threads -> BOOLEAN] /\ NoLiveMarker'
  BY <1>1, <1>2 DEF ThreadsOK, NoLiveMarker
<1>4. AttachesAlone => AttachedLive'
  <2> SUFFICES ASSUME AttachesAlone, attaching # None PROVE row'[attaching.thread]
    BY <1>1 DEF AttachedLive
  <2>1. row[attaching.thread] /\ attaching.thread \in Threads /\ attaching.thread \notin D
    BY <1>1, <1>2 DEF ThreadsOK, AttachedLive, Attaches
  <2> QED BY <1>1, <2>1
<1>5. AttachesAlone => Living(Homes)'
  <2> SUFFICES ASSUME AttachesAlone, NEW c \in Threads, member'[c] # None
               PROVE  IF member'[c].state = "active" THEN row'[c] ELSE ~row'[c] /\ marked'[c]
    BY HomesNow DEF Living
  <2>1. \A x \in Threads : member[x] # None =>
          IF member[x].state = "active" THEN row[x] ELSE ~row[x] /\ marked[x]
    BY <1>2, HomesNow DEF ThreadsOK, Living
  <2>2. CASE c \in D /\ member[c] # None
    <3>1. member'[c] = [member[c] EXCEPT !.state = "deleted"] /\ member[c] \in Memberships
      BY <1>1, <1>2, <2>2, SoundIs
    <3>2. member'[c].state = "deleted"
      BY <3>1 DEF Memberships
    <3> QED BY <1>1, <2>2, <3>2
  <2>3. CASE ~(c \in D /\ member[c] # None)
    <3>1. member'[c] = member[c] /\ c \notin D
      BY <1>1, <2>3
    <3>2. row'[c] = (row[c] /\ c \notin D) /\ marked'[c] = (marked[c] \/ c \in D)
      BY <1>1
    <3> QED BY <2>1, <3>1, <3>2
  <2> QED BY <2>2, <2>3
<1>6. ThreadsOK'
  BY <1>1, <1>2, <1>3, <1>4, <1>5 DEF ThreadsOK, Attaches, Groups
<1>7. assoc \in [Evidence -> Associations \cup {None}]
  BY <1>2 DEF EvidenceOK
<1>8. ASSUME NEW e \in Evidence
      PROVE  assoc'[e] \in Associations \cup {None} /\ (assoc'[e] # None => assoc[e] # None)
  <2>1. CASE assoc[e] = None
    BY <1>1, <2>1
  <2>2. CASE assoc[e] # None
    <3>1. assoc[e] \in Associations
      BY <1>7, <2>2
    <3>2. PICK s \in BOOLEAN, p \in BOOLEAN :
            /\ s = (assoc[e].subject /\ e.child \notin D) /\ p = (assoc[e].parent /\ e.parent \notin D)
      BY <3>1 DEF Associations
    <3>3. assoc'[e] = [assoc[e] EXCEPT !.subject = s, !.parent = p]
      BY <1>1, <2>2, <3>2
    <3>4. [assoc[e] EXCEPT !.subject = s] \in Associations
      BY <3>1 DEF Associations
    <3>5. [assoc[e] EXCEPT !.subject = s, !.parent = p] \in Associations
      BY <3>4 DEF Associations
    <3> QED BY <2>2, <3>3, <3>5
  <2> QED BY <2>1, <2>2
<1>9. assoc' \in [Evidence -> Associations \cup {None}]
  <2>1. assoc' = [e \in Evidence |-> assoc'[e]]
    BY <1>1
  <2> QED BY <1>8, <2>1
<1>10. EvidenceOK'
  BY <1>1, <1>2, <1>8, <1>9 DEF EvidenceOK, Acyclic, Line, UpClosed, Relations, Associations
<1>11. Together'
  BY <1>1, RemoveOfHomes, TiesStay
<1> QED BY <1>6, <1>10, <1>11, RemoveOfHomes, InvNext

LEMMA DeleteKeeps ==
    ASSUME Inv, NEW t \in Threads, Delete(t)
    PROVE  Inv' /\ Obeyed
<1>1. Act /\ Remove({t}) /\ deletion' = IF deletion = None THEN None ELSE deletion \ {t}
  BY DEF Delete
<1>2. ThreadsOK
  BY InvIs
<1>3. acts' \in 0 .. MaxActs /\ (deletion' = None \/ deletion' \subseteq Threads)
  BY <1>1, <1>2, BoundsAssumption DEF Act, ThreadsOK
<1> QED BY <1>1, <1>3, RemoveKeeps

LEMMA BeginDeleteKeeps ==
    ASSUME Inv, NEW t \in Threads, BeginDelete(t)
    PROVE  Inv' /\ Obeyed
<1>1. /\ Act /\ UNCHANGED homeVars /\ UNCHANGED <<evidenceVars, rel>>
      /\ row' = row /\ marked' = marked /\ attaching' = attaching
      /\ deletion' \subseteq Threads
  BY DEF BeginDelete
<1>2. ThreadsOK
  BY InvIs
<1>3. AttachesAlone => Living(Homes)'
  BY <1>1, <1>2, LivingNext, SameStates DEF ThreadsOK
<1>4. ThreadsOK'
  BY <1>1, <1>2, <1>3, BoundsAssumption
     DEF ThreadsOK, NoLiveMarker, AttachedLive, Attaches, Groups, Act
<1>5. Together'
  BY <1>1, TiesStayAtHome
<1> QED BY <1>1, <1>4, <1>5, SameHomes, SameEvidence, InvNext

LEMMA FinishDeleteKeeps ==
    ASSUME Inv, FinishDelete
    PROVE  Inv' /\ Obeyed
<1>1. deletion # None /\ Remove(deletion) /\ deletion' = None /\ acts' = acts
  BY DEF FinishDelete
<1>2. ThreadsOK
  BY InvIs
<1>3. PICK D \in SUBSET Threads : D = deletion
  BY <1>1, <1>2 DEF ThreadsOK
<1>4. acts' \in 0 .. MaxActs
  BY <1>1, <1>2 DEF ThreadsOK
<1> QED BY <1>1, <1>3, <1>4, RemoveKeeps


-----------------------------------------------------------------------------
(* The theorems.                                                           *)

LEMMA InitIsSound == Init => Inv
<1> SUFFICES ASSUME Init PROVE Inv
  OBVIOUS
<1>1. /\ row = [t \in Threads |-> t \in Present] /\ marked = [t \in Threads |-> FALSE]
      /\ observed = {} /\ assoc = [e \in Evidence |-> None] /\ rel = [t \in Threads |-> None]
      /\ member = [t \in Threads |-> None] /\ past = {}
      /\ group = [g \in Groups |-> [status |-> "none", by |-> "reconciler",
                                    key |-> None, redirect |-> None]]
      /\ due = {} /\ acts = 0 /\ deletion = None /\ attaching = None
  BY DEF Init
<1>2. EvidenceOK
  BY <1>1 DEF EvidenceOK, Acyclic
<1>3. ThreadsOK
  BY <1>1, HomesNow, BoundsAssumption DEF ThreadsOK, NoLiveMarker, AttachedLive, Living
<1>4. Sound(Homes)
  <2>1. \A g \in Groups : group[g] \in GroupRows /\ group[g].status = "none" /\ group[g].redirect = None
    BY <1>1 DEF GroupRows
  <2>2. group \in [Groups -> GroupRows]
    BY <1>1, <2>1
  <2>3. Homes \in HomeRecords
    BY <1>1, <2>2 DEF Homes, HomeRecords
  <2>4. InOrder(Homes) /\ AtHome(Homes) /\ Flat(Homes)
    BY <1>1, <2>1, HomesNow DEF InOrder, AtHome, Flat
  <2> QED BY <2>3, <2>4 DEF Sound
<1>5. Peopled(Homes)
  BY <1>1, PeopledIs
<1>6. Together
  BY <1>1 DEF Together, Tied
<1> QED BY <1>2, <1>3, <1>4, <1>5, <1>6, InvIs

LEMMA InvIsInductive == Inv /\ [Next]_vars => Inv' /\ (Obeyed \/ UNCHANGED vars)
<1> SUFFICES ASSUME Inv, [Next]_vars PROVE Inv' /\ (Obeyed \/ UNCHANGED vars)
  OBVIOUS
<1>1. ASSUME NEW t \in Threads, ImportContent(t) PROVE Inv' /\ Obeyed
  BY <1>1, ImportContentKeeps
<1>2. ASSUME NEW t \in Threads, NEW E \in Batches, RecordObservations(t, E) PROVE Inv' /\ Obeyed
  BY <1>2, RecordObservationsKeeps
<1>3. ASSUME NEW e \in Evidence, Reconcile(e) \/ Abort(e) \/ Confirm(e) \/ Reject(e) \/ Retract(e)
      PROVE  Inv' /\ Obeyed
  BY <1>3, ReconcileKeeps, AbortKeeps, ConfirmKeeps, RejectKeeps, RetractKeeps
<1>4. ASSUME NEW g \in Groups, NEW h \in Groups, Merge(g, h) PROVE Inv' /\ Obeyed
  BY <1>4, MergeKeeps
<1>5. ASSUME NEW g \in Groups, NEW part \in SUBSET Threads, Split(g, part) PROVE Inv' /\ Obeyed
  BY <1>5, SplitKeeps
<1>6. ASSUME NEW t \in Threads, NEW g \in Groups, BeginAttach(t, g) PROVE Inv' /\ Obeyed
  BY <1>6, BeginAttachKeeps
<1>7. CASE FinishAttach
  BY <1>7, FinishAttachKeeps
<1>8. ASSUME NEW g \in Groups, Purge(g) PROVE Inv' /\ Obeyed
  BY <1>8, PurgeKeeps
<1>9. ASSUME NEW t \in Threads, Delete(t) \/ BeginDelete(t) PROVE Inv' /\ Obeyed
  BY <1>9, DeleteKeeps, BeginDeleteKeeps
<1>10. CASE FinishDelete
  BY <1>10, FinishDeleteKeeps
<1>11. CASE UNCHANGED vars
  <2>1. /\ UNCHANGED homeVars /\ UNCHANGED <<evidenceVars, rel>> /\ UNCHANGED threadVars
        /\ UNCHANGED <<threadVars, attaching>> /\ acts' = acts
    BY <1>11 DEF vars, homeVars, evidenceVars, threadVars
  <2>2. ThreadsOK'
    BY <2>1, LivingUnlessMoved, SameThreads
  <2>3. Together'
    BY <2>1, TiesStayAtHome
  <2> QED BY <1>11, <2>1, <2>2, <2>3, SameHomes, SameEvidence, InvNext
<1> QED BY <1>1, <1>2, <1>3, <1>4, <1>5, <1>6, <1>7, <1>8, <1>9, <1>10, <1>11 DEF Next

LEMMA InvHolds == Spec => []Inv
<1>1. Inv /\ [Next]_vars => Inv'
  BY InvIsInductive
<1> QED BY <1>1, InitIsSound, PTL DEF Spec

\* Every variable keeps its type, and group ids are handed out in order.
THEOREM TypeCorrect == Spec => []TypeOK
<1>1. Inv => TypeOK
  BY DEF Inv
<1> QED BY <1>1, InvHolds, PTL

\* No import, late reconciliation or decision of the operator, in any order,
\* makes a thread an ancestor of itself (the checks by ancestor_contains).
THEOREM LineageIsAForest == Spec => []Forest
<1>1. Inv => Forest
  BY DEF Inv, Acyclic, Forest
<1> QED BY <1>1, InvHolds, PTL

\* Threads form trees, and one that the operator has not placed is in the group
\* of its parent, whether the parent was adopted before it had a home or moves
\* with its own family later (ensure_membership, reassign_automatic_descendants);
\* as long as no group was purged, and no deletion falls between the two steps of
\* an attach.
THEOREM FamiliesStayTogether == AttachesAlone => (Spec => []FamiliesTogether)
<1> SUFFICES ASSUME AttachesAlone PROVE Spec => []FamiliesTogether
  OBVIOUS
<1>1. Inv => FamiliesTogether
  BY DEF Inv, Together, Unpurged, Tied, Acyclic, Forest, FollowsParent, FamiliesTogether
<1> QED BY <1>1, InvHolds, PTL

\* Members are at home in active groups and a redirect is never followed twice,
\* through merges, splits, purges and moves in the middle of a chain.
THEOREM HomesAreReached == Spec => []HomesResolve
<1>1. Inv => HomesResolve
  <2> SUFFICES ASSUME Inv PROVE HomesResolve
    OBVIOUS
  <2>1. Sound(Homes)
    BY DEF Inv
  <2>2. HomesAreActive
    BY <2>1, SoundIs DEF HomesAreActive, Active
  <2>3. RedirectsAreFlat
    BY <2>1, SoundIs DEF RedirectsAreFlat
  <2> QED BY <2>2, <2>3 DEF HomesResolve
<1> QED BY <1>1, InvHolds, PTL

\* Whatever moves the members of a group that the reconciler made, the last to
\* leave closes it (place_member), so that none stays active and empty.
THEOREM NoGroupIsLeftEmpty == Spec => []NoEmptyAutomaticGroup
<1>1. Inv => NoEmptyAutomaticGroup
  BY PeopledIs, MembersAre DEF Inv, NoEmptyAutomaticGroup, Active
<1> QED BY <1>1, InvHolds, PTL

\* As long as no deletion falls between the two steps of an attach, a live
\* member has a thread, and a placeholder has a marker and none.
THEOREM PlaceholdersKeepTheirMarker == AttachesAlone => (Spec => []PlaceholdersAreMarked)
<1> SUFFICES ASSUME AttachesAlone PROVE Spec => []PlaceholdersAreMarked
  OBVIOUS
<1>1. Inv => PlaceholdersAreMarked
  BY HomesNow DEF Inv, NoLiveMarker, Living, PlaceholdersAreMarked
<1> QED BY <1>1, InvHolds, PTL

\* What the operator placed stays in its group, by the operator, until that group
\* is merged, split or purged (Operator-fixed rows are never touched).
THEOREM OperatorsAreObeyed == Spec => OperatorsStay
<1>1. Inv /\ [Next]_vars =>
        [\A t \in Threads :
           PlacedByOperator(t) =>
             \/ PlacedByOperator(t)' /\ member'[t].group = member[t].group
             \/ group'[member[t].group].status # "active"]_vars
  BY InvIsInductive DEF Obeyed
<1> QED BY <1>1, InvHolds, PTL DEF Spec, OperatorsStay

=============================================================================
