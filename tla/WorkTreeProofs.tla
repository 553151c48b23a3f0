--------------------------- MODULE WorkTreeProofs ---------------------------
(***************************************************************************)
(* Proofs about the tree of work items, for every number of items, every   *)
(* choice of goals and of statuses users set, and every length of the log: *)
(* the types, that the table is the fold of the log, that what waited is   *)
(* started, and that the progress of a goal is that of its children.       *)
(*                                                                         *)
(* A replay is a recursive function; what the argument needs of it is that *)
(* a longer log applies one event more, that it splits at a checkpoint,    *)
(* and that it keeps what every event keeps.  An event is a new row and a  *)
(* count of the children of one parent, so the projectors are taken up     *)
(* once, in AfterFacts and PutFacts.  The invariant has four layers, each  *)
(* inductive given those it needs:                                         *)
(*   Shape     types, and that rows and events name only ids given out;    *)
(*   Fold      the table, and the checkpoint, are replays of the log;      *)
(*   Ready     a task that waits is excused or the listener comes for it;  *)
(*   Progress  of every goal in the fold, in the log and the exported one. *)
(***************************************************************************)
EXTENDS WorkTree, SequenceTheorems, FunctionTheorems, FiniteSetTheorems, TLAPS
----------------------------------------------------------------------------
(* Induction, and what a replay is. *)

\* A set of naturals with 0 and, with each of its members, the next is Nat.
LEMMA NatInd ==
    ASSUME NEW S \in SUBSET Nat, 0 \in S, \A n \in S : n + 1 \in S
    PROVE  S = Nat
<1> DEFINE Rest0 == Nat \ S
<1>1. SUFFICES ASSUME Rest0 # {} PROVE FALSE
  OBVIOUS
<1>2. IsWellFoundedOn({p \in Nat \X Nat : p[1] < p[2]}, Nat)
  BY NatLessThanWellFounded, Zenon DEF OpToRel
<1>3. PICK x \in Rest0 : \A y \in Rest0 : ~(<<y, x>> \in {p \in Nat \X Nat : p[1] < p[2]})
  <2>1. Rest0 \subseteq Nat /\ Rest0 # {}
    BY <1>1
  <2> HIDE DEF Rest0
  <2> QED BY <1>2, <2>1, WFMin
<1>4. \A y \in Rest0 : ~(y < x)
  BY <1>3
<1>5. x \in Nat /\ x \notin S /\ x # 0
  OBVIOUS
<1>6. x - 1 \in Nat /\ x - 1 \in S
  BY <1>4, <1>5
<1> QED BY <1>5, <1>6

\* The tables on the way of a replay of n events.
Runs(f, t, events, n) ==
    /\ f[0] = t
    /\ \A i \in 1..n : f[i] = Apply(f[i - 1], events[i])

\* States(t, events)[n]: the table after n of the events.
Way(f, t, events, n) ==
    f = [i \in 0..n |-> IF i = 0 THEN t ELSE Apply(f[i - 1], events[i])]
States(t, events) == CHOOSE f : Way(f, t, events, Len(events))

LEMMA StatesExist ==
    ASSUME NEW t, NEW events, NEW n \in Nat
    PROVE  \E f : Way(f, t, events, n)
<1> DEFINE S == {m \in Nat : \E f : Way(f, t, events, m)}
<1>1. 0 \in S
  <2> DEFINE f == [i \in 0..0 |-> t]
  <2>1. Way(f, t, events, 0)
    BY DEF Way
  <2> QED BY <2>1
<1>2. ASSUME NEW m \in S PROVE m + 1 \in S
  <2>1. m \in Nat
    OBVIOUS
  <2>2. PICK f : Way(f, t, events, m)
    OBVIOUS
  <2> DEFINE g == [i \in 0..(m + 1) |-> IF i <= m THEN f[i] ELSE Apply(f[m], events[m + 1])]
             h == [i \in 0..(m + 1) |-> IF i = 0 THEN t ELSE Apply(g[i - 1], events[i])]
  <2>3. ASSUME NEW i \in 0..(m + 1) PROVE g[i] = h[i]
    <3>1. CASE i = 0
      BY <2>1, <2>2, <3>1 DEF Way
    <3>2. CASE i \in 1..m
      <4>1. f[i] = Apply(f[i - 1], events[i])
        BY <2>1, <2>2, <3>2 DEF Way
      <4> QED BY <2>1, <3>2, <4>1
    <3>3. CASE i = m + 1
      <4>1. g[m] = f[m]
        BY <2>1
      <4> QED BY <2>1, <3>3, <4>1
    <3> QED BY <2>1, <3>1, <3>2, <3>3
  <2>4. g = h
    BY <2>3
  <2>5. Way(g, t, events, m + 1)
    BY <2>4 DEF Way
  <2> QED BY <2>1, <2>5
<1>3. S = Nat
  <2>1. S \in SUBSET Nat
    OBVIOUS
  <2> HIDE DEF S
  <2> QED BY <1>1, <1>2, <2>1, NatInd
<1> QED BY <1>3

LEMMA StatesRun ==
    ASSUME NEW t, NEW events, Len(events) \in Nat
    PROVE  /\ Runs(States(t, events), t, events, Len(events))
           /\ Replay(t, events) = States(t, events)[Len(events)]
<1>1. Replay(t, events) = States(t, events)[Len(events)]
  BY DEF Replay, States, Way
<1>2. \E f : Way(f, t, events, Len(events))
  BY StatesExist
<1>3. PICK f : f = States(t, events) /\ Way(f, t, events, Len(events))
  BY <1>2 DEF States
<1>4. f[0] = t
  BY <1>3 DEF Way
<1>5. \A i \in 1..Len(events) : f[i] = Apply(f[i - 1], events[i])
  BY <1>3 DEF Way
<1> QED BY <1>1, <1>3, <1>4, <1>5 DEF Runs

\* There is one way only.
LEMMA RunsAgree ==
    ASSUME NEW t, NEW events, NEW n \in Nat, NEW f, NEW g,
           Runs(f, t, events, n), Runs(g, t, events, n)
    PROVE  f[n] = g[n]
<1> DEFINE S == {m \in Nat : m <= n => f[m] = g[m]}
<1>1. 0 \in S
  BY DEF Runs
<1>2. ASSUME NEW m \in S PROVE m + 1 \in S
  <2>1. CASE m + 1 <= n
    <3>1. m + 1 \in 1..n /\ f[m] = g[m] /\ (m + 1) - 1 = m
      BY <2>1
    <3>2. f[m + 1] = Apply(f[m], events[m + 1]) /\ g[m + 1] = Apply(g[m], events[m + 1])
      BY <3>1 DEF Runs
    <3> QED BY <3>1, <3>2
  <2> QED BY <2>1
<1>3. S = Nat
  <2>1. S \in SUBSET Nat
    OBVIOUS
  <2> HIDE DEF S
  <2> QED BY <1>1, <1>2, <2>1, NatInd
<1> QED BY <1>3

LEMMA ReplayRuns ==
    ASSUME NEW t, NEW events, Len(events) \in Nat, NEW f, Runs(f, t, events, Len(events))
    PROVE  Replay(t, events) = f[Len(events)]
BY StatesRun, RunsAgree

LEMMA ReplayNone ==
    ASSUME NEW t
    PROVE  Replay(t, <<>>) = t
<1>1. Len(<<>>) = 0
  OBVIOUS
<1> QED BY <1>1, StatesRun DEF Runs

LEMMA ReplayAppend ==
    ASSUME NEW S, NEW events \in Seq(S), NEW e, NEW t
    PROVE  Replay(t, Append(events, e)) = Apply(Replay(t, events), e)
<1> DEFINE more == Append(events, e)
           f == States(t, more)
           n == Len(events)
<1>1. n \in Nat /\ Len(more) = n + 1 /\ more[n + 1] = e
  OBVIOUS
<1>1a. \A i \in 1..n : more[i] = events[i]
  OBVIOUS
<1> HIDE DEF more
<1>2. Runs(f, t, more, n + 1) /\ Replay(t, more) = f[n + 1]
  BY <1>1, StatesRun
<1>3. Runs(f, t, events, n)
  BY <1>1, <1>1a, <1>2 DEF Runs
<1>4. Replay(t, events) = f[n]
  BY <1>1, <1>3, ReplayRuns
<1>5. f[n + 1] = Apply(f[n], e)
  <2>1. n + 1 \in 1..(n + 1) /\ (n + 1) - 1 = n
    BY <1>1
  <2> QED BY <1>1, <1>2, <2>1 DEF Runs
<1> QED BY <1>2, <1>4, <1>5 DEF more

\* A replay may stop after k events and go on from the table it has.
LEMMA ReplaySplit ==
    ASSUME NEW S, NEW events \in Seq(S), NEW t, NEW k \in 0..Len(events)
    PROVE  Replay(Replay(t, SubSeq(events, 1, k)), SubSeq(events, k + 1, Len(events)))
               = Replay(t, events)
<1> DEFINE n == Len(events)
           f == States(t, events)
           a == SubSeq(events, 1, k)
           b == SubSeq(events, k + 1, n)
           g == [i \in 0..(n - k) |-> f[i + k]]
<1>1. n \in Nat /\ k \in Nat /\ k <= n /\ \A i \in 1..n : events[i] \in S
  BY ElementOfSeq
<1>2. Len(a) = k /\ \A i \in 1..k : a[i] = events[i]
  BY <1>1
<1>3. Len(b) = n - k /\ \A i \in 1..(n - k) : b[i] = events[i + k]
  BY <1>1
<1>4. Runs(f, t, events, n) /\ Replay(t, events) = f[n]
  BY <1>1, StatesRun
<1> HIDE DEF a, b, f, n
<1>5. Replay(t, a) = f[k]
  <2>1. Runs(f, t, a, k)
    BY <1>1, <1>2, <1>4 DEF Runs
  <2> QED BY <1>1, <1>2, <2>1, ReplayRuns
<1>6. Replay(f[k], b) = g[n - k]
  <2>1. g[0] = f[k]
    BY <1>1
  <2>2. ASSUME NEW i \in 1..(n - k) PROVE g[i] = Apply(g[i - 1], b[i])
    <3>1. i + k \in 1..n /\ (i + k) - 1 = (i - 1) + k
      BY <1>1
    <3>2. f[i + k] = Apply(f[(i - 1) + k], events[i + k])
      BY <1>4, <3>1 DEF Runs
    <3>3. g[i] = f[i + k] /\ g[i - 1] = f[(i - 1) + k]
      BY <1>1
    <3> QED BY <1>3, <3>2, <3>3
  <2> HIDE DEF g
  <2>3. Runs(g, f[k], b, n - k) /\ n - k \in Nat
    BY <1>1, <2>1, <2>2 DEF Runs
  <2> QED BY <1>3, <2>3, ReplayRuns
<1>7. g[n - k] = f[n]
  BY <1>1
<1> QED BY <1>4, <1>5, <1>6, <1>7 DEF a, b, n

\* What every event keeps, a replay keeps.
LEMMA ReplayKeeps ==
    ASSUME NEW T, NEW E, NEW t \in T, NEW events \in Seq(E),
           \A u \in T : \A e \in E : Apply(u, e) \in T
    PROVE  Replay(t, events) \in T
<1> DEFINE f == States(t, events)
           n == Len(events)
           S == {m \in Nat : m <= n => f[m] \in T}
<1>1. n \in Nat /\ \A i \in 1..n : events[i] \in E
  BY ElementOfSeq
<1>2. Runs(f, t, events, n) /\ Replay(t, events) = f[n]
  BY <1>1, StatesRun
<1> HIDE DEF f, n
<1>3. 0 \in S
  BY <1>2 DEF Runs
<1>4. ASSUME NEW m \in S PROVE m + 1 \in S
  <2>1. CASE m + 1 <= n
    <3>1. m + 1 \in 1..n /\ f[m] \in T /\ (m + 1) - 1 = m
      BY <1>1, <2>1
    <3>2. f[m + 1] = Apply(f[m], events[m + 1])
      BY <1>2, <3>1 DEF Runs
    <3> QED BY <1>1, <3>1, <3>2
  <2> QED BY <2>1
<1>5. S = Nat
  <2>1. S \in SUBSET Nat
    OBVIOUS
  <2> HIDE DEF S
  <2> QED BY <1>3, <1>4, <2>1, NatInd
<1> QED BY <1>1, <1>2, <1>5
----------------------------------------------------------------------------
(* Tables, events, and what an event does to a table. *)

Statuses == TaskStatuses \union GoalStatuses

\* Tables and events that name ids up to m only.
Tables(m) ==
    {t \in [Item -> Row \union {NoRow}] :
        \A i \in Item : (t[i].there => i <= m) /\ t[i].parent <= m}

Shaped(m, types, fields, values) ==
    [type : types, item : 1..m, field : fields, value : values,
     parent : 0..m, needs : SUBSET Item, quiet : BOOLEAN]

EventSet(m) ==
    Shaped(m, {"created"}, {"status"}, {"active", "pending"})
        \union Shaped(m, {"status"}, {"status"}, Statuses)
        \union Shaped(m, {"updated"}, {"status"}, Statuses)
        \union Shaped(m, {"updated"}, {"progress"}, 0..100)
        \union Shaped(m, {"updated"}, {"parent"}, 0..m)
        \union Shaped(m, {"deleted"}, {"none"}, {"none"})

\* A set that is the union of six.
LEMMA SixSets ==
    \A a, b, c, d, f, g : \A x :
        x \in a \union b \union c \union d \union f \union g <=>
            x \in a \/ x \in b \/ x \in c \/ x \in d \/ x \in f \/ x \in g
OBVIOUS

LEMMA EventKinds ==
    ASSUME NEW m, NEW e
    PROVE  e \in EventSet(m) <=>
               \/ e \in Shaped(m, {"created"}, {"status"}, {"active", "pending"})
               \/ e \in Shaped(m, {"status"}, {"status"}, Statuses)
               \/ e \in Shaped(m, {"updated"}, {"status"}, Statuses)
               \/ e \in Shaped(m, {"updated"}, {"progress"}, 0..100)
               \/ e \in Shaped(m, {"updated"}, {"parent"}, 0..m)
               \/ e \in Shaped(m, {"deleted"}, {"none"}, {"none"})
BY SixSets DEF EventSet

LEMMA EventFacts ==
    ASSUME NEW m \in 0..Items, NEW e \in EventSet(m)
    PROVE  /\ e.item \in Item /\ e.item \in 1..m
           /\ e.parent \in 0..m /\ e.needs \subseteq Item /\ e.quiet \in BOOLEAN
           /\ \/ e.type = "created" /\ e.field = "status" /\ e.value \in {"active", "pending"}
              \/ e.type = "status" /\ e.field = "status" /\ e.value \in Statuses
              \/ e.type = "updated" /\ e.field = "status" /\ e.value \in Statuses
              \/ e.type = "updated" /\ e.field = "progress" /\ e.value \in 0..100
              \/ e.type = "updated" /\ e.field = "parent" /\ e.value \in 0..m
              \/ e.type = "deleted" /\ e.field = "none"
<1>1. ASSUME NEW types, NEW fields, NEW values, e \in Shaped(m, types, fields, values)
      PROVE  /\ e.type \in types /\ e.field \in fields /\ e.value \in values /\ e.item \in 1..m
             /\ e.parent \in 0..m /\ e.needs \subseteq Item /\ e.quiet \in BOOLEAN
  BY <1>1 DEF Shaped
<1>2. 1..m \subseteq Item
  BY WorkTreeAssumption DEF Item
<1>3. \/ e \in Shaped(m, {"created"}, {"status"}, {"active", "pending"})
      \/ e \in Shaped(m, {"status"}, {"status"}, Statuses)
      \/ e \in Shaped(m, {"updated"}, {"status"}, Statuses)
      \/ e \in Shaped(m, {"updated"}, {"progress"}, 0..100)
      \/ e \in Shaped(m, {"updated"}, {"parent"}, 0..m)
      \/ e \in Shaped(m, {"deleted"}, {"none"}, {"none"})
  BY EventKinds
<1>4. CASE e \in Shaped(m, {"created"}, {"status"}, {"active", "pending"})
  BY <1>1, <1>2, <1>4
<1>5. CASE e \in Shaped(m, {"status"}, {"status"}, Statuses)
  BY <1>1, <1>2, <1>5
<1>6. CASE e \in Shaped(m, {"updated"}, {"status"}, Statuses)
  BY <1>1, <1>2, <1>6
<1>7. CASE e \in Shaped(m, {"updated"}, {"progress"}, 0..100)
  BY <1>1, <1>2, <1>7
<1>8. CASE e \in Shaped(m, {"updated"}, {"parent"}, 0..m)
  BY <1>1, <1>2, <1>8
<1>9. CASE e \in Shaped(m, {"deleted"}, {"none"}, {"none"})
  BY <1>1, <1>2, <1>9
<1> QED BY <1>3, <1>4, <1>5, <1>6, <1>7, <1>8, <1>9

LEMMA NoRowFacts ==
    /\ NoRow.there \in BOOLEAN /\ ~NoRow.there /\ NoRow.parent = 0 /\ NoRow.status = "none" /\ NoRow.needs = {}
    /\ NoRow.progress = 0
BY DEF NoRow

\* A row that is not there is NoRow.
LEMMA RowFacts ==
    ASSUME NEW m, NEW t \in Tables(m), NEW i \in Item
    PROVE  /\ t[i] \in Row \union {NoRow}
           /\ t[i].there \in BOOLEAN
           /\ t[i].parent \in {0} \union Item /\ t[i].parent <= m
           /\ t[i].needs \subseteq Item
           /\ t[i].progress \in 0..100
           /\ t[i].there => t[i].status \in Statuses /\ i <= m
           /\ ~t[i].there => t[i] = NoRow /\ t[i].parent = 0 /\ t[i].status = "none" /\ t[i].needs = {}
<1>1. t[i] \in Row \union {NoRow} /\ (t[i].there => i <= m) /\ t[i].parent <= m
  BY DEF Tables
<1>2. CASE t[i] = NoRow
  <2>1. NoRow.parent \in {0} \union Item
    BY NoRowFacts
  <2>3. NoRow.needs \subseteq Item
    BY NoRowFacts
  <2>4. NoRow.progress \in 0..100
    BY NoRowFacts
  <2>2. NoRow.there \in BOOLEAN /\ ~NoRow.there
    BY NoRowFacts
  <2> QED BY <1>1, <1>2, <2>1, <2>2, <2>3, <2>4, NoRowFacts
<1>3. CASE t[i] \in Row
  BY <1>1, <1>3 DEF Row, Statuses
<1> QED BY <1>1, <1>2, <1>3

LEMMA EventSetGrows ==
    ASSUME NEW m \in Nat, NEW n \in Nat, m <= n
    PROVE  EventSet(m) \subseteq EventSet(n) /\ Tables(m) \subseteq Tables(n)
<1>1. ASSUME NEW types, NEW fields, NEW values
      PROVE  Shaped(m, types, fields, values) \subseteq Shaped(n, types, fields, values)
  BY DEF Shaped
<1>2. Shaped(m, {"updated"}, {"parent"}, 0..m) \subseteq Shaped(n, {"updated"}, {"parent"}, 0..n)
  BY DEF Shaped
<1>3. EventSet(m) \subseteq EventSet(n)
  <2> SUFFICES ASSUME NEW e \in EventSet(m) PROVE e \in EventSet(n)
    OBVIOUS
  <2>1. \/ e \in Shaped(m, {"created"}, {"status"}, {"active", "pending"})
        \/ e \in Shaped(m, {"status"}, {"status"}, Statuses)
        \/ e \in Shaped(m, {"updated"}, {"status"}, Statuses)
        \/ e \in Shaped(m, {"updated"}, {"progress"}, 0..100)
        \/ e \in Shaped(m, {"updated"}, {"parent"}, 0..m)
        \/ e \in Shaped(m, {"deleted"}, {"none"}, {"none"})
    BY EventKinds
  <2>2. \/ e \in Shaped(n, {"created"}, {"status"}, {"active", "pending"})
        \/ e \in Shaped(n, {"status"}, {"status"}, Statuses)
        \/ e \in Shaped(n, {"updated"}, {"status"}, Statuses)
        \/ e \in Shaped(n, {"updated"}, {"progress"}, 0..100)
        \/ e \in Shaped(n, {"updated"}, {"parent"}, 0..n)
        \/ e \in Shaped(n, {"deleted"}, {"none"}, {"none"})
    BY <1>1, <1>2, <2>1
  <2> QED BY <2>2, EventKinds
<1>4. ASSUME NEW t \in Tables(m) PROVE t \in Tables(n)
  <2>1. ASSUME NEW i \in Item PROVE (t[i].there => i <= n) /\ t[i].parent <= n
    <3>1. t[i].parent \in {0} \union Item /\ (t[i].there => i <= m) /\ t[i].parent <= m
      BY RowFacts DEF Tables
    <3>2. i \in Nat /\ t[i].parent \in Nat
      BY <3>1 DEF Item
    <3> QED BY <3>1, <3>2
  <2> QED BY <2>1 DEF Tables
<1> QED BY <1>3, <1>4

LEMMA Share ==
    ASSUME NEW x \in Nat, NEW y \in Nat, x <= y, y # 0
    PROVE  (100 * x) \div y \in 0..100
OBVIOUS

LEMMA RatioType ==
    ASSUME NEW t, NEW g
    PROVE  Ratio(t, g) \in 0..100
<1> DEFINE kids == Children(t, g)
           done == {i \in kids : t[i].status = "completed"}
<1>1. CASE kids = {}
  BY <1>1 DEF Ratio
<1>2. CASE kids # {}
  <2>1. IsFiniteSet(Item)
    BY WorkTreeAssumption, FS_Interval DEF Item
  <2>2. IsFiniteSet(kids) /\ kids \subseteq Item
    BY <2>1, FS_Subset DEF Children
  <2>3. IsFiniteSet(done) /\ Cardinality(done) <= Cardinality(kids)
    <3>1. done \in SUBSET kids
      OBVIOUS
    <3> QED BY <2>2, <3>1, FS_Subset
  <2>4. Cardinality(kids) \in Nat /\ Cardinality(kids) # 0 /\ Cardinality(done) \in Nat
    BY <1>2, <2>2, <2>3, FS_EmptySet, FS_CardinalityType
  <2>5. (100 * Cardinality(done)) \div Cardinality(kids) \in 0..100
    BY <2>3, <2>4, Share
  <2> QED BY <1>2, <2>5 DEF Ratio
<1> QED BY <1>1, <1>2

\* The ratio is that of the children and their statuses, and of nothing else.
LEMMA RatioSame ==
    ASSUME NEW t, NEW u, NEW g,
           \A i \in Item : (t[i].there /\ t[i].parent = g) <=> (u[i].there /\ u[i].parent = g),
           \A i \in Item : t[i].there /\ t[i].parent = g =>
                               (t[i].status = "completed" <=> u[i].status = "completed")
    PROVE  Ratio(t, g) = Ratio(u, g)
<1>1. Children(t, g) = Children(u, g)
  BY DEF Children
<1>2. {i \in Children(t, g) : t[i].status = "completed"} = {i \in Children(u, g) : u[i].status = "completed"}
  BY <1>1 DEF Children
<1> QED BY <1>1, <1>2 DEF Ratio

\* Rows that differ in nothing but their progress.
SameBut(a, b) ==
    a.there = b.there /\ a.parent = b.parent /\ a.status = b.status /\ a.needs = b.needs

LEMMA RecalculateFacts ==
    ASSUME NEW m \in 0..Items, NEW t \in Tables(m), NEW g
    PROVE  /\ Recalculate(t, g) \in Tables(m)
           /\ \A i \in Item : SameBut(Recalculate(t, g)[i], t[i])
           /\ \A i \in Item : i # g => Recalculate(t, g)[i] = t[i]
           /\ \A i \in Item : i \notin Goal => Recalculate(t, g)[i] = t[i]
           /\ \A i \in Item : ~t[i].there => Recalculate(t, g)[i] = t[i]
           /\ \A h : Ratio(Recalculate(t, g), h) = Ratio(t, h)
           /\ g \in Goal /\ t[g].there => Recalculate(t, g)[g].progress = Ratio(t, g)
<1> DEFINE u == Recalculate(t, g)
<1>1. CASE ~(g \in Goal /\ t[g].there)
  <2>1. u = t
    BY <1>1 DEF Recalculate
  <2> QED BY <1>1, <2>1 DEF SameBut
<1>2. CASE g \in Goal /\ t[g].there
  <2>1. g \in Item /\ t \in [Item -> Row \union {NoRow}]
    BY <1>2, WorkTreeAssumption DEF Tables
  <2>2. t[g] \in Row
    <3>1. t[g] # NoRow
      BY <1>2, NoRowFacts
    <3> QED BY <2>1, <3>1
  <2>3. u = [t EXCEPT ![g].progress = Ratio(t, g)]
    BY <1>2 DEF Recalculate
  <2> DEFINE row == [t[g] EXCEPT !.progress = Ratio(t, g)]
  <2>4. row \in Row /\ SameBut(row, t[g]) /\ row.progress = Ratio(t, g)
    BY <2>2, RatioType DEF Row, SameBut
  <2>5. u = [t EXCEPT ![g] = row]
    BY <2>3
  <2> HIDE DEF row
  <2>6. u[g] = row /\ \A i \in Item : i # g => u[i] = t[i]
    BY <2>1, <2>5
  <2>7. u \in [Item -> Row \union {NoRow}]
    BY <2>1, <2>4, <2>5
  <2>8. \A i \in Item : SameBut(u[i], t[i])
    BY <2>4, <2>6 DEF SameBut
  <2>9. u \in Tables(m)
    BY <2>7, <2>8 DEF Tables, SameBut
  <2>10. \A h : Ratio(u, h) = Ratio(t, h)
    <3> TAKE h
    <3>1. \A i \in Item : u[i].there = t[i].there /\ u[i].parent = t[i].parent /\ u[i].status = t[i].status
      BY <2>8 DEF SameBut
    <3> HIDE DEF u
    <3> QED BY <3>1, RatioSame
  <2> QED BY <1>2, <2>4, <2>6, <2>8, <2>9, <2>10
<1> QED BY <1>1, <1>2

\* A new row for item i, and the children of p counted again.
Put(t, i, row, p) == Recalculate([t EXCEPT ![i] = row], p)

LEMMA PutFacts ==
    ASSUME NEW m \in 0..Items, NEW t \in Tables(m), NEW i \in Item, NEW p,
           NEW row \in Row \union {NoRow}, row.there => i <= m, row.parent <= m
    PROVE  /\ Put(t, i, row, p) \in Tables(m)
           /\ SameBut(Put(t, i, row, p)[i], row)
           /\ i # p \/ p \notin Goal \/ ~row.there => Put(t, i, row, p)[i] = row
           /\ \A j \in Item : j # i => SameBut(Put(t, i, row, p)[j], t[j])
           /\ \A j \in Item : j # i /\ (j # p \/ j \notin Goal) => Put(t, i, row, p)[j] = t[j]
           /\ p \in Goal /\ Put(t, i, row, p)[p].there =>
                  Put(t, i, row, p)[p].progress = Ratio(Put(t, i, row, p), p)
<1> DEFINE u == [t EXCEPT ![i] = row]
           v == Recalculate(u, p)
<1>1. t \in [Item -> Row \union {NoRow}]
  BY DEF Tables
<1>2. u \in [Item -> Row \union {NoRow}] /\ u[i] = row /\ \A j \in Item : j # i => u[j] = t[j]
  BY <1>1
<1>3. u \in Tables(m)
  <2>1. ASSUME NEW j \in Item PROVE (u[j].there => j <= m) /\ u[j].parent <= m
    <3>1. CASE j = i
      BY <1>2, <3>1
    <3>2. CASE j # i
      BY <1>2, <3>2 DEF Tables
    <3> QED BY <3>1, <3>2
  <2> QED BY <1>2, <2>1 DEF Tables
<1>4. p \in Goal => p \in Item
  BY WorkTreeAssumption
<1> HIDE DEF u
<1>5. /\ v \in Tables(m)
      /\ \A j \in Item : SameBut(v[j], u[j])
      /\ \A j \in Item : j # p => v[j] = u[j]
      /\ \A j \in Item : j \notin Goal => v[j] = u[j]
      /\ \A j \in Item : ~u[j].there => v[j] = u[j]
      /\ \A h : Ratio(v, h) = Ratio(u, h)
      /\ p \in Goal /\ u[p].there => v[p].progress = Ratio(u, p)
  BY <1>3, RecalculateFacts
<1>6. v = Put(t, i, row, p)
  BY DEF Put, u
<1> HIDE DEF v
<1>7. p \in Goal /\ v[p].there => v[p].progress = Ratio(v, p)
  BY <1>4, <1>5 DEF SameBut
<1> QED BY <1>2, <1>5, <1>6, <1>7

\* The row of the item after the event, and the parent it counts.
After(t, e) ==
    CASE e.type = "created" ->
            [there |-> TRUE, parent |-> e.parent, status |-> e.value, needs |-> e.needs,
             progress |-> 0]
      [] e.type = "status" ->
            [t[e.item] EXCEPT !.status = e.value,
                              !.progress = IF e.value = "completed" THEN 100 ELSE @]
      [] e.type = "updated" /\ e.field = "status" -> [t[e.item] EXCEPT !.status = e.value]
      [] e.type = "updated" /\ e.field = "progress" -> [t[e.item] EXCEPT !.progress = e.value]
      [] e.type = "updated" /\ e.field = "parent" -> [t[e.item] EXCEPT !.parent = e.value]
      [] e.type = "deleted" -> NoRow

Counted(t, e) ==
    IF e.type = "created" THEN e.parent
    ELSE IF e.type \in {"status", "deleted"} \/ e.field = "status" THEN t[e.item].parent
    ELSE 0

LEMMA AfterFacts ==
    ASSUME NEW m \in 0..Items, NEW t \in Tables(m), NEW e \in EventSet(m),
           e.type = "created" \/ t[e.item].there
    PROVE  /\ After(t, e) \in Row \union {NoRow}
           /\ After(t, e).there \in BOOLEAN
           /\ After(t, e).there <=> e.type # "deleted"
           /\ After(t, e).parent <= m
           /\ e.type = "created" => /\ After(t, e).parent = e.parent /\ After(t, e).needs = e.needs
                                    /\ After(t, e).progress = 0
           /\ e.type \notin {"created", "deleted"} => After(t, e).needs = t[e.item].needs
           /\ e.type # "deleted" =>
                  After(t, e).status = IF e.field = "status" THEN e.value ELSE t[e.item].status
           /\ e.type \notin {"created", "deleted"} /\ e.field # "parent" =>
                  After(t, e).parent = t[e.item].parent
           /\ e.field = "parent" => After(t, e).parent = e.value
           /\ e.type \notin {"created", "deleted"} /\ e.field # "progress"
              /\ ~(e.type = "status" /\ e.value = "completed") =>
                  After(t, e).progress = t[e.item].progress
<1> DEFINE r == t[e.item]
<1>1. e.item \in Item /\ e.parent \in 0..m /\ e.needs \subseteq Item
  BY EventFacts
<1>2. e.parent \in {0} \union Item /\ 0..m \subseteq {0} \union Item
  BY <1>1, WorkTreeAssumption DEF Item
<1>3. \/ e.type = "created" /\ e.field = "status" /\ e.value \in {"active", "pending"}
      \/ e.type = "status" /\ e.field = "status" /\ e.value \in Statuses
      \/ e.type = "updated" /\ e.field = "status" /\ e.value \in Statuses
      \/ e.type = "updated" /\ e.field = "progress" /\ e.value \in 0..100
      \/ e.type = "updated" /\ e.field = "parent" /\ e.value \in 0..m
      \/ e.type = "deleted" /\ e.field = "none"
  BY EventFacts
<1>4. e.type # "created" => r \in Row /\ r.parent <= m
  BY <1>1, RowFacts, NoRowFacts
<1> HIDE DEF r
<1>5. CASE e.type = "created"
  <2>1. After(t, e) = [there |-> TRUE, parent |-> e.parent, status |-> e.value,
                       needs |-> e.needs, progress |-> 0]
    BY <1>5 DEF After
  <2>2. e.field = "status" /\ e.value \in TaskStatuses \union GoalStatuses
    BY <1>3, <1>5 DEF TaskStatuses, GoalStatuses
  <2>3. After(t, e) \in Row
    BY <1>1, <1>2, <2>1, <2>2 DEF Row
  <2> QED BY <1>1, <1>5, <2>1, <2>2, <2>3
<1>6. CASE e.type = "status"
  <2>1. After(t, e) = [r EXCEPT !.status = e.value,
                                !.progress = IF e.value = "completed" THEN 100 ELSE @]
    BY <1>6 DEF After, r
  <2>2. r \in Row /\ e.field = "status" /\ e.value \in Statuses /\ r.parent <= m
    BY <1>3, <1>4, <1>6
  <2>3. After(t, e) \in Row
    <3> DEFINE p == IF e.value = "completed" THEN 100 ELSE r.progress
    <3>1. p \in 0..100
      BY <2>2 DEF Row
    <3>2. After(t, e) = [r EXCEPT !.status = e.value, !.progress = p]
      BY <2>1
    <3> HIDE DEF p
    <3> QED BY <2>2, <3>1, <3>2 DEF Row, Statuses
  <2> QED BY <1>6, <2>1, <2>2, <2>3 DEF Row, r
<1>7. CASE e.type = "updated" /\ e.field = "status"
  <2>1. After(t, e) = [r EXCEPT !.status = e.value]
    BY <1>7 DEF After, r
  <2>2. r \in Row /\ e.value \in Statuses /\ r.parent <= m
    BY <1>3, <1>4, <1>7
  <2>3. After(t, e) \in Row
    BY <2>1, <2>2 DEF Row, Statuses
  <2> QED BY <1>7, <2>1, <2>2, <2>3 DEF Row, r
<1>8. CASE e.type = "updated" /\ e.field = "progress"
  <2>1. After(t, e) = [r EXCEPT !.progress = e.value]
    BY <1>8 DEF After, r
  <2>2. r \in Row /\ e.value \in 0..100 /\ r.parent <= m
    BY <1>3, <1>4, <1>8
  <2>3. After(t, e) \in Row
    BY <2>1, <2>2 DEF Row
  <2> QED BY <1>8, <2>1, <2>2, <2>3 DEF Row, r
<1>9. CASE e.type = "updated" /\ e.field = "parent"
  <2>1. After(t, e) = [r EXCEPT !.parent = e.value]
    BY <1>9 DEF After, r
  <2>2. r \in Row /\ e.value \in 0..m
    BY <1>3, <1>4, <1>9
  <2>3. After(t, e) \in Row
    BY <1>2, <2>1, <2>2 DEF Row
  <2>4. e.value <= m
    BY <2>2
  <2>5. After(t, e).parent = e.value /\ After(t, e).there /\ After(t, e).needs = r.needs
        /\ After(t, e).status = r.status /\ After(t, e).progress = r.progress
    BY <2>1, <2>2 DEF Row
  <2> QED BY <1>9, <2>3, <2>4, <2>5 DEF r, Row
<1>10. CASE e.type = "deleted"
  <2>1. After(t, e) = NoRow /\ e.field = "none"
    BY <1>3, <1>10 DEF After
  <2> QED BY <1>10, <2>1, NoRowFacts
<1> QED BY <1>3, <1>5, <1>6, <1>7, <1>8, <1>9, <1>10

\* An event is a new row and a count, unless there is no row to change.
LEMMA ApplyIsPut ==
    ASSUME NEW m \in 0..Items, NEW t \in Tables(m), NEW e \in EventSet(m)
    PROVE  Apply(t, e) = IF e.type = "created" \/ t[e.item].there
                         THEN Put(t, e.item, After(t, e), Counted(t, e))
                         ELSE t
<1> DEFINE i == e.item
<1>1. i \in Item /\ t \in [Item -> Row \union {NoRow}]
  BY EventFacts DEF Tables
<1>2. \/ e.type = "created" /\ e.field = "status" /\ e.value \in {"active", "pending"}
      \/ e.type = "status" /\ e.field = "status" /\ e.value \in Statuses
      \/ e.type = "updated" /\ e.field = "status" /\ e.value \in Statuses
      \/ e.type = "updated" /\ e.field = "progress" /\ e.value \in 0..100
      \/ e.type = "updated" /\ e.field = "parent" /\ e.value \in 0..m
      \/ e.type = "deleted" /\ e.field = "none"
  BY EventFacts
<1>3. \A u : Recalculate(u, 0) = u
  BY WorkTreeAssumption DEF Recalculate, Item
<1>4. CASE e.type = "created"
  BY <1>4 DEF Apply, OnCreated, Put, After, Counted
<1>5. CASE e.type = "status"
  <2>1. Apply(t, e) = OnStatusChanged(t, e)
    BY <1>5 DEF Apply
  <2>2. CASE ~t[i].there
    BY <1>5, <2>1, <2>2 DEF OnStatusChanged
  <2>3. CASE t[i].there
    <3> DEFINE row == [t[i] EXCEPT !.status = e.value,
                                   !.progress = IF e.value = "completed" THEN 100 ELSE @]
    <3>1. [t EXCEPT ![i].status = e.value,
                    ![i].progress = IF e.value = "completed" THEN 100 ELSE @] = [t EXCEPT ![i] = row]
      BY <1>1
    <3>2. row = After(t, e) /\ t[i].parent = Counted(t, e)
      BY <1>5 DEF After, Counted
    <3>3. Apply(t, e) = Recalculate([t EXCEPT ![i] = row], t[i].parent)
      BY <2>1, <2>3, <3>1 DEF OnStatusChanged
    <3> QED BY <2>3, <3>2, <3>3 DEF Put
  <2> QED BY <2>2, <2>3
<1>6. CASE e.type = "updated"
  <2>1. Apply(t, e) = OnUpdated(t, e)
    BY <1>6 DEF Apply
  <2>2. CASE ~t[i].there
    BY <1>6, <2>1, <2>2 DEF OnUpdated
  <2>3. CASE t[i].there /\ e.field = "status"
    <3>1. Apply(t, e) = Recalculate([t EXCEPT ![i].status = e.value], t[i].parent)
      BY <2>1, <2>3 DEF OnUpdated
    <3>2. [t[i] EXCEPT !.status = e.value] = After(t, e) /\ t[i].parent = Counted(t, e)
      BY <1>6, <2>3 DEF After, Counted
    <3> QED BY <2>3, <3>1, <3>2 DEF Put
  <2>4. CASE t[i].there /\ e.field = "progress"
    <3>1. Apply(t, e) = [t EXCEPT ![i].progress = e.value]
      BY <2>1, <2>4 DEF OnUpdated
    <3>2. [t[i] EXCEPT !.progress = e.value] = After(t, e) /\ 0 = Counted(t, e)
      BY <1>6, <2>4 DEF After, Counted
    <3> QED BY <1>3, <2>4, <3>1, <3>2 DEF Put
  <2>5. CASE t[i].there /\ e.field = "parent"
    <3>1. Apply(t, e) = [t EXCEPT ![i].parent = e.value]
      BY <2>1, <2>5 DEF OnUpdated
    <3>2. [t[i] EXCEPT !.parent = e.value] = After(t, e) /\ 0 = Counted(t, e)
      BY <1>6, <2>5 DEF After, Counted
    <3> QED BY <1>3, <2>5, <3>1, <3>2 DEF Put
  <2> QED BY <1>2, <1>6, <2>2, <2>3, <2>4, <2>5
<1>7. CASE e.type = "deleted"
  <2>1. Apply(t, e) = Recalculate([t EXCEPT ![i] = NoRow], t[i].parent)
    BY <1>7 DEF Apply, OnDeleted
  <2>2. NoRow = After(t, e) /\ t[i].parent = Counted(t, e)
    BY <1>7 DEF After, Counted
  <2>3. CASE ~t[i].there
    <3>1. t[i] = NoRow /\ t[i].parent = 0
      BY <1>1, <2>3, RowFacts
    <3>2. [t EXCEPT ![i] = NoRow] = t
      BY <1>1, <3>1
    <3> QED BY <1>3, <1>7, <2>1, <2>3, <3>1, <3>2
  <2> QED BY <2>1, <2>2, <2>3 DEF Put
<1> QED BY <1>2, <1>4, <1>5, <1>6, <1>7

\* What an event changes: the row of its item, and progress.
LEMMA ApplyFacts ==
    ASSUME NEW m \in 0..Items, NEW t \in Tables(m), NEW e \in EventSet(m),
           NEW u, u = Apply(t, e)
    PROVE  /\ u \in Tables(m)
           /\ \A j \in Item : j # e.item => SameBut(u[j], t[j])
           /\ u[e.item].there <=> e.type = "created" \/ (t[e.item].there /\ e.type # "deleted")
           /\ e.type = "created" => u[e.item].parent = e.parent /\ u[e.item].needs = e.needs
           /\ e.type # "created" /\ u[e.item].there => u[e.item].needs = t[e.item].needs
           /\ u[e.item].there =>
                  u[e.item].status = IF e.field = "status" THEN e.value ELSE t[e.item].status
           /\ e.type # "created" /\ e.field # "parent" /\ u[e.item].there =>
                  u[e.item].parent = t[e.item].parent
           /\ e.field = "parent" /\ u[e.item].there => u[e.item].parent = e.value
<1> DEFINE i == e.item
           a == After(t, e)
<1>1. i \in Item /\ i <= m
  BY EventFacts
<1>2. \A j \in Item : t[j].there \in BOOLEAN
  BY RowFacts
<1>3. e.type = "created" => e.field = "status"
  BY EventFacts
<1>4. CASE ~(e.type = "created" \/ t[i].there)
  <2>1. u = t
    BY <1>4, ApplyIsPut
  <2> QED BY <1>1, <1>2, <1>4, <2>1 DEF SameBut
<1>5. CASE e.type = "created" \/ t[i].there
  <2>1. u = Put(t, i, a, Counted(t, e))
    BY <1>5, ApplyIsPut
  <2>2. /\ a \in Row \union {NoRow} /\ a.there \in BOOLEAN
        /\ a.there <=> e.type # "deleted"
        /\ a.parent <= m
        /\ e.type = "created" => a.parent = e.parent /\ a.needs = e.needs
        /\ e.type \notin {"created", "deleted"} => a.needs = t[i].needs
        /\ e.type # "deleted" => a.status = IF e.field = "status" THEN e.value ELSE t[i].status
        /\ e.type \notin {"created", "deleted"} /\ e.field # "parent" => a.parent = t[i].parent
        /\ e.field = "parent" => a.parent = e.value
    BY <1>5, AfterFacts
  <2> HIDE DEF a
  <2>3. /\ u \in Tables(m) /\ SameBut(u[i], a)
        /\ \A j \in Item : j # i => SameBut(u[j], t[j])
    BY <1>1, <2>1, <2>2, PutFacts
  <2> QED BY <1>5, <2>2, <2>3 DEF SameBut
<1> QED BY <1>4, <1>5

\* What an event does to the progress of a goal.
LEMMA ApplyProgress ==
    ASSUME NEW m \in 0..Items, NEW t \in Tables(m), NEW e \in EventSet(m),
           NEW u, u = Apply(t, e), NEW g \in Goal, u[g].there
    PROVE  /\ Counted(t, e) = g => u[g].progress = Ratio(u, g)
           /\ Counted(t, e) # g /\ e.item = g /\ e.type = "created" => u[g].progress = 0
           /\ Counted(t, e) # g /\ ~(e.item = g /\ e.type = "created")
              /\ ~(e.item = g /\ (e.field = "progress" \/ (e.type = "status" /\ e.value = "completed"))) =>
                  t[g].there /\ u[g].progress = t[g].progress
<1> DEFINE i == e.item
           a == After(t, e)
           p == Counted(t, e)
<1>1. i \in Item /\ i <= m /\ g \in Item
  BY EventFacts, WorkTreeAssumption
<1>2. g # 0
  BY <1>1 DEF Item
<1>3. CASE ~(e.type = "created" \/ t[i].there)
  <2>1. u = t
    BY <1>3, ApplyIsPut
  <2>2. t[i].parent = 0
    BY <1>1, <1>3, RowFacts
  <2>3. p # g
    BY <1>2, <1>3, <2>2 DEF Counted
  <2> QED BY <1>3, <2>1, <2>3
<1>4. CASE e.type = "created" \/ t[i].there
  <2>1. u = Put(t, i, a, p)
    BY <1>4, ApplyIsPut
  <2>2. /\ a \in Row \union {NoRow} /\ (a.there => i <= m) /\ a.parent <= m
        /\ a.there <=> e.type # "deleted"
        /\ e.type = "created" => a.progress = 0
        /\ e.type \notin {"created", "deleted"} /\ e.field # "progress"
              /\ ~(e.type = "status" /\ e.value = "completed") =>
                  a.progress = t[i].progress
    BY <1>1, <1>4, AfterFacts
  <2>3. SameBut(u[i], a)
    BY <1>1, <2>1, <2>2, PutFacts
  <2> HIDE DEF a, p
  <2>4. p = g => u[g].progress = Ratio(u, g)
    BY <1>1, <2>1, <2>2, PutFacts
  <2>5. CASE p # g /\ i = g
    <3>1. u[i] = a
      BY <1>1, <2>1, <2>2, <2>5, PutFacts
    <3>2. e.type # "deleted"
      BY <2>2, <2>5, <3>1
    <3> QED BY <1>4, <2>2, <2>5, <3>1, <3>2 DEF p
  <2>6. CASE p # g /\ i # g
    <3>1. u[g] = t[g]
      BY <1>1, <2>1, <2>2, <2>6, PutFacts
    <3> QED BY <2>6, <3>1 DEF p
  <2> QED BY <2>4, <2>5, <2>6 DEF p
<1> QED BY <1>3, <1>4
----------------------------------------------------------------------------
(* Types, with the ids that rows and events may name.                     *)

Turns(m) ==
    [at : {"none", "listen", "start", "delete", "snapshot"},
     item : 0..m, todo : SUBSET (1..m), seq : Nat]

Pasts(m) ==
    [copies : Nat, cut : SUBSET Nat, read : Seq(EventSet(m)), torn : BOOLEAN, wrong : BOOLEAN]

Shape ==
    /\ ids \in 0..Items
    /\ log \in Seq(EventSet(ids)) /\ saved \in Seq(EventSet(ids))
    /\ table \in Tables(ids)
    /\ checkpoint \in [seq : Nat, table : Tables(ids)]
    /\ turn \in Turns(ids)
    /\ turn.at \in {"listen", "start"} => turn.seq > 0
    /\ past \in Pasts(ids)
    /\ Len(log) + past.copies <= MaxWork
    /\ Len(saved) <= Len(log)
    /\ past.cut \subseteq 1..Len(log)

LEMMA EmptyType ==
    ASSUME NEW m \in 0..Items
    PROVE  Empty \in Tables(m)
<1>1. Empty \in [Item -> Row \union {NoRow}] /\ \A i \in Item : Empty[i] = NoRow
  BY DEF Empty
<1> QED BY <1>1, NoRowFacts DEF Tables

LEMMA ApplyType ==
    ASSUME NEW m \in 0..Items, NEW t \in Tables(m), NEW e \in EventSet(m)
    PROVE  Apply(t, e) \in Tables(m)
BY ApplyFacts

LEMMA ReplayType ==
    ASSUME NEW m \in 0..Items, NEW t \in Tables(m), NEW events \in Seq(EventSet(m))
    PROVE  Replay(t, events) \in Tables(m)
BY ApplyType, ReplayKeeps

\* An event as the operations of the model make it.
LEMMA EventFields ==
    ASSUME NEW type, NEW i, NEW field, NEW value
    PROVE  /\ Event(type, i, field, value).type = type
           /\ Event(type, i, field, value).item = i
           /\ Event(type, i, field, value).parent = Replay(Empty, log)[i].parent
BY DEF Event

\* A commit, and what its event says of the parent.
Emitted(e) ==
    /\ Emit(e)
    /\ UNCHANGED <<checkpoint, saved, past>>
    /\ ids' \in 0..Items /\ ids <= ids'
    /\ e \in EventSet(ids')
    /\ e.type = "created" => e.item = ids + 1 /\ e.parent <= ids
    /\ e.type # "created" => ids' = ids /\ e.parent = Replay(Empty, log)[e.item].parent

LEMMA EventIn ==
    ASSUME Shape, NEW i \in 1..ids, NEW type, NEW field, NEW values, NEW value \in values
    PROVE  Event(type, i, field, value) \in Shaped(ids, {type}, {field}, values)
<1>1. ids \in 0..Items /\ i \in Item
  BY WorkTreeAssumption DEF Shape, Item
<1>2. Replay(Empty, log) \in Tables(ids)
  BY <1>1, EmptyType, ReplayType DEF Shape
<1> DEFINE p == Replay(Empty, log)[i].parent
<1>3. p \in {0} \union Item /\ p <= ids
  BY <1>1, <1>2, RowFacts
<1>4. p \in 0..ids
  BY <1>1, <1>3 DEF Item
<1>5. Event(type, i, field, value) =
          [type |-> type, item |-> i, field |-> field, value |-> value,
           parent |-> p, needs |-> {}, quiet |-> FALSE]
  BY DEF Event
<1> HIDE DEF p
<1> QED BY <1>4, <1>5 DEF Shaped

LEMMA OldEmits ==
    ASSUME Shape, NEW i \in 1..ids, NEW type \in {"status", "updated", "deleted"},
           NEW field, NEW value,
           \/ type = "status" /\ field = "status" /\ value \in Statuses
           \/ type = "updated" /\ field = "status" /\ value \in Statuses
           \/ type = "updated" /\ field = "progress" /\ value \in 0..100
           \/ type = "updated" /\ field = "parent" /\ value \in 0..ids
           \/ type = "deleted" /\ field = "none" /\ value = "none",
           Emit(Event(type, i, field, value)), UNCHANGED <<checkpoint, saved, past>>
    PROVE  Emitted(Event(type, i, field, value))
<1> DEFINE e == Event(type, i, field, value)
<1>1. e.type = type /\ e.item = i /\ e.parent = Replay(Empty, log)[i].parent
  BY EventFields
<1>2. ASSUME NEW values, value \in values PROVE e \in Shaped(ids, {type}, {field}, values)
  BY <1>2, EventIn
<1> HIDE DEF e
<1>3. e \in EventSet(ids)
  BY <1>2, EventKinds
<1>4. ids' = ids /\ ids \in 0..Items
  BY <1>1 DEF Emit, Shape, e
<1> QED BY <1>1, <1>3, <1>4 DEF Emitted, e

\* What a call leaves: the listener woken, or nothing.
Woken(e) == turn' = IF Listens(e) THEN Turn("listen", e.item, {}, Len(log) + 1) ELSE Idle

LEMMA CallEmits ==
    ASSUME Shape, NEW i \in Item, Call(i)
    PROVE  DeleteGoal(i) \/ (Free /\ \E e : Emitted(e) /\ Woken(e))
<1>0. ids \in 0..Items /\ Item = 1..Items /\ Items \in Nat /\ Goal \subseteq Item
  BY WorkTreeAssumption DEF Shape, Item
<1>1. \A j \in Item : table[j].there => j \in 1..ids
  BY <1>0, RowFacts DEF Shape
<1>2. ASSUME NEW up \in {0} \union Goal, NEW needs \in SUBSET (1..(i - 1)), Create(i, up, needs)
      PROVE  Free /\ \E e : Emitted(e) /\ Woken(e)
  <2> DEFINE e == Created(i, up, needs)
             v == IF i \in Goal THEN "active" ELSE "pending"
  <2>1. /\ Free /\ i = ids + 1 /\ Emit(e) /\ Woken(e)
        /\ UNCHANGED <<checkpoint, saved, past>>
    BY <1>2 DEF Create, Commit, Woken
  <2>2. up \in 0..ids
    BY <1>0, <1>1, <1>2 DEF Create
  <2>3. e = [type |-> "created", item |-> i, field |-> "status", value |-> v,
             parent |-> up, needs |-> needs, quiet |-> FALSE]
    <3>1. e = [Event("created", i, "status", v) EXCEPT !.parent = up, !.needs = needs]
      BY DEF Created
    <3> HIDE DEF e, v
    <3> QED BY <3>1 DEF Event
  <2>4. v \in {"active", "pending"}
    OBVIOUS
  <2>5. ids' = i
    BY <2>1, <2>3 DEF Emit
  <2>6. needs \subseteq Item /\ i \in 1..i /\ up \in 0..i /\ i \in 0..Items /\ ids <= i
    BY <1>0, <2>1, <2>2
  <2> HIDE DEF v
  <2>7. e \in Shaped(i, {"created"}, {"status"}, {"active", "pending"})
    BY <2>3, <2>4, <2>6 DEF Shaped
  <2>8. e \in EventSet(ids')
    BY <2>5, <2>7, EventKinds
  <2>9. e.type = "created" /\ e.item = i /\ e.parent = up
    BY <2>3
  <2> HIDE DEF e
  <2>10. Emitted(e)
    BY <2>1, <2>2, <2>5, <2>6, <2>8, <2>9 DEF Emitted
  <2> QED BY <2>1, <2>10
<1>3. ASSUME NEW s \in Asked \intersect TaskStatuses, SetStatus(i, s) \/ PatchStatus(i, s)
      PROVE  Free /\ \E e : Emitted(e) /\ Woken(e)
  <2>1. s \in Statuses
    BY DEF Statuses
  <2>2. PICK type \in {"status", "updated"} :
            LET e == Event(type, i, "status", s) IN
                /\ Free /\ table[i].there /\ Emit(e) /\ Woken(e)
                /\ UNCHANGED <<checkpoint, saved, past>>
    BY <1>3 DEF SetStatus, PatchStatus, Commit, Woken, Changed, Updated
  <2>3. i \in 1..ids
    BY <1>1, <2>2
  <2>4. Emitted(Event(type, i, "status", s))
    BY <2>1, <2>2, <2>3, OldEmits
  <2> QED BY <2>2, <2>4
<1>4. ASSUME NEW s \in Asked \intersect GoalStatuses, SetGoalStatus(i, s)
      PROVE  Free /\ \E e : Emitted(e) /\ Woken(e)
  <2>1. s \in Statuses
    BY DEF Statuses
  <2>2. PICK type \in {"status", "updated"} :
            LET e == Event(type, i, "status", s) IN
                /\ Free /\ table[i].there /\ Emit(e) /\ Woken(e)
                /\ UNCHANGED <<checkpoint, saved, past>>
    BY <1>4 DEF SetGoalStatus, Commit, Woken, Changed, Updated
  <2>3. i \in 1..ids
    BY <1>1, <2>2
  <2>4. Emitted(Event(type, i, "status", s))
    BY <2>1, <2>2, <2>3, OldEmits
  <2> QED BY <2>2, <2>4
<1>5. ASSUME SetProgress(i) PROVE Free /\ \E e : Emitted(e) /\ Woken(e)
  <2> DEFINE e == Event("updated", i, "progress", 40)
  <2>1. /\ Free /\ table[i].there /\ Emit(e) /\ Woken(e)
        /\ UNCHANGED <<checkpoint, saved, past>>
    BY <1>5 DEF SetProgress, Commit, Woken, Updated, ByHand
  <2>2. i \in 1..ids
    BY <1>1, <2>1
  <2>3. Emitted(e)
    BY <2>1, <2>2, OldEmits
  <2> QED BY <2>1, <2>3
<1>6. ASSUME NEW up \in Goal \ {i}, Move(i, up) PROVE Free /\ \E e : Emitted(e) /\ Woken(e)
  <2> DEFINE e == Event("updated", i, "parent", up)
  <2>1. /\ Free /\ table[i].there /\ up <= ids /\ Emit(e) /\ Woken(e)
        /\ UNCHANGED <<checkpoint, saved, past>>
    BY <1>6 DEF Move, Commit, Woken, Updated
  <2>2. i \in 1..ids /\ up \in 0..ids
    BY <1>0, <1>1, <2>1
  <2>3. Emitted(e)
    BY <2>1, <2>2, OldEmits
  <2> QED BY <2>1, <2>3
<1>7. ASSUME RestoreBrief(i) PROVE Free /\ \E e : Emitted(e) /\ Woken(e)
  <2> DEFINE f == Event("status", i, "status", "completed")
             e == [f EXCEPT !.quiet = TRUE]
  <2>1. /\ Free /\ table[i].there /\ Emit(e) /\ Woken(e)
        /\ UNCHANGED <<checkpoint, saved, past>>
    BY <1>7 DEF RestoreBrief, Commit, Woken, Restored, Changed
  <2>2. i \in 1..ids
    BY <1>1, <2>1
  <2>3. /\ f.type = "status" /\ f.item = i /\ f.parent = Replay(Empty, log)[i].parent
    BY EventFields
  <2>3a. f \in Shaped(ids, {"status"}, {"status"}, {"completed"})
    BY <2>2, EventIn
  <2> HIDE DEF f
  <2>4. /\ e.type = "status" /\ e.item = i /\ e.parent = f.parent
        /\ e \in Shaped(ids, {"status"}, {"status"}, Statuses)
    <3>1. "completed" \in Statuses
      BY DEF Statuses, TaskStatuses
    <3> QED BY <2>3, <2>3a, <3>1 DEF Shaped
  <2> HIDE DEF e
  <2>5. e \in EventSet(ids) /\ ids' = ids
    BY <2>1, <2>4, EventKinds DEF Emit
  <2>6. Emitted(e)
    BY <1>0, <2>1, <2>3, <2>4, <2>5 DEF Emitted
  <2> QED BY <2>1, <2>6
<1>8. ASSUME DeleteTask(i) PROVE Free /\ \E e : Emitted(e) /\ Woken(e)
  <2> DEFINE e == Event("deleted", i, "none", "none")
  <2>1. /\ Free /\ table[i].there /\ Emit(e) /\ Woken(e)
        /\ UNCHANGED <<checkpoint, saved, past>>
    BY <1>8 DEF DeleteTask, Commit, Woken, Deleted
  <2>2. i \in 1..ids
    BY <1>1, <2>1
  <2>3. Emitted(e)
    BY <2>1, <2>2, OldEmits
  <2> QED BY <2>1, <2>3
<1> QED BY <1>2, <1>3, <1>4, <1>5, <1>6, <1>7, <1>8 DEF Call

LEMMA StartEmits ==
    ASSUME Shape, NEW i \in Item, Start(i)
    PROVE  /\ turn.at = "start" /\ i \in turn.todo /\ turn' = Rest(i)
           /\ UNCHANGED <<checkpoint, saved, past>>
           /\ \/ Emitted(Changed(i, "running"))
              \/ ~Met(table, i) /\ UNCHANGED <<ids, log, table>>
<1>1. i \in 1..ids
  BY DEF Shape, Start, Turns
<1>2. "running" \in Statuses
  BY DEF Statuses, TaskStatuses
<1>3. ASSUME Emit(Changed(i, "running")), UNCHANGED <<checkpoint, saved, past>>
      PROVE  Emitted(Changed(i, "running"))
  BY <1>1, <1>2, <1>3, OldEmits DEF Changed
<1> QED BY <1>3 DEF Start

LEMMA DeleteEmits ==
    ASSUME Shape, NEW i \in Item, DeleteNext(i)
    PROVE  turn.at = "delete" /\ i \in turn.todo /\ turn' = Rest(i) /\ Emitted(Deleted(i))
<1>1. i \in 1..ids
  BY DEF Shape, DeleteNext, Turns
<1>2. ASSUME Emit(Deleted(i)), UNCHANGED <<checkpoint, saved, past>> PROVE Emitted(Deleted(i))
  BY <1>1, <1>2, OldEmits DEF Deleted
<1> QED BY <1>2 DEF DeleteNext

\* What is known of the turn that a call or a step leaves.
TurnStep ==
    /\ turn' \in Turns(ids')
    /\ turn'.at \in {"listen", "start"} => turn'.seq > 0

LEMMA IdleType ==
    ASSUME NEW m \in Nat
    PROVE  Idle \in Turns(m) /\ Idle.at = "none"
BY DEF Idle, Turns

LEMMA RestType ==
    ASSUME Shape, NEW i, ids' = ids, turn' = Rest(i)
    PROVE  TurnStep /\ (turn' = Idle \/ turn'.at = turn.at)
<1>1. ids \in Nat /\ turn \in Turns(ids)
  BY DEF Shape
<1>2. CASE turn' = Idle
  BY <1>1, <1>2, IdleType DEF TurnStep
<1>3. CASE turn' = [turn EXCEPT !.todo = @ \ {i}]
  <2>1. turn' \in Turns(ids) /\ turn'.at = turn.at /\ turn'.seq = turn.seq
    BY <1>1, <1>3 DEF Turns
  <2> QED BY <2>1 DEF Shape, TurnStep
<1> QED BY <1>2, <1>3 DEF Rest

LEMMA EmittedShape ==
    ASSUME Shape, NEW e, Emitted(e), TurnStep
    PROVE  Shape'
<1>1. /\ ids \in Nat /\ ids' \in 0..Items /\ ids' \in Nat /\ ids <= ids'
      /\ e \in EventSet(ids')
      /\ log' = Append(log, e) /\ table' = Apply(table, e)
      /\ Len(log) + past.copies < MaxWork
      /\ checkpoint' = checkpoint /\ saved' = saved /\ past' = past
  BY WorkTreeAssumption DEF Shape, Emitted, Emit
<1>2. EventSet(ids) \subseteq EventSet(ids') /\ Tables(ids) \subseteq Tables(ids')
  BY <1>1, EventSetGrows
<1>3. log \in Seq(EventSet(ids')) /\ saved \in Seq(EventSet(ids')) /\ past.read \in Seq(EventSet(ids'))
  BY <1>2, SeqMonotonic DEF Shape, Pasts
<1>4. log' \in Seq(EventSet(ids')) /\ Len(log') = Len(log) + 1 /\ Len(log) \in Nat
  BY <1>1, <1>3
<1>5. table' \in Tables(ids')
  BY <1>1, <1>2, ApplyType DEF Shape
<1>6. checkpoint' \in [seq : Nat, table : Tables(ids')]
  BY <1>1, <1>2 DEF Shape
<1>7. past' \in Pasts(ids')
  BY <1>1, <1>3 DEF Shape, Pasts
<1>8. Len(log') + past'.copies <= MaxWork /\ Len(saved') <= Len(log') /\ past'.cut \subseteq 1..Len(log')
  <2>1. past.copies \in Nat /\ Len(saved) \in Nat /\ Len(saved) <= Len(log) /\ past.cut \subseteq 1..Len(log)
    BY DEF Shape, Pasts
  <2> QED BY <1>1, <1>4, <2>1, WorkTreeAssumption
<1> QED BY <1>1, <1>3, <1>4, <1>5, <1>6, <1>7, <1>8 DEF Shape, TurnStep

LEMMA WokenTurn ==
    ASSUME Shape, NEW e, Emitted(e), Woken(e)
    PROVE  TurnStep
<1>1. e.item \in 1..ids' /\ Len(log) + 1 \in Nat \ {0} /\ ids' \in Nat
  BY EventFacts DEF Emitted, Shape
<1>2. CASE Listens(e)
  <2>1. turn' = [at |-> "listen", item |-> e.item, todo |-> {}, seq |-> Len(log) + 1]
    BY <1>2 DEF Woken, Turn
  <2> QED BY <1>1, <2>1 DEF TurnStep, Turns
<1>3. CASE ~Listens(e)
  BY <1>1, <1>3, IdleType DEF Woken, TurnStep
<1> QED BY <1>2, <1>3

\* What lies below an item is there.
LEMMA BelowType ==
    ASSUME NEW t, NEW i, NEW m, \A j \in Item : t[j].there => j \in 1..m
    PROVE  Below(t, i) \subseteq 1..m
<1> DEFINE S == {j \in Item : t[j].there}
<1>1. S \in SUBSET Item /\ S \subseteq 1..m
  OBVIOUS
<1>2. \A d : Children(t, d) \subseteq S
  BY DEF Children
<1> HIDE DEF S
<1>3. ASSUME NEW c \in Below(t, i) PROVE c \in S
  BY <1>1, <1>2 DEF Below
<1> QED BY <1>1, <1>3

LEMMA PastType ==
    ASSUME NEW m
    PROVE  /\ \A p \in Pasts(m) :
                  /\ p.copies \in Nat /\ p.cut \in SUBSET Nat /\ p.read \in Seq(EventSet(m))
                  /\ p.torn \in BOOLEAN /\ p.wrong \in BOOLEAN
                  /\ p = [copies |-> p.copies, cut |-> p.cut, read |-> p.read,
                          torn |-> p.torn, wrong |-> p.wrong]
           /\ \A c \in Nat, d \in SUBSET Nat, r \in Seq(EventSet(m)), x, y \in BOOLEAN :
                  [copies |-> c, cut |-> d, read |-> r, torn |-> x, wrong |-> y] \in Pasts(m)
BY DEF Pasts

LEMMA ShapeInit == Init => Shape
<1> SUFFICES ASSUME Init PROVE Shape
  OBVIOUS
<1>1. ids = 0 /\ ids \in 0..Items /\ Items \in Nat /\ MaxWork \in Nat
  BY WorkTreeAssumption DEF Init
<1>2. <<>> \in Seq(EventSet(ids)) /\ Len(<<>>) = 0
  OBVIOUS
<1>3. Empty \in Tables(ids)
  BY <1>1, EmptyType
<1>4. checkpoint \in [seq : Nat, table : Tables(ids)]
  BY <1>3 DEF Init, NoCheckpoint
<1>5. turn \in Turns(ids) /\ turn.at = "none"
  BY <1>1, IdleType DEF Init
<1>6. past \in Pasts(ids) /\ past.copies = 0 /\ past.cut = {}
  BY <1>2 DEF Init, Pasts
<1> QED BY <1>1, <1>2, <1>3, <1>4, <1>5, <1>6 DEF Init, Shape

LEMMA ShapeStep == Shape /\ [Next]_vars => Shape'
<1> SUFFICES ASSUME Shape, [Next]_vars PROVE Shape'
  OBVIOUS
<1>0. /\ ids \in 0..Items /\ ids \in Nat /\ Items \in Nat /\ MaxWork \in Nat
      /\ log \in Seq(EventSet(ids)) /\ saved \in Seq(EventSet(ids))
      /\ Len(log) \in Nat /\ Len(saved) \in Nat
      /\ table \in Tables(ids) /\ checkpoint \in [seq : Nat, table : Tables(ids)]
      /\ turn \in Turns(ids) /\ past \in Pasts(ids) /\ past.copies \in Nat
      /\ Len(log) + past.copies <= MaxWork /\ Len(saved) <= Len(log)
      /\ past.cut \subseteq 1..Len(log)
  BY WorkTreeAssumption DEF Shape, Pasts
<1>0a. /\ past = [copies |-> past.copies, cut |-> past.cut, read |-> past.read,
                  torn |-> past.torn, wrong |-> past.wrong]
       /\ past.cut \in SUBSET Nat /\ past.read \in Seq(EventSet(ids))
       /\ past.torn \in BOOLEAN /\ past.wrong \in BOOLEAN
  BY <1>0, PastType
<1>1. ASSUME NEW i \in Item, DeleteGoal(i) PROVE Shape'
  <2>1. UNCHANGED <<ids, log, table, checkpoint, saved, past>>
    BY <1>1 DEF DeleteGoal
  <2>2. PICK down \in {Below(table, i), Children(table, i)} :
            turn' = Turn("delete", i, down \union {i}, 0)
    BY <1>1 DEF DeleteGoal
  <2>3. \A j \in Item : table[j].there => j \in 1..ids
    BY <1>0, RowFacts DEF Item
  <2>4. i \in 1..ids
    BY <1>1, <2>3 DEF DeleteGoal
  <2>5. down \subseteq 1..ids
    <3>1. Children(table, i) \subseteq 1..ids
      BY <2>3 DEF Children
    <3>2. Below(table, i) \subseteq 1..ids
      BY <1>0, <2>3, BelowType
    <3> QED BY <3>1, <3>2
  <2>6. turn' \in Turns(ids) /\ turn'.at = "delete"
    BY <2>2, <2>4, <2>5 DEF Turn, Turns
  <2> QED BY <1>0, <2>1, <2>6 DEF Shape
<1>2. ASSUME NEW i \in Item, Call(i) PROVE Shape'
  BY <1>1, <1>2, CallEmits, WokenTurn, EmittedShape
<1>3. ASSUME NEW i \in Item, Start(i) PROVE Shape'
  <2>1. CASE Emitted(Changed(i, "running"))
    <3>1. Changed(i, "running").type # "created"
      BY EventFields DEF Changed
    <3>2. ids' = ids
      BY <2>1, <3>1 DEF Emitted
    <3>3. TurnStep
      BY <1>3, <3>2, StartEmits, RestType
    <3> QED BY <2>1, <3>3, EmittedShape
  <2>2. CASE UNCHANGED <<ids, log, table>>
    <3>1. TurnStep
      BY <1>3, <2>2, StartEmits, RestType
    <3>2. UNCHANGED <<checkpoint, saved, past>>
      BY <1>3, StartEmits
    <3> QED BY <1>0, <2>2, <3>1, <3>2 DEF Shape, TurnStep
  <2> QED BY <1>3, <2>1, <2>2, StartEmits
<1>4. ASSUME NEW i \in Item, DeleteNext(i) PROVE Shape'
  <2>1. Emitted(Deleted(i)) /\ turn' = Rest(i)
    BY <1>4, DeleteEmits
  <2>2. ids' = ids
    BY <2>1, EventFields DEF Emitted, Deleted
  <2> QED BY <2>1, <2>2, RestType, EmittedShape
<1>5. ASSUME Listen PROVE Shape'
  <2> DEFINE next == Successors(table, turn.item)
  <2>1. UNCHANGED <<ids, log, table, checkpoint, saved, past>> /\ turn.at = "listen" /\ turn.seq > 0
    BY <1>5 DEF Listen, Shape
  <2>2. next \subseteq 1..ids
    BY <1>0, RowFacts DEF Successors, Item
  <2>3. turn' = IF next = {} THEN Idle ELSE [turn EXCEPT !.at = "start", !.todo = next]
    BY <1>5 DEF Listen
  <2> HIDE DEF next
  <2>4. CASE next = {}
    BY <1>0, <2>1, <2>3, <2>4, IdleType DEF Shape
  <2>5. CASE next # {}
    <3>1. turn' \in Turns(ids) /\ turn'.seq = turn.seq
      BY <1>0, <2>2, <2>3, <2>5 DEF Turns
    <3> QED BY <1>0, <2>1, <3>1 DEF Shape
  <2> QED BY <2>4, <2>5
<1>6. CASE ReadLog
  <2>1. turn' = [at |-> "snapshot", item |-> 0, todo |-> {}, seq |-> Len(log)]
    BY <1>6 DEF ReadLog, Turn
  <2>2. turn' \in Turns(ids) /\ turn'.at = "snapshot"
    BY <1>0, <2>1 DEF Turns
  <2>3. past' = [past EXCEPT !.copies = @ + 1, !.read = log] /\ Len(log) + past.copies < MaxWork
        /\ UNCHANGED <<ids, log, table, checkpoint, saved>>
    BY <1>6 DEF ReadLog
  <2>4. past' \in Pasts(ids) /\ past'.copies = past.copies + 1 /\ past'.cut = past.cut
    <3>1. past' = [copies |-> past.copies + 1, cut |-> past.cut, read |-> log,
                   torn |-> past.torn, wrong |-> past.wrong]
      BY <1>0a, <2>3
    <3>2. past.copies + 1 \in Nat
      BY <1>0
    <3> QED BY <1>0, <1>0a, <3>1, <3>2, PastType
  <2> QED BY <1>0, <2>2, <2>3, <2>4 DEF Shape
<1>7. CASE SaveCheckpoint
  <2>1. /\ checkpoint' = [seq |-> turn.seq, table |-> table] /\ turn' = Idle
        /\ past' = [past EXCEPT !.torn = past.wrong \/ log # past.read, !.read = <<>>]
        /\ UNCHANGED <<ids, log, table, saved>>
    BY <1>7 DEF SaveCheckpoint
  <2>2. past' \in Pasts(ids) /\ past'.copies = past.copies /\ past'.cut = past.cut
    <3>1. PICK x \in BOOLEAN : x = (past.wrong \/ log # past.read)
      OBVIOUS
    <3>2. past' = [copies |-> past.copies, cut |-> past.cut, read |-> <<>>,
                   torn |-> x, wrong |-> past.wrong]
      BY <1>0a, <2>1, <3>1
    <3>3. <<>> \in Seq(EventSet(ids))
      OBVIOUS
    <3> QED BY <1>0, <1>0a, <3>2, <3>3, PastType
  <2>3. turn' \in Turns(ids) /\ turn'.at = "none"
    BY <1>0, <2>1, IdleType
  <2>4. checkpoint' \in [seq : Nat, table : Tables(ids)]
    BY <1>0, <2>1 DEF Turns
  <2> QED BY <1>0, <2>1, <2>2, <2>3, <2>4 DEF Shape
<1>8. CASE Rebuild
  <2>1. /\ table' = Replay(checkpoint.table, Suffix)
        /\ past' = [past EXCEPT !.wrong = past.torn]
        /\ UNCHANGED <<ids, log, checkpoint, saved, turn>>
    BY <1>8 DEF Rebuild
  <2>2. Suffix \in Seq(EventSet(ids))
    <3>1. checkpoint.seq + 1 \in Nat \ {0}
      BY <1>0
    <3>2. \A i \in (checkpoint.seq + 1)..Len(log) : log[i] \in EventSet(ids)
      BY <1>0, <3>1, ElementOfSeq
    <3> QED BY <1>0, <3>1, <3>2, SubSeqProperties DEF Suffix
  <2>3. table' \in Tables(ids)
    BY <1>0, <2>1, <2>2, ReplayType
  <2>4. past' \in Pasts(ids) /\ past'.copies = past.copies /\ past'.cut = past.cut
    BY <1>0, <2>1 DEF Pasts
  <2> QED BY <1>0, <2>1, <2>3, <2>4 DEF Shape
<1>9. CASE Export
  <2>1. /\ Len(log) + past.copies < MaxWork /\ saved' = log
        /\ past' = [past EXCEPT !.copies = @ + 1]
        /\ UNCHANGED <<ids, log, table, checkpoint, turn>>
    BY <1>9 DEF Export
  <2>2. past' \in Pasts(ids) /\ past'.copies = past.copies + 1 /\ past'.cut = past.cut
    BY <1>0, <2>1 DEF Pasts
  <2> QED BY <1>0, <2>1, <2>2 DEF Shape
<1>10. CASE Restore
  <2>1. /\ log' = saved /\ table' = Replay(Empty, saved) /\ checkpoint' = NoCheckpoint /\ saved' = <<>>
        /\ past' = [past EXCEPT !.cut = 1..Len(saved), !.torn = FALSE, !.wrong = FALSE]
        /\ UNCHANGED <<ids, turn>>
    BY <1>10 DEF Restore
  <2>2. past' \in Pasts(ids) /\ past'.copies = past.copies /\ past'.cut = 1..Len(saved)
    <3>1. 1..Len(saved) \in SUBSET Nat
      BY <1>0
    <3>2. past' = [copies |-> past.copies, cut |-> 1..Len(saved), read |-> past.read,
                   torn |-> FALSE, wrong |-> FALSE]
      BY <1>0a, <2>1
    <3> QED BY <1>0, <1>0a, <3>1, <3>2, PastType
  <2>3. table' \in Tables(ids) /\ checkpoint' \in [seq : Nat, table : Tables(ids)]
    BY <1>0, <2>1, EmptyType, ReplayType DEF NoCheckpoint
  <2>4. saved' \in Seq(EventSet(ids)) /\ Len(saved') = 0
    BY <2>1
  <2> QED BY <1>0, <2>1, <2>2, <2>3, <2>4 DEF Shape
<1>11. CASE Crash
  <2> DEFINE cut == IF turn.at \in {"listen", "start"} /\ turn.seq <= Len(log)
                    THEN past.cut \union {turn.seq} ELSE past.cut
  <2>1. /\ turn' = Idle /\ past' = [past EXCEPT !.read = <<>>, !.cut = cut]
        /\ UNCHANGED <<ids, log, table, checkpoint, saved>>
    BY <1>11 DEF Crash
  <2>2. cut \subseteq 1..Len(log)
    BY <1>0 DEF Shape, Turns
  <2>3. past' \in Pasts(ids) /\ past'.copies = past.copies /\ past'.cut = cut
    <3>1. cut \subseteq Nat
      BY <2>2
    <3> HIDE DEF cut
    <3>2. <<>> \in Seq(EventSet(ids))
      OBVIOUS
    <3>3. past' = [copies |-> past.copies, cut |-> cut, read |-> <<>>,
                   torn |-> past.torn, wrong |-> past.wrong]
      BY <1>0a, <2>1
    <3> QED BY <1>0, <1>0a, <3>1, <3>2, <3>3, PastType
  <2> HIDE DEF cut
  <2>4. turn' \in Turns(ids) /\ turn'.at = "none"
    BY <1>0, <2>1, IdleType
  <2> QED BY <1>0, <2>1, <2>2, <2>3, <2>4 DEF Shape
<1>12. CASE UNCHANGED vars
  BY <1>12 DEF vars, Shape
<1> QED BY <1>2, <1>3, <1>4, <1>5, <1>6, <1>7, <1>8, <1>9, <1>10, <1>11, <1>12 DEF Next

THEOREM ShapeHolds == Spec => []Shape
<1>1. Init => Shape
  BY ShapeInit
<1>2. Shape /\ [Next]_vars => Shape'
  BY ShapeStep
<1> QED BY <1>1, <1>2, PTL DEF Spec

\* Every variable has its type, the log with the exports and checkpoints
\* stays under its bound, and only an event of the log is marked as cut off.
THEOREM TypeCorrect == Spec => []TypeOK
<1>1. Shape => TypeOK
  <2> SUFFICES ASSUME Shape PROVE TypeOK
    OBVIOUS
  <2>1. ids \in 0..Items /\ 0..ids \subseteq {0} \union Item /\ 1..ids \subseteq Item
    BY WorkTreeAssumption DEF Shape, Item
  <2> QED BY <2>1 DEF TypeOK, Shape, Tables, Turns, Pasts
<1> QED BY <1>1, ShapeHolds, PTL
----------------------------------------------------------------------------
(* The table is the fold of the log.                                      *)

Prefix(events, n) == SubSeq(events, 1, n)

Folded ==
    /\ past.wrong => past.torn
    /\ ~past.wrong => table = Replay(Empty, log)
    /\ ~past.torn => /\ checkpoint.seq <= Len(log)
                     /\ checkpoint.table = Replay(Empty, Prefix(log, checkpoint.seq))

Fold == Folded /\ (turn.at = "snapshot" => turn.seq = Len(past.read))

\* What every step is: a commit, or one that leaves the log and the table, or
\* one of the three that replace a table or a log.
LEMMA StepKinds ==
    ASSUME Shape, Next
    PROVE  \/ \E e : Emitted(e)
           \/ UNCHANGED <<ids, log, table, checkpoint, saved, past>>
           \/ ReadLog \/ SaveCheckpoint \/ Rebuild \/ Export \/ Restore \/ Crash
<1>1. ASSUME NEW i \in Item, Call(i) PROVE (\E e : Emitted(e)) \/ DeleteGoal(i)
  BY <1>1, CallEmits
<1>2. ASSUME NEW i \in Item, Start(i)
      PROVE  (\E e : Emitted(e)) \/ UNCHANGED <<ids, log, table, checkpoint, saved, past>>
  BY <1>2, StartEmits
<1>3. ASSUME NEW i \in Item, DeleteNext(i) PROVE \E e : Emitted(e)
  BY <1>3, DeleteEmits
<1>4. ASSUME NEW i \in Item, DeleteGoal(i) PROVE UNCHANGED <<ids, log, table, checkpoint, saved, past>>
  BY <1>4 DEF DeleteGoal
<1>5. Listen => UNCHANGED <<ids, log, table, checkpoint, saved, past>>
  BY DEF Listen
<1> QED BY <1>1, <1>2, <1>3, <1>4, <1>5 DEF Next

\* A snapshot goes on with what was read.
LEMMA SnapshotTurn ==
    ASSUME Shape, Next, turn'.at = "snapshot"
    PROVE  ReadLog \/ (turn' = turn /\ past'.read = past.read)
<1>1. ids \in Nat /\ turn \in Turns(ids) /\ Idle.at = "none"
  BY IdleType DEF Shape
<1>2. ASSUME NEW i \in Item, Call(i) PROVE FALSE
  <2>1. CASE DeleteGoal(i)
    BY <2>1 DEF DeleteGoal, Turn
  <2>2. ASSUME NEW e, Woken(e) PROVE FALSE
    BY <1>1, <2>2 DEF Woken, Turn
  <2> QED BY <1>2, <2>1, <2>2, CallEmits
<1>3. ASSUME NEW i \in Item, turn' = Rest(i), turn.at \in {"start", "delete"} PROVE FALSE
  BY <1>1, <1>3 DEF Rest, Turns
<1>4. ASSUME Listen PROVE FALSE
  BY <1>1, <1>4 DEF Listen, Turns
<1>5. SaveCheckpoint \/ Crash => FALSE
  BY <1>1 DEF SaveCheckpoint, Crash
<1>6. ASSUME Rebuild \/ Export \/ Restore PROVE turn' = turn /\ past'.read = past.read
  <2>1. past = [copies |-> past.copies, cut |-> past.cut, read |-> past.read,
                torn |-> past.torn, wrong |-> past.wrong]
    BY PastType DEF Shape
  <2> QED BY <1>6, <2>1 DEF Rebuild, Export, Restore
<1> QED BY <1>2, <1>3, <1>4, <1>5, <1>6 DEF Next, Start, DeleteNext

LEMMA PrefixFacts ==
    ASSUME NEW S, NEW events \in Seq(S), NEW e \in S
    PROVE  /\ \A k \in 0..Len(events) : Prefix(Append(events, e), k) = Prefix(events, k)
           /\ Prefix(events, 0) = <<>>
           /\ Prefix(events, Len(events)) = events
BY DEF Prefix

LEMMA FoldInit == Init => Fold
<1> SUFFICES ASSUME Init PROVE Fold
  OBVIOUS
<1>1. Prefix(<<>>, 0) = <<>> /\ Len(<<>>) = 0
  BY DEF Prefix
<1>2. turn.at # "snapshot"
  BY DEF Init, Idle
<1>3. Replay(Empty, <<>>) = Empty
  BY ReplayNone
<1>4. log = <<>> /\ table = Empty /\ ~past.torn /\ ~past.wrong
  BY DEF Init
<1>5. checkpoint.seq = 0 /\ checkpoint.table = Empty
  BY DEF Init, NoCheckpoint
<1>6. table = Replay(Empty, log)
  BY <1>3, <1>4
<1>7. Len(log) = 0 /\ checkpoint.table = Replay(Empty, Prefix(log, checkpoint.seq))
  BY <1>1, <1>3, <1>4, <1>5
<1> QED BY <1>2, <1>4, <1>5, <1>6, <1>7 DEF Fold, Folded

LEMMA FoldStep == Shape /\ Fold /\ [Next]_vars => Fold'
<1> SUFFICES ASSUME Shape, Fold, [Next]_vars PROVE Fold'
  OBVIOUS
<1>0. /\ log \in Seq(EventSet(ids)) /\ Len(log) \in Nat /\ saved \in Seq(EventSet(ids))
      /\ checkpoint.seq \in Nat
      /\ past = [copies |-> past.copies, cut |-> past.cut, read |-> past.read,
                 torn |-> past.torn, wrong |-> past.wrong]
      /\ past.torn \in BOOLEAN /\ past.wrong \in BOOLEAN
  BY PastType DEF Shape
<1>1. CASE UNCHANGED vars
  BY <1>1 DEF vars, Fold, Folded
<1>2. ASSUME Next, turn'.at = "snapshot" PROVE turn'.seq = Len(past'.read)
  <2>1. CASE ReadLog
    BY <1>0, <2>1 DEF ReadLog, Turn
  <2>2. CASE turn' = turn /\ past'.read = past.read
    BY <1>2, <2>2 DEF Fold
  <2> QED BY <1>2, <2>1, <2>2, SnapshotTurn
<1>3. ASSUME NEW e, Emitted(e) PROVE Folded'
  <2>1. /\ log' = Append(log, e) /\ table' = Apply(table, e)
        /\ checkpoint' = checkpoint /\ past' = past
        /\ e \in EventSet(ids') /\ ids \in Nat /\ ids' \in Nat /\ ids <= ids'
    BY <1>3, WorkTreeAssumption DEF Emitted, Emit, Shape
  <2>2. log \in Seq(EventSet(ids'))
    BY <1>0, <2>1, EventSetGrows, SeqMonotonic
  <2>3. Len(log') = Len(log) + 1
    BY <2>1, <2>2
  <2>4. Replay(Empty, log') = Apply(Replay(Empty, log), e)
    BY <2>1, <2>2, ReplayAppend
  <2>5. checkpoint.seq <= Len(log) => Prefix(log', checkpoint.seq) = Prefix(log, checkpoint.seq)
    BY <1>0, <2>1, <2>2, PrefixFacts
  <2>6. ~past.wrong => table' = Replay(Empty, log')
    BY <2>1, <2>4 DEF Fold, Folded
  <2>7. ~past.torn => /\ checkpoint.seq <= Len(log')
                      /\ checkpoint.table = Replay(Empty, Prefix(log', checkpoint.seq))
    BY <1>0, <2>3, <2>5 DEF Fold, Folded
  <2> QED BY <2>1, <2>6, <2>7 DEF Fold, Folded
<1>4. ASSUME UNCHANGED <<log, table, checkpoint>>, past'.torn <=> past.torn, past'.wrong <=> past.wrong
      PROVE  Folded'
  BY <1>4 DEF Fold, Folded
<1>5. ASSUME UNCHANGED <<ids, log, table, checkpoint, saved, past>> PROVE Folded'
  BY <1>4, <1>5
<1>6. ASSUME ReadLog \/ Export \/ Crash PROVE Folded'
  <2>1. UNCHANGED <<log, table, checkpoint>> /\ (past'.torn <=> past.torn) /\ (past'.wrong <=> past.wrong)
    BY <1>0, <1>6 DEF ReadLog, Export, Crash
  <2> QED BY <1>4, <2>1
<1>7. ASSUME SaveCheckpoint PROVE Folded'
  <2>1. /\ turn.at = "snapshot" /\ checkpoint' = [seq |-> turn.seq, table |-> table]
        /\ past' = [past EXCEPT !.torn = past.wrong \/ log # past.read, !.read = <<>>]
        /\ log' = log /\ table' = table
    BY <1>7 DEF SaveCheckpoint
  <2>2. (past'.wrong <=> past.wrong) /\ (past'.torn <=> past.wrong \/ log # past.read)
    BY <1>0, <2>1
  <2>3. checkpoint'.seq = turn.seq /\ checkpoint'.table = table /\ turn.seq = Len(past.read)
    BY <2>1 DEF Fold, Folded
  <2>4. Prefix(log, Len(log)) = log
    BY <1>0 DEF Prefix
  <2> QED BY <1>0, <2>1, <2>2, <2>3, <2>4 DEF Fold, Folded
<1>8. ASSUME Rebuild PROVE Folded'
  <2>1. /\ table' = Replay(checkpoint.table, SubSeq(log, checkpoint.seq + 1, Len(log)))
        /\ past' = [past EXCEPT !.wrong = past.torn] /\ log' = log /\ checkpoint' = checkpoint
    BY <1>8 DEF Rebuild, Suffix
  <2>2. (past'.torn <=> past.torn) /\ (past'.wrong <=> past.torn)
    BY <1>0, <2>1
  <2>3. ASSUME ~past.torn PROVE table' = Replay(Empty, log)
    <3>1. checkpoint.seq \in 0..Len(log)
      BY <1>0, <2>3 DEF Fold, Folded
    <3>2. checkpoint.table = Replay(Empty, SubSeq(log, 1, checkpoint.seq))
      BY <2>3 DEF Fold, Folded, Prefix
    <3> QED BY <1>0, <2>1, <3>1, <3>2, ReplaySplit
  <2> QED BY <2>1, <2>2, <2>3 DEF Fold, Folded
<1>9. ASSUME Restore PROVE Folded'
  <2>1. /\ log' = saved /\ table' = Replay(Empty, saved) /\ checkpoint' = NoCheckpoint
        /\ past' = [past EXCEPT !.cut = 1..Len(saved), !.torn = FALSE, !.wrong = FALSE]
    BY <1>9 DEF Restore
  <2>2. ~past'.torn /\ ~past'.wrong
    BY <1>0, <2>1
  <2>3. Prefix(saved, 0) = <<>> /\ Len(saved) \in Nat
    BY <1>0 DEF Prefix
  <2>4. checkpoint'.seq = 0 /\ checkpoint'.table = Empty
    BY <2>1 DEF NoCheckpoint
  <2>5. log' = saved /\ table' = Replay(Empty, log') /\ checkpoint'.seq <= Len(log')
    BY <2>1, <2>3, <2>4
  <2>6. checkpoint'.table = Replay(Empty, Prefix(log', checkpoint'.seq))
    BY <2>3, <2>4, <2>5, ReplayNone
  <2> QED BY <2>2, <2>5, <2>6 DEF Folded
<1>10. Next => Folded'
  BY <1>3, <1>5, <1>6, <1>7, <1>8, <1>9, StepKinds
<1> QED BY <1>1, <1>2, <1>10 DEF Fold, Folded

THEOREM FoldHolds == Spec => [](Shape /\ Fold)
<1>1. Init => Shape /\ Fold
  BY ShapeInit, FoldInit
<1>2. Shape /\ Fold /\ [Next]_vars => (Shape /\ Fold)'
  BY ShapeStep, FoldStep
<1> QED BY <1>1, <1>2, PTL DEF Spec

\* Whatever is committed, rebuilt, exported, restored or cut off by a death:
\* the table is what a replay of the whole log gives, unless it was rebuilt
\* from a checkpoint that a restore had overtaken.
THEOREM FoldCorrect == Spec => []TableIsFold
<1>1. Fold => TableIsFold
  BY DEF Fold, Folded, TableIsFold
<1> QED BY <1>1, FoldHolds, PTL
----------------------------------------------------------------------------
(* Positions of events in a log.                                          *)

\* A bounded set of naturals that is not empty has a greatest member.
LEMMA MaxFacts ==
    ASSUME NEW n \in Nat, NEW I \in SUBSET (0..n), I # {}
    PROVE  Max(I) \in I /\ \A x \in I : x <= Max(I)
<1> DEFINE S == {m \in Nat : (\E x \in I : x >= m)}
<1>1. \E x \in I : \A y \in I : x >= y
  <2>1. SUFFICES ASSUME \A x \in I : \E y \in I : ~(x >= y) PROVE FALSE
    OBVIOUS
  <2>2. 0 \in S
    <3>1. PICK x \in I : TRUE
      OBVIOUS
    <3>2. x \in Nat /\ x >= 0
      OBVIOUS
    <3> QED BY <3>2
  <2>3. ASSUME NEW m \in S PROVE m + 1 \in S
    <3>1. PICK x \in I : x >= m
      OBVIOUS
    <3>2. PICK y \in I : ~(x >= y)
      BY <2>1
    <3>3. y \in Nat /\ x \in Nat /\ m \in Nat
      OBVIOUS
    <3>4. y >= m + 1
      BY <3>1, <3>2, <3>3
    <3> QED BY <3>3, <3>4
  <2>4. S = Nat
    <3>1. S \in SUBSET Nat
      OBVIOUS
    <3> HIDE DEF S
    <3> QED BY <2>2, <2>3, <3>1, NatInd
  <2>5. n + 1 \in S
    BY <2>4
  <2> QED BY <2>5
<1>2. Max(I) \in I /\ \A y \in I : Max(I) >= y
  BY <1>1 DEF Max
<1>3. \A x \in I : x \in Nat
  OBVIOUS
<1> QED BY <1>2, <1>3

LastOf(I) == IF I # {} THEN Max(I) ELSE 0

LEMMA LastFacts ==
    ASSUME NEW n \in Nat, NEW I \in SUBSET (1..n)
    PROVE  /\ LastOf(I) \in 0..n
           /\ I # {} => LastOf(I) \in I
           /\ \A x \in I : x <= LastOf(I)
           /\ LastOf(I \union {n + 1}) = n + 1
<1>1. I \in SUBSET (0..n) /\ I \union {n + 1} \in SUBSET (0..(n + 1)) /\ n + 1 \in Nat
  OBVIOUS
<1>2. I # {} => Max(I) \in I /\ \A x \in I : x <= Max(I)
  BY <1>1, MaxFacts
<1> DEFINE J == I \union {n + 1}
<1>3. J \in SUBSET (0..(n + 1)) /\ J # {} /\ n + 1 \in J /\ \A x \in J : x \in Nat /\ x <= n + 1
  BY <1>1
<1> HIDE DEF J
<1>4. Max(J) \in J /\ n + 1 <= Max(J)
  BY <1>1, <1>3, MaxFacts
<1>5. LastOf(J) = n + 1
  <2>1. LastOf(J) = Max(J)
    BY <1>3 DEF LastOf
  <2>2. Max(J) \in Nat /\ Max(J) <= n + 1
    BY <1>3, <1>4
  <2> QED BY <1>1, <1>4, <2>1, <2>2
<1>6. LastOf(I) \in 0..n /\ (I # {} => LastOf(I) \in I) /\ \A x \in I : x <= LastOf(I)
  <2>1. CASE I = {}
    BY <2>1 DEF LastOf
  <2>2. CASE I # {}
    <3>1. LastOf(I) = Max(I)
      BY <2>2 DEF LastOf
    <3> QED BY <1>1, <1>2, <2>2, <3>1
  <2> QED BY <2>1, <2>2
<1> QED BY <1>5, <1>6 DEF J

\* The positions where item i was given the status v.
SetAt(events, i, v) ==
    {k \in 1..Len(events) :
        events[k].item = i /\ events[k].field = "status" /\ events[k].value = v}

Gives(e, i, v) == e.item = i /\ e.field = "status" /\ e.value = v

LEMMA LastSetAt ==
    /\ \A s : MadePending(s) = LastOf(SetAt(log, s, "pending"))
    /\ \A d : CompletedAt(d) = LastOf(SetAt(log, d, "completed"))
BY DEF MadePending, CompletedAt, SelectLastInSeq, LastOf, SetAt

LEMMA SetAtAppend ==
    ASSUME NEW S, NEW events \in Seq(S), NEW e, NEW i, NEW v
    PROVE  /\ SetAt(events, i, v) \in SUBSET (1..Len(events))
           /\ Gives(e, i, v) => SetAt(Append(events, e), i, v) = SetAt(events, i, v) \union {Len(events) + 1}
           /\ ~Gives(e, i, v) => SetAt(Append(events, e), i, v) = SetAt(events, i, v)
<1> DEFINE n == Len(events)
           more == Append(events, e)
<1>1. n \in Nat /\ Len(more) = n + 1 /\ more[n + 1] = e /\ \A k \in 1..n : more[k] = events[k]
  OBVIOUS
<1> HIDE DEF n, more
<1>2. SetAt(events, i, v) = {k \in 1..n : Gives(events[k], i, v)}
  BY DEF SetAt, Gives, n
<1>3. SetAt(more, i, v) = {k \in 1..(n + 1) : Gives(more[k], i, v)}
  BY <1>1 DEF SetAt, Gives
<1>4. {k \in 1..(n + 1) : Gives(more[k], i, v)} =
          {k \in 1..n : Gives(events[k], i, v)} \union {k \in {n + 1} : Gives(e, i, v)}
  BY <1>1
<1>5. /\ Gives(e, i, v) => {k \in {n + 1} : Gives(e, i, v)} = {n + 1}
      /\ ~Gives(e, i, v) => {k \in {n + 1} : Gives(e, i, v)} = {}
  OBVIOUS
<1> QED BY <1>2, <1>3, <1>4, <1>5 DEF n, more

LEMMA LastAppend ==
    ASSUME NEW S, NEW events \in Seq(S), NEW e, NEW i, NEW v
    PROVE  /\ LastOf(SetAt(events, i, v)) \in 0..Len(events)
           /\ SetAt(events, i, v) # {} => LastOf(SetAt(events, i, v)) \in 1..Len(events)
           /\ Gives(e, i, v) => LastOf(SetAt(Append(events, e), i, v)) = Len(events) + 1
           /\ ~Gives(e, i, v) => LastOf(SetAt(Append(events, e), i, v)) = LastOf(SetAt(events, i, v))
<1>1. Len(events) \in Nat /\ SetAt(events, i, v) \in SUBSET (1..Len(events))
  BY SetAtAppend
<1>2. SetAt(events, i, v) # {} => LastOf(SetAt(events, i, v)) \in 1..Len(events)
  BY <1>1, LastFacts
<1>3. /\ LastOf(SetAt(events, i, v)) \in 0..Len(events)
      /\ LastOf(SetAt(events, i, v) \union {Len(events) + 1}) = Len(events) + 1
  BY <1>1, LastFacts
<1>4. /\ Gives(e, i, v) => SetAt(Append(events, e), i, v) = SetAt(events, i, v) \union {Len(events) + 1}
      /\ ~Gives(e, i, v) => SetAt(Append(events, e), i, v) = SetAt(events, i, v)
  BY SetAtAppend
<1> QED BY <1>2, <1>3, <1>4

\* Where the last of some items was completed.
Key(events, needs) == Max({LastOf(SetAt(events, d, "completed")) : d \in needs})

LEMMA KeyFacts ==
    ASSUME NEW S, NEW events \in Seq(S), NEW needs, needs # {}
    PROVE  /\ Key(events, needs) \in 0..Len(events)
           /\ \A d \in needs : LastOf(SetAt(events, d, "completed")) <= Key(events, needs)
           /\ \E d \in needs : Key(events, needs) = LastOf(SetAt(events, d, "completed"))
<1> DEFINE I == {LastOf(SetAt(events, d, "completed")) : d \in needs}
<1>0. \A d : LastOf(SetAt(events, d, "completed")) \in 0..Len(events)
  BY LastAppend
<1>1. I \in SUBSET (0..Len(events)) /\ I # {} /\ Len(events) \in Nat
  BY <1>0
<1>2. Max(I) \in I /\ \A x \in I : x <= Max(I)
  <2> HIDE DEF I
  <2> QED BY <1>1, MaxFacts
<1>3. Max(I) = Key(events, needs)
  BY DEF Key
<1> QED BY <1>1, <1>2, <1>3

LEMMA KeyAppend ==
    ASSUME NEW S, NEW events \in Seq(S), NEW e \in S, NEW needs, needs # {}
    PROVE  /\ (\E d \in needs : Gives(e, d, "completed")) =>
                  Key(Append(events, e), needs) = Len(events) + 1
           /\ (\A d \in needs : ~Gives(e, d, "completed")) =>
                  Key(Append(events, e), needs) = Key(events, needs)
<1> DEFINE more == Append(events, e)
<1>1. more \in Seq(S) /\ Len(more) = Len(events) + 1 /\ Len(events) \in Nat
  OBVIOUS
<1>2. ASSUME NEW d \in needs, Gives(e, d, "completed")
      PROVE  Key(more, needs) = Len(events) + 1
  <2>1. LastOf(SetAt(more, d, "completed")) = Len(events) + 1
    BY <1>2, LastAppend
  <2> HIDE DEF more
  <2>2. Key(more, needs) \in 0..Len(more) /\ LastOf(SetAt(more, d, "completed")) <= Key(more, needs)
    BY <1>1, KeyFacts
  <2> QED BY <1>1, <2>1, <2>2
<1>3. ASSUME \A d \in needs : ~Gives(e, d, "completed")
      PROVE  Key(more, needs) = Key(events, needs)
  <2>1. \A d \in needs : LastOf(SetAt(more, d, "completed")) = LastOf(SetAt(events, d, "completed"))
    BY <1>3, LastAppend
  <2>2. {LastOf(SetAt(more, d, "completed")) : d \in needs}
            = {LastOf(SetAt(events, d, "completed")) : d \in needs}
    BY <2>1
  <2> QED BY <2>2 DEF Key
<1> QED BY <1>2, <1>3
----------------------------------------------------------------------------
(* What waited is started.                                                *)

\* A task that has all it needs and has not been started.
Waits(t, s) == t[s].there /\ t[s].status = "pending" /\ t[s].needs # {} /\ Met(t, s)

\* It became pending later, or the last completion woke no listener or one
\* that was cut off.
ExcusedBy(events, cut, needs, s) ==
    LET k == Key(events, needs) IN
        \/ k < LastOf(SetAt(events, s, "pending"))
        \/ events[k].type # "status" \/ events[k].quiet
        \/ k \in cut

Excused(s) == ExcusedBy(log, past.cut, table[s].needs, s)

\* The listener of the last completion is on its way to s.
Pursued(s) ==
    /\ turn.seq = Key(log, table[s].needs)
    /\ \/ turn.at = "listen" /\ turn.item \in table[s].needs
       \/ turn.at = "start" /\ s \in turn.todo

\* Whatever is completed was completed by an event.
Done(events) ==
    \A d \in Item :
        Replay(Empty, events)[d].there /\ Replay(Empty, events)[d].status = "completed" =>
            SetAt(events, d, "completed") # {}

Owed == ~past.wrong => \A s \in Item : Waits(table, s) => Excused(s) \/ Pursued(s)

Ready == Done(log) /\ Done(saved) /\ Owed

LEMMA DoneNone == Done(<<>>)
<1>1. Replay(Empty, <<>>) = Empty
  BY ReplayNone
<1>2. \A d \in Item : ~Empty[d].there
  BY DEF Empty, NoRow
<1> QED BY <1>1, <1>2 DEF Done

LEMMA DoneAppend ==
    ASSUME NEW m \in 0..Items, NEW events \in Seq(EventSet(m)), NEW e \in EventSet(m), Done(events)
    PROVE  Done(Append(events, e))
<1> DEFINE more == Append(events, e)
           t == Replay(Empty, events)
           u == Replay(Empty, more)
<1>1. t \in Tables(m) /\ u = Apply(t, e)
  BY EmptyType, ReplayType, ReplayAppend
<1> SUFFICES ASSUME NEW d \in Item, u[d].there, u[d].status = "completed"
             PROVE  SetAt(more, d, "completed") # {}
  BY DEF Done
<1>2. /\ Gives(e, d, "completed") => SetAt(more, d, "completed") =
                                         SetAt(events, d, "completed") \union {Len(events) + 1}
      /\ ~Gives(e, d, "completed") => SetAt(more, d, "completed") = SetAt(events, d, "completed")
  BY SetAtAppend
<1>3. t[d].there /\ t[d].status = "completed" => SetAt(events, d, "completed") # {}
  BY DEF Done
<1> HIDE DEF u, t, more
<1>4. ~Gives(e, d, "completed") => t[d].there /\ t[d].status = "completed"
  <2> SUFFICES ASSUME ~Gives(e, d, "completed") PROVE t[d].there /\ t[d].status = "completed"
    OBVIOUS
  <2>1. CASE d # e.item
    BY <1>1, <2>1, ApplyFacts DEF SameBut
  <2>2. CASE d = e.item
    <3>1. /\ u[d].there <=> e.type = "created" \/ (t[d].there /\ e.type # "deleted")
          /\ u[d].status = IF e.field = "status" THEN e.value ELSE t[d].status
      BY <1>1, <2>2, ApplyFacts
    <3>2. e.type = "created" => e.field = "status"
      BY EventFacts
    <3> QED BY <2>2, <3>1, <3>2 DEF Gives
  <2> QED BY <2>1, <2>2
<1> QED BY <1>2, <1>3, <1>4

\* Whatever is complete has a position, and so has the last of several.
LEMMA KeyOfMet ==
    ASSUME NEW S, NEW events \in Seq(S), Done(events), NEW t, t = Replay(Empty, events),
           NEW s, t[s].needs # {}, t[s].needs \subseteq Item, Met(t, s)
    PROVE  Key(events, t[s].needs) \in 1..Len(events)
<1>1. PICK d \in t[s].needs : Key(events, t[s].needs) = LastOf(SetAt(events, d, "completed"))
  BY KeyFacts
<1>2. t[d].there /\ t[d].status = "completed" /\ d \in Item
  BY DEF Met
<1>3. SetAt(events, d, "completed") # {}
  BY <1>2 DEF Done
<1> QED BY <1>1, <1>3, LastAppend

\* What a commit does to a task that waits after it: it became pending, or
\* what it needs was completed, or it waited before.
LEMMA WaitsAfter ==
    ASSUME NEW m \in 0..Items, NEW t \in Tables(m), NEW e \in EventSet(m),
           NEW u, u = Apply(t, e), NEW s \in Item, Waits(u, s),
           ~Gives(e, s, "pending"), \A d \in u[s].needs : ~Gives(e, d, "completed")
    PROVE  Waits(t, s) /\ u[s].needs = t[s].needs
<1>1. u \in Tables(m) /\ (e.type = "created" => e.field = "status")
  BY ApplyFacts, EventFacts
<1>2. u[s].needs \subseteq Item
  BY <1>1, RowFacts
<1>3. ASSUME NEW d \in Item, u[d].there, NEW v, u[d].status = v, ~Gives(e, d, v)
      PROVE  t[d].there /\ t[d].status = v /\ u[d].needs = t[d].needs
  <2>1. CASE d # e.item
    BY <1>3, <2>1, ApplyFacts DEF SameBut
  <2>2. CASE d = e.item
    <3>1. /\ u[d].there <=> e.type = "created" \/ (t[d].there /\ e.type # "deleted")
          /\ u[d].status = IF e.field = "status" THEN e.value ELSE t[d].status
          /\ e.type # "created" => u[d].needs = t[d].needs
      BY <1>3, <2>2, ApplyFacts
    <3> QED BY <1>1, <1>3, <2>2, <3>1 DEF Gives
  <2> QED BY <2>1, <2>2
<1>4. t[s].there /\ t[s].status = "pending" /\ u[s].needs = t[s].needs
  BY <1>3 DEF Waits
<1>5. ASSUME NEW d \in u[s].needs PROVE t[d].there /\ t[d].status = "completed"
  BY <1>2, <1>3 DEF Waits, Met
<1> QED BY <1>4, <1>5 DEF Waits, Met

\* After a commit: a task that waits is excused, or the listener is woken for
\* it, or it waited before and is still pursued.
LEMMA CommitOwes ==
    ASSUME Shape, Fold, Ready, NEW e, Emitted(e), ~past.wrong, NEW s \in Item, Waits(table', s)
    PROVE  \/ ExcusedBy(log', past'.cut, table'[s].needs, s)
           \/ Listens(e) /\ e.item \in table'[s].needs /\ Key(log', table'[s].needs) = Len(log) + 1
           \/ /\ Pursued(s) /\ table'[s].needs = table[s].needs
              /\ Key(log', table[s].needs) = Key(log, table[s].needs)
<1> DEFINE needs == table'[s].needs
           m == ids'
<1>1. /\ m \in 0..Items /\ e \in EventSet(m) /\ EventSet(ids) \subseteq EventSet(m)
      /\ table \in Tables(m) /\ past' = past
      /\ log' = Append(log, e) /\ table' = Apply(table, e)
  BY WorkTreeAssumption, EventSetGrows DEF Shape, Emitted, Emit
<1>2. log \in Seq(EventSet(m))
  BY <1>1, SeqMonotonic DEF Shape
<1>3. Len(log) \in Nat /\ log'[Len(log) + 1] = e /\ \A k \in 1..Len(log) : log'[k] = log[k]
  BY <1>1, <1>2
<1>4. table = Replay(Empty, log) /\ Done(log)
  BY DEF Fold, Folded, Ready
<1>5. needs # {} /\ needs \subseteq Item
  <2>1. table' \in Tables(m)
    BY <1>1, ApplyFacts
  <2> QED BY <1>1, <2>1, RowFacts DEF Waits
<1> HIDE DEF m, needs
<1>6. /\ (\E d \in needs : Gives(e, d, "completed")) => Key(log', needs) = Len(log) + 1
      /\ (\A d \in needs : ~Gives(e, d, "completed")) => Key(log', needs) = Key(log, needs)
      /\ Key(log, needs) \in 0..Len(log)
  BY <1>1, <1>2, <1>5, KeyAppend, KeyFacts
<1>7. /\ Gives(e, s, "pending") => LastOf(SetAt(log', s, "pending")) = Len(log) + 1
      /\ ~Gives(e, s, "pending") => LastOf(SetAt(log', s, "pending")) = LastOf(SetAt(log, s, "pending"))
  BY <1>1, <1>2, LastAppend
<1>8. CASE \E d \in needs : Gives(e, d, "completed")
  <2>1. Key(log', needs) = Len(log) + 1 /\ log'[Key(log', needs)] = e
    BY <1>3, <1>6, <1>8
  <2>2. e.value = "completed" /\ e.item \in needs /\ e.quiet \in BOOLEAN
    BY <1>1, <1>8, EventFacts DEF Gives
  <2>3. CASE e.type = "status" /\ ~e.quiet
    BY <2>1, <2>2, <2>3 DEF Listens, needs
  <2>4. CASE e.type # "status" \/ e.quiet
    BY <2>1, <2>4 DEF ExcusedBy, needs
  <2> QED BY <2>2, <2>3, <2>4
<1>9. CASE Gives(e, s, "pending") /\ \A d \in needs : ~Gives(e, d, "completed")
  <2>1. Key(log', needs) < LastOf(SetAt(log', s, "pending"))
    BY <1>3, <1>6, <1>7, <1>9
  <2> QED BY <2>1 DEF ExcusedBy, needs
<1>10. CASE ~Gives(e, s, "pending") /\ \A d \in needs : ~Gives(e, d, "completed")
  <2>1. Waits(table, s) /\ needs = table[s].needs
    BY <1>1, <1>10, WaitsAfter DEF needs
  <2>2. Key(log', needs) = Key(log, needs)
    BY <1>6, <1>10
  <2>3. Key(log, needs) \in 1..Len(log)
    BY <1>2, <1>4, <1>5, <2>1, KeyOfMet DEF Waits
  <2>4. log'[Key(log', needs)] = log[Key(log, needs)]
    BY <1>3, <2>2, <2>3
  <2>5. Excused(s) \/ Pursued(s)
    BY <2>1 DEF Ready, Owed
  <2>6. Excused(s) => ExcusedBy(log', past'.cut, needs, s)
    BY <1>1, <1>7, <1>10, <2>1, <2>2, <2>4 DEF Excused, ExcusedBy
  <2> QED BY <2>1, <2>2, <2>5, <2>6 DEF needs
<1> QED BY <1>8, <1>9, <1>10

\* No call is made while the listener is on its way.
LEMMA CallOwes ==
    ASSUME Shape, Fold, Ready, NEW e, Emitted(e), Woken(e), Free, ~past.wrong,
           NEW s \in Item, Waits(table', s)
    PROVE  Excused(s)' \/ Pursued(s)'
<1>1. ~Pursued(s)
  BY IdleType DEF Free, Pursued, Idle
<1>2. CASE Listens(e) /\ e.item \in table'[s].needs /\ Key(log', table'[s].needs) = Len(log) + 1
  <2>1. turn'.at = "listen" /\ turn'.item = e.item /\ turn'.seq = Len(log) + 1
    BY <1>2 DEF Woken, Turn
  <2> QED BY <1>2, <2>1 DEF Pursued
<1>3. ExcusedBy(log', past'.cut, table'[s].needs, s) => Excused(s)'
  BY DEF Excused
<1> QED BY <1>1, <1>2, <1>3, CommitOwes

LEMMA StartOwes ==
    ASSUME Shape, Fold, Ready, NEW i \in Item, Start(i), ~past.wrong,
           NEW s \in Item, Waits(table', s)
    PROVE  Excused(s)' \/ Pursued(s)'
<1>1. /\ turn.at = "start" /\ i \in turn.todo /\ turn' = Rest(i) /\ turn \in Turns(ids)
      /\ past' = past
  BY StartEmits DEF Shape
<1>2. ASSUME Pursued(s), s # i, Key(log', table'[s].needs) = Key(log, table[s].needs)
      PROVE  Pursued(s)'
  <2>1. turn.seq = Key(log, table[s].needs) /\ s \in turn.todo
    BY <1>1, <1>2 DEF Pursued
  <2>2. turn' = [turn EXCEPT !.todo = @ \ {i}]
    BY <1>1, <1>2, <2>1 DEF Rest
  <2>3. turn'.at = "start" /\ turn'.seq = turn.seq /\ s \in turn'.todo
    BY <1>1, <1>2, <2>1, <2>2 DEF Turns
  <2> QED BY <1>2, <2>1, <2>3 DEF Pursued
<1>3. CASE Emitted(Changed(i, "running"))
  <2> DEFINE e == Changed(i, "running")
  <2>1. e.type = "status" /\ e.field = "status" /\ e.item = i /\ e.value = "running"
    BY DEF Changed, Event
  <2> HIDE DEF e
  <2>2. ~Listens(e)
    BY <2>1 DEF Listens
  <2>3. s # i
    <3>1. ids' \in 0..Items /\ e \in EventSet(ids') /\ table \in Tables(ids') /\ table' = Apply(table, e)
      BY <1>3, EventSetGrows, WorkTreeAssumption DEF Shape, Emitted, Emit, e
    <3>2. table'[i].there => table'[i].status = "running"
      BY <2>1, <3>1, ApplyFacts
    <3> QED BY <3>2 DEF Waits
  <2>4. ExcusedBy(log', past'.cut, table'[s].needs, s) => Excused(s)'
    BY DEF Excused
  <2> QED BY <1>2, <1>3, <2>2, <2>3, <2>4, CommitOwes DEF e
<1>4. CASE ~Met(table, i) /\ UNCHANGED <<ids, log, table>>
  <2>1. Waits(table, s) /\ s # i
    BY <1>4 DEF Waits
  <2>2. Excused(s) => Excused(s)'
    BY <1>1, <1>4 DEF Excused
  <2> QED BY <1>2, <1>4, <2>1, <2>2 DEF Ready, Owed
<1> QED BY <1>3, <1>4, StartEmits

LEMMA ReadyInit == Init => Ready
<1> SUFFICES ASSUME Init PROVE Ready
  OBVIOUS
<1>1. log = <<>> /\ saved = <<>>
  BY DEF Init
<1>2. \A s \in Item : ~table[s].there
  BY DEF Init, Empty, NoRow
<1> QED BY <1>1, <1>2, DoneNone DEF Ready, Owed, Waits

LEMMA ReadyStep == Shape /\ Fold /\ Ready /\ [Next]_vars => Ready'
<1> SUFFICES ASSUME Shape, Fold, Ready, [Next]_vars PROVE Ready'
  OBVIOUS
<1>0. /\ ids \in 0..Items /\ ids' \in 0..Items
      /\ log \in Seq(EventSet(ids)) /\ Len(log) \in Nat
      /\ saved \in Seq(EventSet(ids)) /\ Len(saved) \in Nat
      /\ turn \in Turns(ids)
      /\ past = [copies |-> past.copies, cut |-> past.cut, read |-> past.read,
                 torn |-> past.torn, wrong |-> past.wrong]
      /\ past.torn \in BOOLEAN /\ past.wrong \in BOOLEAN
  <2>1. Shape'
    BY ShapeStep
  <2> QED BY <2>1, PastType DEF Shape
<1>1. Fold'
  BY FoldStep
<1>2. Done(log') /\ Done(saved')
  <2>1. ASSUME NEW e, Emitted(e) PROVE Done(log') /\ Done(saved')
    <3>1. e \in EventSet(ids') /\ log \in Seq(EventSet(ids'))
      BY <1>0, <2>1, EventSetGrows, SeqMonotonic DEF Emitted
    <3> QED BY <1>0, <2>1, <3>1, DoneAppend DEF Emitted, Emit, Ready
  <2>2. CASE UNCHANGED <<log, saved>>
    BY <2>2 DEF Ready
  <2>3. CASE Export
    BY <2>3 DEF Export, Ready
  <2>4. CASE Restore
    BY <2>4, DoneNone DEF Restore, Ready
  <2>5. [Next]_vars => (\E e : Emitted(e)) \/ UNCHANGED <<log, saved>> \/ Export \/ Restore
    BY StepKinds DEF vars, ReadLog, SaveCheckpoint, Rebuild, Crash
  <2> QED BY <2>1, <2>2, <2>3, <2>4, <2>5
<1>3. SUFFICES ASSUME ~past'.wrong, NEW s \in Item, Waits(table', s)
               PROVE  Excused(s)' \/ Pursued(s)'
  BY <1>2 DEF Ready, Owed
<1>4. ASSUME UNCHANGED <<log, table>>, past'.wrong <=> past.wrong,
             Pursued(s) => Pursued(s)', past.cut \subseteq past'.cut
      PROVE  Excused(s)' \/ Pursued(s)'
  <2>1. Excused(s) \/ Pursued(s)
    BY <1>3, <1>4 DEF Ready, Owed
  <2> QED BY <1>4, <2>1 DEF Excused, ExcusedBy
<1>5. turn.at \notin {"listen", "start"} => ~Pursued(s)
  BY DEF Pursued
<1>6. Free => turn.at \notin {"listen", "start"}
  BY DEF Free, Idle
<1>7. CASE UNCHANGED vars
  BY <1>4, <1>7 DEF vars, Pursued
<1>8. ASSUME NEW i \in Item, Call(i) PROVE Excused(s)' \/ Pursued(s)'
  <2>1. CASE DeleteGoal(i)
    BY <1>4, <1>5, <1>6, <2>1 DEF DeleteGoal
  <2>2. ASSUME NEW e, Emitted(e), Woken(e), Free PROVE Excused(s)' \/ Pursued(s)'
    BY <1>3, <2>2, CallOwes DEF Emitted
  <2> QED BY <1>8, <2>1, <2>2, CallEmits
<1>9. ASSUME NEW i \in Item, Start(i) PROVE Excused(s)' \/ Pursued(s)'
  BY <1>3, <1>9, StartOwes DEF Start
<1>10. ASSUME NEW i \in Item, DeleteNext(i) PROVE Excused(s)' \/ Pursued(s)'
  <2> DEFINE e == Deleted(i)
  <2>1. e.type = "deleted"
    BY DEF Deleted, Event
  <2> HIDE DEF e
  <2>2. turn.at = "delete" /\ Emitted(e) /\ ~past.wrong
    BY <1>3, <1>10, DeleteEmits DEF e, Emitted
  <2>3. ~Listens(e) /\ ~Pursued(s)
    BY <1>5, <2>1, <2>2 DEF Listens
  <2> QED BY <1>3, <2>2, <2>3, CommitOwes DEF Excused
<1>11. CASE Listen
  <2>1. ASSUME Pursued(s) PROVE Pursued(s)'
    <3>1. /\ turn.at = "listen" /\ turn.item \in table[s].needs
          /\ turn.seq = Key(log, table[s].needs)
          /\ UNCHANGED <<log, table>>
      BY <1>11, <2>1 DEF Listen, Pursued
    <3>2. s \in Successors(table, turn.item)
      BY <1>3, <3>1 DEF Waits, Successors
    <3>3. turn' = [turn EXCEPT !.at = "start", !.todo = Successors(table, turn.item)]
      BY <1>11, <3>2 DEF Listen
    <3>4. turn'.at = "start" /\ turn'.seq = turn.seq /\ s \in turn'.todo
      BY <1>0, <3>2, <3>3 DEF Turns
    <3> QED BY <3>1, <3>4 DEF Pursued
  <2> QED BY <1>4, <1>11, <2>1 DEF Listen
<1>12. CASE ReadLog \/ SaveCheckpoint
  <2>1. /\ turn.at \notin {"listen", "start"} /\ UNCHANGED <<log, table>>
        /\ (past'.wrong <=> past.wrong) /\ past.cut \subseteq past'.cut
    BY <1>0, <1>6, <1>12 DEF ReadLog, SaveCheckpoint
  <2> QED BY <1>4, <1>5, <2>1
<1>13. CASE Export
  <2>1. UNCHANGED <<log, table, turn>> /\ (past'.wrong <=> past.wrong) /\ past'.cut = past.cut
    BY <1>0, <1>13 DEF Export
  <2> QED BY <1>4, <2>1 DEF Pursued
<1>14. CASE Rebuild
  <2>1. UNCHANGED <<log, turn>> /\ (past'.wrong <=> past.torn) /\ past'.cut = past.cut /\ Free
    BY <1>0, <1>14 DEF Rebuild
  <2>2. ~past.wrong /\ table = Replay(Empty, log)
    BY <1>3, <2>1 DEF Fold, Folded
  <2>3. table' = table
    BY <1>1, <1>3, <2>1, <2>2 DEF Fold, Folded
  <2> QED BY <1>3, <1>4, <1>5, <1>6, <2>1, <2>2, <2>3
<1>15. CASE Restore
  <2>1. /\ log' = saved /\ table' = Replay(Empty, saved) /\ past'.cut = 1..Len(saved)
    BY <1>0, <1>15 DEF Restore
  <2>2. Done(saved) /\ table'[s].needs # {} /\ Met(table', s)
    BY <1>3 DEF Ready, Waits
  <2>3. table'[s].needs \subseteq Item
    BY <1>0, <2>1, EmptyType, ReplayType, RowFacts
  <2>4. Key(log', table'[s].needs) \in 1..Len(saved)
    BY <1>0, <2>1, <2>2, <2>3, KeyOfMet
  <2> QED BY <2>1, <2>4 DEF Excused, ExcusedBy
<1>16. CASE Crash
  <2>1. /\ UNCHANGED <<log, table>> /\ (past'.wrong <=> past.wrong) /\ past.cut \subseteq past'.cut
        /\ turn.at \in {"listen", "start"} /\ turn.seq <= Len(log) => turn.seq \in past'.cut
    BY <1>0, <1>16 DEF Crash
  <2>2. CASE Pursued(s)
    <3>1. turn.at \in {"listen", "start"} /\ turn.seq = Key(log, table[s].needs) /\ table[s].needs # {}
      BY <1>3, <2>1, <2>2 DEF Pursued, Waits
    <3>2. turn.seq <= Len(log)
      BY <1>0, <3>1, KeyFacts
    <3> QED BY <2>1, <3>1, <3>2 DEF Excused, ExcusedBy
  <2> QED BY <1>4, <2>1, <2>2
<1> QED BY <1>7, <1>8, <1>9, <1>10, <1>11, <1>12, <1>13, <1>14, <1>15, <1>16 DEF Next

\* Whatever calls, tools, restores and deaths come between: a task that waited
\* for others is started once the last of them completed, unless that was a
\* PATCH or an undo, or the listener was cut off.
THEOREM ReadyCorrect == Spec => []ReadyIsStarted
<1>1. Init => Shape /\ Fold /\ Ready
  BY ShapeInit, FoldInit, ReadyInit
<1>2. Shape /\ Fold /\ Ready /\ [Next]_vars => (Shape /\ Fold /\ Ready)'
  BY ShapeStep, FoldStep, ReadyStep
<1>3. Ready => ReadyIsStarted
  <2> SUFFICES ASSUME Ready, Free, ~past.wrong, NEW s \in Item, Waits(table, s)
               PROVE  LET k == Max({CompletedAt(d) : d \in table[s].needs}) IN
                          \/ k < MadePending(s)
                          \/ log[k].type # "status" \/ log[k].quiet
                          \/ k \in past.cut
    BY DEF ReadyIsStarted, Waits
  <2>1. ~Pursued(s)
    BY DEF Free, Idle, Pursued
  <2>2. Excused(s)
    BY <2>1 DEF Ready, Owed
  <2>3. {CompletedAt(d) : d \in table[s].needs} =
            {LastOf(SetAt(log, d, "completed")) : d \in table[s].needs}
    BY LastSetAt
  <2>4. Max({CompletedAt(d) : d \in table[s].needs}) = Key(log, table[s].needs)
    BY <2>3 DEF Key
  <2> QED BY <2>2, <2>4, LastSetAt DEF Excused, ExcusedBy
<1> QED BY <1>1, <1>2, <1>3, PTL DEF Spec
----------------------------------------------------------------------------
(* Progress is that of the children.                                      *)

SetsAt(events, g) == {k \in 1..Len(events) : Sets(events[k], g)}
CountsAt(events, g) == {k \in 1..Len(events) : Counts(events[k], g)}

LEMMA LastSets ==
    \A g : /\ SelectLastInSeq(log, LAMBDA e : Sets(e, g)) = LastOf(SetsAt(log, g))
           /\ SelectLastInSeq(log, LAMBDA e : Counts(e, g)) = LastOf(CountsAt(log, g))
BY DEF SelectLastInSeq, LastOf, SetsAt, CountsAt

LEMMA SetsAppend ==
    ASSUME NEW S, NEW events \in Seq(S), NEW e, NEW g
    PROVE  /\ Sets(e, g) => LastOf(SetsAt(Append(events, e), g)) = Len(events) + 1
           /\ ~Sets(e, g) => LastOf(SetsAt(Append(events, e), g)) = LastOf(SetsAt(events, g))
<1> DEFINE n == Len(events)
           more == Append(events, e)
<1>1. n \in Nat /\ Len(more) = n + 1 /\ more[n + 1] = e /\ \A k \in 1..n : more[k] = events[k]
  OBVIOUS
<1> HIDE DEF n, more
<1>2. SetsAt(events, g) = {k \in 1..n : Sets(events[k], g)}
  BY DEF SetsAt, n
<1>3. SetsAt(more, g) = {k \in 1..n : Sets(events[k], g)} \union {k \in {n + 1} : Sets(e, g)}
  <2>1. SetsAt(more, g) = {k \in 1..(n + 1) : Sets(more[k], g)}
    BY <1>1 DEF SetsAt
  <2> QED BY <1>1, <2>1
<1>4. /\ Sets(e, g) => {k \in {n + 1} : Sets(e, g)} = {n + 1}
      /\ ~Sets(e, g) => {k \in {n + 1} : Sets(e, g)} = {}
  OBVIOUS
<1>5. SetsAt(events, g) \in SUBSET (1..n)
  BY <1>2
<1>6. LastOf(SetsAt(events, g) \union {n + 1}) = n + 1
  BY <1>1, <1>5, LastFacts
<1>7. Sets(e, g) => SetsAt(more, g) = SetsAt(events, g) \union {n + 1}
  BY <1>2, <1>3, <1>4
<1>8. ~Sets(e, g) => SetsAt(more, g) = SetsAt(events, g)
  BY <1>2, <1>3, <1>4
<1> QED BY <1>6, <1>7, <1>8 DEF n, more

LEMMA CountsAppend ==
    ASSUME NEW S, NEW events \in Seq(S), NEW e, NEW g
    PROVE  /\ LastOf(CountsAt(events, g)) \in 0..Len(events)
           /\ ~Counts(e, g) => LastOf(CountsAt(Append(events, e), g)) = LastOf(CountsAt(events, g))
<1> DEFINE n == Len(events)
           more == Append(events, e)
<1>1. n \in Nat /\ Len(more) = n + 1 /\ more[n + 1] = e /\ \A k \in 1..n : more[k] = events[k]
  OBVIOUS
<1> HIDE DEF n, more
<1>2. CountsAt(events, g) = {k \in 1..n : Counts(events[k], g)}
  BY DEF CountsAt, n
<1>3. CountsAt(events, g) \in SUBSET (1..n)
  BY <1>2
<1>4. LastOf(CountsAt(events, g)) \in 0..n
  BY <1>1, <1>3, LastFacts
<1>5. ASSUME ~Counts(e, g) PROVE CountsAt(more, g) = CountsAt(events, g)
  <2>1. CountsAt(more, g) = {k \in 1..(n + 1) : Counts(more[k], g)}
    BY <1>1 DEF CountsAt
  <2> QED BY <1>1, <1>2, <1>5, <2>1
<1> QED BY <1>4, <1>5 DEF n, more

\* The progress of a goal is the share of its children, unless it was set, or
\* its children changed, after they were counted last.
CurrentAt(events, g) ==
    Replay(Empty, events)[g].there =>
        \/ Replay(Empty, events)[g].progress = Ratio(Replay(Empty, events), g)
        \/ LastOf(SetsAt(events, g)) >= LastOf(CountsAt(events, g))

Current(events) == \A g \in Goal : CurrentAt(events, g)

Progress == Current(log) /\ Current(saved)

LEMMA CurrentNone == Current(<<>>)
<1>1. Replay(Empty, <<>>) = Empty
  BY ReplayNone
<1>2. \A g \in Goal : ~Empty[g].there
  BY WorkTreeAssumption DEF Empty, NoRow
<1> QED BY <1>1, <1>2 DEF Current, CurrentAt

\* A new goal has no children yet.
LEMMA NewGoal ==
    ASSUME NEW m \in 0..Items, NEW t \in Tables(m), NEW i \in Item, i = m + 1,
           NEW u, \A j \in Item : j # i => SameBut(u[j], t[j]),
           u[i].parent # i
    PROVE  Ratio(u, i) = 0
<1>1. ASSUME NEW j \in Item PROVE u[j].parent # i
  <2>1. CASE j = i
    BY <2>1
  <2>2. CASE j # i
    <3>1. u[j].parent = t[j].parent /\ t[j].parent <= m
      BY <2>2 DEF SameBut, Tables
    <3> QED BY <3>1
  <2> QED BY <2>1, <2>2
<1>2. Children(u, i) = {}
  BY <1>1 DEF Children
<1> QED BY <1>2 DEF Ratio

\* An event that neither counts the children of g nor changes them without a
\* count leaves their share as it is.
LEMMA ShareKept ==
    ASSUME NEW m \in 0..Items, NEW t \in Tables(m), NEW e \in EventSet(m),
           NEW u, u = Apply(t, e), NEW g \in Goal,
           Counted(t, e) # g, ~Sets(e, g), e.type # "created" => e.parent = t[e.item].parent,
           e.type = "created" => ~t[e.item].there
    PROVE  Ratio(u, g) = Ratio(t, g)
<1>1. /\ e.item \in Item
      /\ e.type = "created" => e.field = "status"
      /\ e.type = "status" => e.field = "status"
  BY EventFacts
<1>2. \A j \in Item : j # e.item => SameBut(u[j], t[j])
  BY ApplyFacts
<1>3. /\ u[e.item].there <=> e.type = "created" \/ (t[e.item].there /\ e.type # "deleted")
      /\ e.type = "created" => u[e.item].parent = e.parent
      /\ u[e.item].there =>
             u[e.item].status = IF e.field = "status" THEN e.value ELSE t[e.item].status
      /\ e.type # "created" /\ e.field # "parent" /\ u[e.item].there =>
             u[e.item].parent = t[e.item].parent
      /\ e.field = "parent" /\ u[e.item].there => u[e.item].parent = e.value
  BY ApplyFacts
<1>4. t[e.item].there \in BOOLEAN
  BY <1>1, RowFacts
<1>5. CASE e.type \in {"created", "status", "deleted"} \/ e.field = "status"
  <2>1. ~(u[e.item].there /\ u[e.item].parent = g) /\ ~(t[e.item].there /\ t[e.item].parent = g)
    BY <1>1, <1>3, <1>5 DEF Counted
  <2> QED BY <1>2, <2>1, RatioSame DEF SameBut
<1>6. CASE ~(e.type \in {"created", "status", "deleted"} \/ e.field = "status")
  <2>1. e.type = "updated" /\ e.field \in {"progress", "parent"}
    BY <1>6, EventFacts
  <2>2. CASE e.field = "parent"
    <3>1. ~(u[e.item].there /\ u[e.item].parent = g) /\ ~(t[e.item].there /\ t[e.item].parent = g)
      BY <1>3, <2>1, <2>2 DEF Sets
    <3> QED BY <1>2, <3>1, RatioSame DEF SameBut
  <2>3. CASE e.field = "progress"
    <3>1. /\ u[e.item].there <=> t[e.item].there
          /\ u[e.item].there => u[e.item].parent = t[e.item].parent /\ u[e.item].status = t[e.item].status
      BY <1>3, <2>1, <2>3
    <3> QED BY <1>2, <3>1, RatioSame DEF SameBut
  <2> QED BY <2>1, <2>2, <2>3
<1> QED BY <1>5, <1>6

LEMMA CurrentAppend ==
    ASSUME NEW m \in 0..Items, NEW n \in 0..Items, m <= n,
           NEW events \in Seq(EventSet(m)), NEW e \in EventSet(n),
           e.type = "created" => e.item = m + 1 /\ e.parent <= m,
           e.type # "created" => e.parent = Replay(Empty, events)[e.item].parent,
           Current(events)
    PROVE  Current(Append(events, e))
<1> DEFINE t == Replay(Empty, events)
           more == Append(events, e)
           u == Replay(Empty, more)
<1>0. m \in Nat /\ n \in Nat
  BY WorkTreeAssumption
<1>1. events \in Seq(EventSet(n)) /\ EventSet(m) \subseteq EventSet(n) /\ Tables(m) \subseteq Tables(n)
  BY <1>0, EventSetGrows, SeqMonotonic
<1>2. t \in Tables(m) /\ t \in Tables(n) /\ u = Apply(t, e)
  BY <1>1, EmptyType, ReplayType, ReplayAppend
<1>3. e.item \in Item /\ e.parent \in Nat /\ (e.type = "created" => e.field = "status")
  BY <1>0, EventFacts
<1>4. e.type = "created" => ~t[e.item].there
  <2> SUFFICES ASSUME e.type = "created", t[e.item].there PROVE FALSE
    OBVIOUS
  <2>1. e.item = m + 1 /\ e.item <= m
    BY <1>2, <1>3 DEF Tables
  <2> QED BY <1>0, <2>1
<1> SUFFICES ASSUME NEW g \in Goal, u[g].there PROVE CurrentAt(more, g)
  BY DEF Current, CurrentAt
<1>5. t[g].there => \/ t[g].progress = Ratio(t, g)
                    \/ LastOf(SetsAt(events, g)) >= LastOf(CountsAt(events, g))
  BY DEF Current, CurrentAt
<1>6. /\ Sets(e, g) => LastOf(SetsAt(more, g)) = Len(events) + 1
      /\ ~Sets(e, g) => LastOf(SetsAt(more, g)) = LastOf(SetsAt(events, g))
      /\ ~Counts(e, g) => LastOf(CountsAt(more, g)) = LastOf(CountsAt(events, g))
      /\ LastOf(CountsAt(events, g)) \in 0..Len(events)
      /\ Len(events) \in Nat
  BY SetsAppend, CountsAppend
<1>7. g \in Item /\ g # 0
  BY WorkTreeAssumption DEF Item
<1> HIDE DEF t, u, more
<1>8. Counts(e, g) => Counted(t, e) = g
  BY <1>3 DEF Counts, Counted, t
<1>9. CASE Counted(t, e) = g
  <2>1. u[g].progress = Ratio(u, g)
    BY <1>2, <1>9, ApplyProgress
  <2> QED BY <2>1 DEF CurrentAt, u
<1>10. CASE Counted(t, e) # g /\ e.type = "created" /\ e.item = g
  <2>1. u[g].progress = 0
    BY <1>2, <1>10, ApplyProgress
  <2>2. \A j \in Item : j # g => SameBut(u[j], t[j])
    BY <1>2, <1>10, ApplyFacts
  <2>3. u[g].parent # g
    <3>1. u[g].parent = e.parent
      BY <1>2, <1>10, ApplyFacts
    <3> QED BY <1>0, <1>3, <1>10, <3>1
  <2>4. Ratio(u, g) = 0
    BY <1>2, <1>7, <1>10, <2>2, <2>3, NewGoal
  <2> QED BY <2>1, <2>4 DEF CurrentAt, u
<1>11. CASE Counted(t, e) # g /\ Sets(e, g)
  <2>1. LastOf(SetsAt(more, g)) >= LastOf(CountsAt(more, g))
    BY <1>6, <1>8, <1>11
  <2> QED BY <2>1 DEF CurrentAt
<1>12. CASE Counted(t, e) # g /\ ~(e.type = "created" /\ e.item = g) /\ ~Sets(e, g)
  <2>1. t[g].there /\ u[g].progress = t[g].progress
    BY <1>2, <1>12, ApplyProgress DEF Sets
  <2>2. Ratio(u, g) = Ratio(t, g)
    BY <1>2, <1>4, <1>12, ShareKept DEF t
  <2>3. ~Counts(e, g)
    BY <1>8, <1>12
  <2> QED BY <1>5, <1>6, <1>12, <2>1, <2>2, <2>3 DEF CurrentAt, u
<1> QED BY <1>9, <1>10, <1>11, <1>12

LEMMA ProgressStep == Shape /\ Progress /\ [Next]_vars => Progress'
<1> SUFFICES ASSUME Shape, Progress, [Next]_vars PROVE Progress'
  OBVIOUS
<1>1. ASSUME NEW e, Emitted(e) PROVE Current(log') /\ Current(saved')
  <2>1. /\ ids \in 0..Items /\ ids' \in 0..Items /\ ids <= ids' /\ log \in Seq(EventSet(ids))
        /\ e \in EventSet(ids')
        /\ e.type = "created" => e.item = ids + 1 /\ e.parent <= ids
        /\ e.type # "created" => e.parent = Replay(Empty, log)[e.item].parent
        /\ log' = Append(log, e) /\ saved' = saved
    BY <1>1 DEF Shape, Emitted, Emit
  <2> QED BY <2>1, CurrentAppend DEF Progress
<1>2. CASE UNCHANGED <<log, saved>>
  BY <1>2 DEF Progress
<1>3. CASE Export
  BY <1>3 DEF Export, Progress
<1>4. CASE Restore
  BY <1>4, CurrentNone DEF Restore, Progress
<1>5. (\E e : Emitted(e)) \/ UNCHANGED <<log, saved>> \/ Export \/ Restore
  BY StepKinds DEF vars, ReadLog, SaveCheckpoint, Rebuild, Crash
<1> QED BY <1>1, <1>2, <1>3, <1>4, <1>5 DEF Progress

\* The progress of a goal is the share of its children that are completed, as
\* long as it was not set by hand, the goal not completed and no child moved
\* after the children were counted last.
THEOREM ProgressCorrect == Spec => []ProgressIsCurrent
<1>1. Init => Shape /\ Fold /\ Progress
  BY ShapeInit, FoldInit, CurrentNone DEF Init, Progress
<1>2. Shape /\ Fold /\ Progress /\ [Next]_vars => (Shape /\ Fold /\ Progress)'
  BY ShapeStep, FoldStep, ProgressStep
<1>3. Fold /\ Progress => ProgressIsCurrent
  BY LastSets DEF Fold, Folded, Progress, Current, CurrentAt, ProgressIsCurrent
<1> QED BY <1>1, <1>2, <1>3, PTL DEF Spec
=============================================================================
