------------------------- MODULE BriefDeliveryProofs -------------------------
(***************************************************************************)
(* Proofs about the delivery of a project brief, for every bound on the    *)
(* number of executions and faults and every retry budget.                 *)
(*                                                                         *)
(* The code folds the log of a brief again and again: for its status, for  *)
(* what carried it, for the request that is the current one. The first     *)
(* part replaces each fold by a position in the log, 0 for none, and a     *)
(* count; Folds and FoldsNext say so before and after a step, and          *)
(* EmitStatus, EmitRequest, EmitDecision and NoEmit what one appended      *)
(* entry makes of them. No later proof looks into the log but through      *)
(* these.                                                                  *)
(*                                                                         *)
(* The second part is the inductive invariant, Inv. Shape says which       *)
(* commits a chain has and what its owner knows at each of them; the other *)
(* parts are about what survives between two chains. The third part shows  *)
(* that each action keeps it, one lemma per action, and each lemma has a   *)
(* step per part of Inv. The last derives the properties.                  *)
(***************************************************************************)
EXTENDS BriefDelivery, SequenceTheorems, FunctionTheorems, FiniteSetTheorems, TLAPS
----------------------------------------------------------------------------
(* Positions in a log, and how many there are.                             *)

\* A set of naturals with 0 and, with each of its members, the next is Nat.
LEMMA NatInd ==
    ASSUME NEW S \in SUBSET Nat, 0 \in S, \A n \in S : n + 1 \in S
    PROVE  S = Nat
<1> DEFINE Rest0 == Nat \ S
<1>1. SUFFICES ASSUME Rest0 # {} PROVE FALSE
  OBVIOUS
<1>2. IsWellFoundedOn({p \in Nat \X Nat : p[1] < p[2]}, Nat)
  BY NatLessThanWellFounded, Zenon DEF OpToRel
<1>3. PICK x \in Rest0 : \A y \in Rest0 : ~(<<y, x>> \in {p \in Nat \X Nat : p[1] < p[2]})
  <2>1. Rest0 \subseteq Nat /\ Rest0 # {}
    BY <1>1
  <2> HIDE DEF Rest0
  <2> QED BY <1>2, <2>1, WFMin
<1>4. \A y \in Rest0 : ~(y < x)
  BY <1>3
<1>5. x \in Nat /\ x \notin S /\ x # 0
  OBVIOUS
<1>6. x - 1 \in Nat /\ x - 1 \in S
  BY <1>4, <1>5
<1> QED BY <1>5, <1>6

\* A bounded set of naturals that is not empty has a greatest member.
LEMMA MaxFacts ==
    ASSUME NEW n \in Nat, NEW I \in SUBSET (0..n), I # {}
    PROVE  Max(I) \in I /\ \A x \in I : x <= Max(I)
<1> DEFINE S == {m \in Nat : (\E x \in I : x >= m)}
<1>1. \E x \in I : \A y \in I : x >= y
  <2>1. SUFFICES ASSUME \A x \in I : \E y \in I : ~(x >= y) PROVE FALSE
    OBVIOUS
  <2>2. 0 \in S
    <3>1. PICK x \in I : TRUE
      OBVIOUS
    <3>2. x \in Nat /\ x >= 0
      OBVIOUS
    <3> QED BY <3>2
  <2>3. ASSUME NEW m \in S PROVE m + 1 \in S
    <3>1. PICK x \in I : x >= m
      OBVIOUS
    <3>2. PICK y \in I : ~(x >= y)
      BY <2>1
    <3>3. y \in Nat /\ x \in Nat /\ m \in Nat
      OBVIOUS
    <3>4. y >= m + 1
      BY <3>1, <3>2, <3>3
    <3> QED BY <3>3, <3>4
  <2>4. S = Nat
    <3>1. S \in SUBSET Nat
      OBVIOUS
    <3> HIDE DEF S
    <3> QED BY <2>2, <2>3, <3>1, NatInd
  <2>5. n + 1 \in S
    BY <2>4
  <2> QED BY <2>5
<1>2. Max(I) \in I /\ \A y \in I : Max(I) >= y
  BY <1>1 DEF Max
<1>3. \A x \in I : x \in Nat
  OBVIOUS
<1> QED BY <1>2, <1>3

LastOf(I) == IF I # {} THEN Max(I) ELSE 0

\* The last of a set of positions, before and after one more is added.
LEMMA LastFacts ==
    ASSUME NEW n \in Nat, NEW I \in SUBSET (1..n)
    PROVE  /\ LastOf(I) \in 0..n
           /\ I # {} => LastOf(I) \in I
           /\ \A x \in I : x <= LastOf(I)
           /\ LastOf(I \union {n + 1}) = n + 1
<1>1. I \in SUBSET (0..n) /\ I \union {n + 1} \in SUBSET (0..(n + 1)) /\ n + 1 \in Nat
  OBVIOUS
<1>2. I # {} => Max(I) \in I /\ \A x \in I : x <= Max(I)
  BY <1>1, MaxFacts
<1> DEFINE J == I \union {n + 1}
<1>3. J \in SUBSET (0..(n + 1)) /\ J # {} /\ n + 1 \in J /\ \A x \in J : x \in Nat /\ x <= n + 1
  BY <1>1
<1> HIDE DEF J
<1>4. Max(J) \in J /\ n + 1 <= Max(J)
  BY <1>1, <1>3, MaxFacts
<1>5. LastOf(J) = n + 1
  <2>1. LastOf(J) = Max(J)
    BY <1>3 DEF LastOf
  <2>2. Max(J) \in Nat /\ Max(J) <= n + 1
    BY <1>3, <1>4
  <2> QED BY <1>1, <1>4, <2>1, <2>2
<1>6. LastOf(I) \in 0..n /\ (I # {} => LastOf(I) \in I) /\ \A x \in I : x <= LastOf(I)
  <2>1. CASE I = {}
    BY <2>1 DEF LastOf
  <2>2. CASE I # {}
    <3>1. LastOf(I) = Max(I)
      BY <2>2 DEF LastOf
    <3> QED BY <1>1, <1>2, <2>2, <3>1
  <2> QED BY <2>1, <2>2
<1> QED BY <1>5, <1>6 DEF J

\* The positions of a log that hold an event of a set, the last of them, 0 for
\* none, and their number.
Places(events, T) == {k \in 1..Len(events) : events[k] \in T}
LastIn(events, T) == LastOf(Places(events, T))
CountIn(events, T) == Cardinality(Places(events, T))

\* The places of events in a log are positions of it.
LEMMA PlacesType ==
    ASSUME NEW S, NEW events \in Seq(S), NEW T
    PROVE  Len(events) \in Nat /\ Places(events, T) \in SUBSET (1..Len(events))
BY DEF Places

\* An appended entry adds its own position or none.
LEMMA PlacesAppend ==
    ASSUME NEW S, NEW events \in Seq(S), NEW e, NEW T
    PROVE  /\ e \in T => Places(Append(events, e), T) = Places(events, T) \union {Len(events) + 1}
           /\ e \notin T => Places(Append(events, e), T) = Places(events, T)
<1> DEFINE n == Len(events)
           more == Append(events, e)
<1>1. n \in Nat /\ Len(more) = n + 1 /\ more[n + 1] = e /\ \A k \in 1..n : more[k] = events[k]
  OBVIOUS
<1> HIDE DEF n, more
<1>2. Places(events, T) = {k \in 1..n : events[k] \in T}
  BY DEF Places, n
<1>3. Places(more, T) = {k \in 1..(n + 1) : more[k] \in T}
  BY <1>1 DEF Places
<1>4. {k \in 1..(n + 1) : more[k] \in T} =
          {k \in 1..n : events[k] \in T} \union {k \in {n + 1} : e \in T}
  BY <1>1
<1>5. /\ e \in T => {k \in {n + 1} : e \in T} = {n + 1}
      /\ e \notin T => {k \in {n + 1} : e \in T} = {}
  OBVIOUS
<1> QED BY <1>2, <1>3, <1>4, <1>5 DEF n, more

\* The last event of a set, and what an appended entry makes of it.
LEMMA LastInFacts ==
    ASSUME NEW S, NEW events \in Seq(S), NEW T
    PROVE  /\ LastIn(events, T) \in 0..Len(events)
           /\ LastIn(events, T) # 0 => events[LastIn(events, T)] \in T
           /\ \A k \in 1..Len(events) : events[k] \in T => k <= LastIn(events, T)
           /\ \A e : e \in T => LastIn(Append(events, e), T) = Len(events) + 1
           /\ \A e : e \notin T => LastIn(Append(events, e), T) = LastIn(events, T)
<1> DEFINE I == Places(events, T)
<1>1. Len(events) \in Nat /\ I \in SUBSET (1..Len(events))
  BY PlacesType
<1>2. /\ LastOf(I) \in 0..Len(events)
      /\ I # {} => LastOf(I) \in I
      /\ \A x \in I : x <= LastOf(I)
      /\ LastOf(I \union {Len(events) + 1}) = Len(events) + 1
  <2> HIDE DEF I
  <2> QED BY <1>1, LastFacts
<1>3. \A k : k \in I <=> k \in 1..Len(events) /\ events[k] \in T
  BY DEF Places
<1>4. I = {} => LastOf(I) = 0
  BY DEF LastOf
<1>5. LastIn(events, T) = LastOf(I)
  BY DEF LastIn
<1>6. ASSUME NEW e
      PROVE  /\ e \in T => LastIn(Append(events, e), T) = Len(events) + 1
             /\ e \notin T => LastIn(Append(events, e), T) = LastIn(events, T)
  BY <1>2, PlacesAppend DEF LastIn
<1> HIDE DEF I
<1> QED BY <1>2, <1>3, <1>4, <1>5, <1>6

\* The same of the number of such events.
LEMMA CountInFacts ==
    ASSUME NEW S, NEW events \in Seq(S), NEW T
    PROVE  /\ CountIn(events, T) \in Nat
           /\ CountIn(events, T) = 0 <=> LastIn(events, T) = 0
           /\ \A e : e \in T => CountIn(Append(events, e), T) = CountIn(events, T) + 1
           /\ \A e : e \notin T => CountIn(Append(events, e), T) = CountIn(events, T)
<1> DEFINE I == Places(events, T)
<1>1. Len(events) \in Nat /\ I \in SUBSET (1..Len(events))
  BY PlacesType
<1>2. IsFiniteSet(I) /\ Cardinality(I) \in Nat
  <2>1. IsFiniteSet(1..Len(events))
    BY <1>1, FS_Interval
  <2> QED BY <1>1, <2>1, FS_Subset, FS_CardinalityType
<1>3. Cardinality(I) = 0 <=> I = {}
  BY <1>2, FS_EmptySet
<1>4. LastOf(I) = 0 <=> I = {}
  <2> HIDE DEF I
  <2>1. I # {} => LastOf(I) \in I
    BY <1>1, LastFacts
  <2>2. I = {} => LastOf(I) = 0
    BY DEF LastOf
  <2> QED BY <1>1, <2>1, <2>2
<1>5. ASSUME NEW e, e \in T PROVE CountIn(Append(events, e), T) = CountIn(events, T) + 1
  <2>1. Places(Append(events, e), T) = I \union {Len(events) + 1}
    BY <1>5, PlacesAppend
  <2>2. Len(events) + 1 \notin I
    BY <1>1
  <2>3. Cardinality(I \union {Len(events) + 1}) = Cardinality(I) + 1
    BY <1>2, <2>2, FS_AddElement
  <2> QED BY <2>1, <2>3 DEF CountIn
<1>6. ASSUME NEW e, e \notin T PROVE CountIn(Append(events, e), T) = CountIn(events, T)
  BY <1>6, PlacesAppend DEF CountIn
<1> QED BY <1>2, <1>3, <1>4, <1>5, <1>6 DEF CountIn, LastIn
----------------------------------------------------------------------------
(* What the code folds from the log, as positions in it.                   *)

StatusEntry   == [kind : {"status"}, what : Statuses, why : Whys, of : Nat]
RequestEntry  == [kind : {"request"}, what : Callers, why : {"none"}, of : Nat]
DecisionEntry == [kind : {"decision"}, what : Reviews, why : {"none"}, of : Nat]
RunningEntry  == {e \in StatusEntry : e.what = "running"}
ReviewOf(v)   == {e \in DecisionEntry : e.of = v}
Entry         == StatusEntry \union RequestEntry \union DecisionEntry

\* The last status, what carried it, and the status before it.
Why        == log[LastStatus].why
StampedBy  == log[LastRunning].of
Before     == SelectLastInSubSeq(log, 1, LastStatus - 1, IsStatus)
BeforeWhat == log[Before].what

\* An entry is of one kind, and has the fields of that kind.
LEMMA EntryFacts ==
    ASSUME NEW e \in Entry
    PROVE  /\ e.kind \in {"status", "request", "decision"}
           /\ e.of \in Nat /\ e.why \in Whys
           /\ e.kind = "status" <=> e \in StatusEntry
           /\ e.kind = "request" <=> e \in RequestEntry
           /\ e.kind = "decision" <=> e \in DecisionEntry
           /\ e \in StatusEntry => e.what \in Statuses
           /\ e \in RequestEntry => e.what \in Callers /\ e.why = "none"
           /\ e \in DecisionEntry => e.what \in Reviews /\ e.why = "none"
BY DEF Entry, StatusEntry, RequestEntry, DecisionEntry, Whys

\* What the model folds from the log, as positions and counts.
LEMMA Folds ==
    log \in Seq(Entry) =>
        /\ LastStatus = LastIn(log, StatusEntry)
        /\ LastRequest = LastIn(log, RequestEntry)
        /\ LastRunning = LastIn(log, RunningEntry)
        /\ Requests = CountIn(log, RequestEntry)
        /\ Latest = LastIn(log, ReviewOf(Current))
        /\ Before = LastOf({k \in 1..(LastStatus - 1) : log[k] \in StatusEntry})
<1> SUFFICES ASSUME log \in Seq(Entry)
             PROVE  /\ LastStatus = LastIn(log, StatusEntry)
                    /\ LastRequest = LastIn(log, RequestEntry)
                    /\ LastRunning = LastIn(log, RunningEntry)
                    /\ Requests = CountIn(log, RequestEntry)
                    /\ Latest = LastIn(log, ReviewOf(Current))
                    /\ Before = LastOf({k \in 1..(LastStatus - 1) : log[k] \in StatusEntry})
  OBVIOUS
<1>1. \A k \in 1..Len(log) :
        /\ IsStatus(log[k]) <=> log[k] \in StatusEntry
        /\ IsRequest(log[k]) <=> log[k] \in RequestEntry
        /\ (IsStatus(log[k]) /\ log[k].what = "running") <=> log[k] \in RunningEntry
        /\ (log[k].kind = "decision" /\ log[k].of = Current) <=> log[k] \in ReviewOf(Current)
  <2>1. \A k \in 1..Len(log) : log[k] \in Entry
    OBVIOUS
  <2> QED BY <2>1, EntryFacts DEF IsStatus, IsRequest, RunningEntry, ReviewOf
<1>2. LastStatus = LastIn(log, StatusEntry)
  <2>1. {k \in 1..Len(log) : IsStatus(log[k])} = Places(log, StatusEntry)
    BY <1>1 DEF Places
  <2> QED BY <2>1 DEF LastStatus, SelectLastInSeq, LastIn, LastOf
<1>3. LastRequest = LastIn(log, RequestEntry)
  <2>1. {k \in 1..Len(log) : IsRequest(log[k])} = Places(log, RequestEntry)
    BY <1>1 DEF Places
  <2> QED BY <2>1 DEF LastRequest, SelectLastInSeq, LastIn, LastOf
<1>4. LastRunning = LastIn(log, RunningEntry)
  <2>1. {k \in 1..Len(log) : IsStatus(log[k]) /\ log[k].what = "running"} = Places(log, RunningEntry)
    BY <1>1 DEF Places
  <2> QED BY <2>1 DEF LastRunning, SelectLastInSeq, LastIn, LastOf
<1>5. Requests = CountIn(log, RequestEntry)
  <2>1. {k \in 1..Len(log) : IsRequest(log[k])} = Places(log, RequestEntry)
    BY <1>1 DEF Places
  <2> QED BY <2>1 DEF Requests, CountIn
<1>6. Latest = LastIn(log, ReviewOf(Current))
  <2>1. {k \in 1..Len(log) : log[k].kind = "decision" /\ log[k].of = Current} = Places(log, ReviewOf(Current))
    BY <1>1 DEF Places
  <2> QED BY <2>1 DEF Latest, SelectLastInSeq, LastIn, LastOf
<1>7. Before = LastOf({k \in 1..(LastStatus - 1) : log[k] \in StatusEntry})
  <2>1. LastStatus \in 0..Len(log) /\ Len(log) \in Nat
    BY <1>2, LastInFacts
  <2>2. \A k \in 1..(LastStatus - 1) : k \in 1..Len(log)
    BY <2>1
  <2>3. {k \in 1..(LastStatus - 1) : IsStatus(log[k])} = {k \in 1..(LastStatus - 1) : log[k] \in StatusEntry}
    BY <1>1, <2>2
  <2> QED BY <2>3 DEF Before, SelectLastInSubSeq, LastOf
<1> QED BY <1>2, <1>3, <1>4, <1>5, <1>6, <1>7

LogOK == log \in Seq(Entry) /\ LastStatus >= 1

\* How these positions lie to each other.
LEMMA LogFacts ==
    LogOK =>
        /\ Len(log) \in Nat /\ LastStatus \in 1..Len(log) /\ LastRequest \in 0..Len(log)
        /\ LastRunning \in 0..LastStatus /\ Before \in 0..(LastStatus - 1)
        /\ Requests \in Nat /\ (Requests = 0 <=> LastRequest = 0)
        /\ WorkStatus \in Statuses /\ Why \in Whys
        /\ Before # 0 => BeforeWhat \in Statuses
        /\ LastRunning # 0 => StampedBy \in Nat /\ log[LastRunning] \in StatusEntry
        /\ WorkStatus = "running" <=> LastRunning = LastStatus
        /\ LastRequest # LastStatus
        /\ LastRequest # 0 => log[LastRequest] \in RequestEntry
        /\ \A k \in 1..Len(log) : IsStatus(log[k]) => k <= LastStatus
        /\ \A k \in 1..Len(log) : IsRequest(log[k]) => k <= LastRequest
        /\ \A k \in 1..Len(log) : log[k] \in Entry
        /\ log[LastStatus] \in StatusEntry
<1> SUFFICES ASSUME log \in Seq(Entry), LastStatus >= 1
             PROVE  /\ Len(log) \in Nat /\ LastStatus \in 1..Len(log) /\ LastRequest \in 0..Len(log)
                    /\ LastRunning \in 0..LastStatus /\ Before \in 0..(LastStatus - 1)
                    /\ Requests \in Nat /\ (Requests = 0 <=> LastRequest = 0)
                    /\ WorkStatus \in Statuses /\ Why \in Whys
                    /\ Before # 0 => BeforeWhat \in Statuses
                    /\ LastRunning # 0 => StampedBy \in Nat /\ log[LastRunning] \in StatusEntry
                    /\ WorkStatus = "running" <=> LastRunning = LastStatus
                    /\ LastRequest # LastStatus
                    /\ LastRequest # 0 => log[LastRequest] \in RequestEntry
                    /\ \A k \in 1..Len(log) : IsStatus(log[k]) => k <= LastStatus
                    /\ \A k \in 1..Len(log) : IsRequest(log[k]) => k <= LastRequest
                    /\ \A k \in 1..Len(log) : log[k] \in Entry
                    /\ log[LastStatus] \in StatusEntry
  BY DEF LogOK
<1>1. Len(log) \in Nat /\ \A k \in 1..Len(log) : log[k] \in Entry
  OBVIOUS
<1>2. /\ LastStatus \in 0..Len(log)
      /\ LastStatus # 0 => log[LastStatus] \in StatusEntry
      /\ \A k \in 1..Len(log) : log[k] \in StatusEntry => k <= LastStatus
  BY Folds, LastInFacts
<1>3. /\ LastRequest \in 0..Len(log)
      /\ LastRequest # 0 => log[LastRequest] \in RequestEntry
      /\ \A k \in 1..Len(log) : log[k] \in RequestEntry => k <= LastRequest
  BY Folds, LastInFacts
<1>4. /\ LastRunning \in 0..Len(log)
      /\ LastRunning # 0 => log[LastRunning] \in RunningEntry
      /\ \A k \in 1..Len(log) : log[k] \in RunningEntry => k <= LastRunning
  BY Folds, LastInFacts
<1>5. Requests \in Nat /\ (Requests = 0 <=> LastRequest = 0)
  BY Folds, CountInFacts
<1>6. LastStatus \in 1..Len(log) /\ log[LastStatus] \in StatusEntry
  BY <1>1, <1>2
<1>7. WorkStatus \in Statuses /\ Why \in Whys
  BY <1>6, EntryFacts DEF WorkStatus, Why, StatusEntry
<1>8. LastRunning # 0 => LastRunning \in 1..Len(log) /\ log[LastRunning] \in StatusEntry /\ log[LastRunning].what = "running"
  BY <1>1, <1>4 DEF RunningEntry
<1>9. LastRunning \in 0..LastStatus
  BY <1>1, <1>2, <1>4, <1>8, <1>6
<1>10. LastRunning # 0 => StampedBy \in Nat
  BY <1>8 DEF StampedBy, StatusEntry
<1>11. WorkStatus = "running" <=> LastRunning = LastStatus
  <2>1. ASSUME WorkStatus = "running" PROVE LastRunning = LastStatus
    <3>1. log[LastStatus] \in RunningEntry
      BY <1>6, <2>1 DEF RunningEntry, WorkStatus
    <3> QED BY <1>4, <1>6, <1>9, <3>1
  <2>2. ASSUME LastRunning = LastStatus PROVE WorkStatus = "running"
    BY <1>6, <1>8, <2>2 DEF WorkStatus
  <2> QED BY <2>1, <2>2
<1>12. LastRequest # LastStatus
  BY <1>3, <1>6 DEF StatusEntry, RequestEntry
<1>13. Before \in 0..(LastStatus - 1) /\ (Before # 0 => log[Before] \in StatusEntry)
  <2> DEFINE I == {k \in 1..(LastStatus - 1) : log[k] \in StatusEntry}
  <2>1. LastStatus - 1 \in Nat /\ I \in SUBSET (1..(LastStatus - 1)) /\ \A k \in I : log[k] \in StatusEntry
    BY <1>6
  <2>2. LastOf(I) \in 0..(LastStatus - 1) /\ (I # {} => LastOf(I) \in I)
    <3> HIDE DEF I
    <3> QED BY <2>1, LastFacts
  <2>3. I = {} => LastOf(I) = 0
    BY DEF LastOf
  <2>4. Before = LastOf(I)
    BY Folds
  <2> HIDE DEF I
  <2> QED BY <2>1, <2>2, <2>3, <2>4
<1>14. Before # 0 => BeforeWhat \in Statuses
  BY <1>13 DEF BeforeWhat, StatusEntry
<1>15. \A k \in 1..Len(log) : (IsStatus(log[k]) => log[k] \in StatusEntry)
                              /\ (IsRequest(log[k]) => log[k] \in RequestEntry)
  BY <1>1, EntryFacts DEF IsStatus, IsRequest
<1>16. \A k \in 1..Len(log) : (IsStatus(log[k]) => k <= LastStatus) /\ (IsRequest(log[k]) => k <= LastRequest)
  BY <1>2, <1>3, <1>15
<1> QED BY <1>1, <1>3, <1>5, <1>6, <1>7, <1>8, <1>9, <1>10, <1>11, <1>12, <1>13, <1>14, <1>16

\* What an action leaves of the fold, in three parts.
StatusKept  == /\ LastStatus' = LastStatus /\ WorkStatus' = WorkStatus /\ Why' = Why
               /\ Before' = Before /\ (Before # 0 => BeforeWhat' = BeforeWhat)
RunningKept == LastRunning' = LastRunning /\ (LastRunning # 0 => StampedBy' = StampedBy)
RequestKept == LastRequest' = LastRequest /\ Requests' = Requests

LogGrows(e) == /\ LogOK'
               /\ Len(log') = Len(log) + 1 /\ log'[Len(log) + 1] = e
               /\ \A k \in 1..Len(log) : log'[k] = log[k]

\* An appended entry is behind all others.
LEMMA Grows ==
    ASSUME NEW e \in Entry, LogOK, log' = Append(log, e)
    PROVE  /\ log' \in Seq(Entry) /\ Len(log) \in Nat
           /\ Len(log') = Len(log) + 1 /\ log'[Len(log) + 1] = e
           /\ \A k \in 1..Len(log) : log'[k] = log[k]
BY DEF LogOK

\* The folds of the log a step leaves.
LEMMA FoldsNext ==
    log' \in Seq(Entry) =>
        /\ LastStatus' = LastIn(log', StatusEntry)
        /\ LastRequest' = LastIn(log', RequestEntry)
        /\ LastRunning' = LastIn(log', RunningEntry)
        /\ Requests' = CountIn(log', RequestEntry)
        /\ Latest' = LastIn(log', ReviewOf(Current'))
        /\ Before' = LastOf({k \in 1..(LastStatus' - 1) : log'[k] \in StatusEntry})
<1>1. (log \in Seq(Entry) =>
        /\ LastStatus = LastIn(log, StatusEntry)
        /\ LastRequest = LastIn(log, RequestEntry)
        /\ LastRunning = LastIn(log, RunningEntry)
        /\ Requests = CountIn(log, RequestEntry)
        /\ Latest = LastIn(log, ReviewOf(Current))
        /\ Before = LastOf({k \in 1..(LastStatus - 1) : log[k] \in StatusEntry}))'
  BY Folds, PTL
<1> QED BY <1>1

\* A new status is the last one, and the old one is the status before it.
LEMMA EmitStatus ==
    ASSUME NEW e \in StatusEntry, LogOK, log' = Append(log, e)
    PROVE  /\ LogGrows(e) /\ RequestKept
           /\ LastStatus' = Len(log) + 1 /\ WorkStatus' = e.what /\ Why' = e.why
           /\ Before' = LastStatus /\ BeforeWhat' = WorkStatus
           /\ e.what = "running" => LastRunning' = Len(log) + 1 /\ StampedBy' = e.of
           /\ e.what # "running" => RunningKept
<1> DEFINE n == Len(log)
<1>1. e \in Entry /\ e \notin RequestEntry /\ (e \in RunningEntry <=> e.what = "running")
  BY DEF Entry, StatusEntry, RequestEntry, RunningEntry
<1>2. /\ log' \in Seq(Entry) /\ n \in Nat /\ Len(log') = n + 1 /\ log'[n + 1] = e
      /\ \A k \in 1..n : log'[k] = log[k]
  BY <1>1, Grows
<1>3. log \in Seq(Entry) /\ LastStatus \in 1..n /\ LastRunning \in 0..LastStatus
  BY LogFacts DEF LogOK
<1>4. LastStatus' = n + 1
  BY <1>2, <1>3, FoldsNext, LastInFacts
<1>5. RequestKept
  BY <1>1, <1>2, <1>3, Folds, FoldsNext, LastInFacts, CountInFacts DEF RequestKept
<1>6. WorkStatus' = e.what /\ Why' = e.why
  BY <1>2, <1>4 DEF WorkStatus, Why
<1>7. Before' = LastStatus /\ BeforeWhat' = WorkStatus
  <2>1. {k \in 1..(LastStatus' - 1) : log'[k] \in StatusEntry} = Places(log, StatusEntry)
    BY <1>2, <1>4 DEF Places
  <2>2. Before' = LastStatus
    BY <1>2, <1>3, <2>1, Folds, FoldsNext DEF LastIn
  <2> QED BY <1>2, <1>3, <2>2 DEF BeforeWhat, WorkStatus
<1>8. e.what = "running" => LastRunning' = n + 1 /\ StampedBy' = e.of
  <2>1. e.what = "running" => LastRunning' = n + 1
    BY <1>1, <1>2, <1>3, FoldsNext, LastInFacts
  <2> QED BY <1>2, <2>1 DEF StampedBy
<1>9. e.what # "running" => RunningKept
  <2>1. e.what # "running" => LastRunning' = LastRunning
    BY <1>1, <1>2, <1>3, Folds, FoldsNext, LastInFacts
  <2> QED BY <1>2, <1>3, <2>1 DEF StampedBy, RunningKept
<1>10. LogOK'
  BY <1>2, <1>4 DEF LogOK
<1> QED BY <1>2, <1>4, <1>5, <1>6, <1>7, <1>8, <1>9, <1>10 DEF LogGrows

\* An entry that is no status leaves the statuses.
LEMMA NoStatus ==
    ASSUME NEW e \in Entry, e \notin StatusEntry, LogOK, log' = Append(log, e)
    PROVE  LogGrows(e) /\ StatusKept /\ RunningKept
<1> DEFINE n == Len(log)
<1>1. e \notin RunningEntry
  BY DEF RunningEntry
<1>2. /\ log' \in Seq(Entry) /\ n \in Nat /\ Len(log') = n + 1 /\ log'[n + 1] = e
      /\ \A k \in 1..n : log'[k] = log[k]
  BY Grows
<1>3. log \in Seq(Entry) /\ LastStatus \in 1..n /\ LastRunning \in 0..LastStatus /\ Before \in 0..(LastStatus - 1)
  BY LogFacts DEF LogOK
<1>4. LastStatus' = LastStatus /\ LastRunning' = LastRunning
  BY <1>1, <1>2, <1>3, Folds, FoldsNext, LastInFacts
<1>5. WorkStatus' = WorkStatus /\ Why' = Why /\ (LastRunning # 0 => StampedBy' = StampedBy)
  BY <1>2, <1>3, <1>4 DEF WorkStatus, Why, StampedBy
<1>6. Before' = Before
  <2>1. {k \in 1..(LastStatus' - 1) : log'[k] \in StatusEntry} = {k \in 1..(LastStatus - 1) : log[k] \in StatusEntry}
    BY <1>2, <1>3, <1>4
  <2> QED BY <1>2, <1>3, <2>1, Folds, FoldsNext
<1>7. Before # 0 => BeforeWhat' = BeforeWhat
  BY <1>2, <1>3, <1>6 DEF BeforeWhat
<1>8. LogOK'
  BY <1>2, <1>3, <1>4 DEF LogOK
<1> QED BY <1>2, <1>4, <1>5, <1>6, <1>7, <1>8 DEF LogGrows, StatusKept, RunningKept

\* A new request is the last one and leaves the statuses.
LEMMA EmitRequest ==
    ASSUME NEW e \in RequestEntry, LogOK, log' = Append(log, e)
    PROVE  /\ LogGrows(e) /\ StatusKept /\ RunningKept
           /\ LastRequest' = Len(log) + 1 /\ Requests' = Requests + 1
<1>1. e \in Entry /\ e \notin StatusEntry
  BY DEF Entry, StatusEntry, RequestEntry
<1>2. log \in Seq(Entry) /\ log' \in Seq(Entry)
  BY <1>1, Grows DEF LogOK
<1>3. LastRequest' = Len(log) + 1 /\ Requests' = Requests + 1
  BY <1>2, Folds, FoldsNext, LastInFacts, CountInFacts
<1> QED BY <1>1, <1>3, NoStatus

\* A decision leaves the statuses and the requests.
LEMMA EmitDecision ==
    ASSUME NEW e \in DecisionEntry, LogOK, log' = Append(log, e)
    PROVE  LogGrows(e) /\ StatusKept /\ RunningKept /\ RequestKept
<1>1. e \in Entry /\ e \notin StatusEntry /\ e \notin RequestEntry
  BY DEF Entry, StatusEntry, RequestEntry, DecisionEntry
<1>2. log \in Seq(Entry) /\ log' \in Seq(Entry)
  BY <1>1, Grows DEF LogOK
<1>3. RequestKept
  BY <1>1, <1>2, Folds, FoldsNext, LastInFacts, CountInFacts DEF RequestKept
<1> QED BY <1>1, <1>3, NoStatus

LogKept == log' = log /\ LogOK' /\ StatusKept /\ RunningKept /\ RequestKept

\* A step that appends nothing leaves all folds.
LEMMA NoEmit ==
    ASSUME LogOK, log' = log
    PROVE  LogKept
<1>1. LastStatus' = LastStatus /\ LastRequest' = LastRequest /\ LastRunning' = LastRunning /\ Requests' = Requests
  BY Folds, FoldsNext DEF LogOK
<1>2. Before' = Before
  BY <1>1 DEF Before
<1>3. WorkStatus' = WorkStatus /\ Why' = Why /\ StampedBy' = StampedBy /\ BeforeWhat' = BeforeWhat
  BY <1>1, <1>2 DEF WorkStatus, Why, StampedBy, BeforeWhat
<1> QED BY <1>1, <1>2, <1>3 DEF LogKept, LogOK, StatusKept, RunningKept, RequestKept
----------------------------------------------------------------------------
(* Types and the shape of a chain of commits.                              *)

Commits == {"none", "running", "request", "discard", "settle", "note", "open", "take", "dispatch",
            "restore", "put", "undo", "return", "stop", "cancelled", "stamp", "load", "compile",
            "bill", "publish", "complete", "fail", "answer", "close", "rows", "work", "release",
            "sync"}
TurnSet == [call : Callers \union {"none", "cancel", "handler"}, at : Commits, arg : Nat,
            prior : Statuses \union {"none"}, held : Exec \union {0}]
PastSet == [events : Nat, faults : Nat, redone : SUBSET Exec, unheard : SUBSET Exec,
            held : Exec \union {0}, source : [Exec -> Exec \union {0}]]

\* TypeOK in a form a step can use, with the auxiliary record past.
Types ==
    /\ LogOK
    /\ versions \in Seq(Exec)
    /\ dispatched \subseteq 1..Len(log)
    /\ bills \in [Exec -> Nat]
    /\ rows \in [Exec -> Row]
    /\ cursor \in Exec \union {0} /\ stash \in Exec \union {0}
    /\ tosend \subseteq Exec
    /\ flag \in BOOLEAN
    /\ place \in [Exec -> {"none", "step", "model"}]
    /\ turn \in TurnSet
    /\ past \in PastSet

\* The chains, and what a call, a handler or a boot knows at each commit.
Of(call, ats) == turn.call = call => turn.at \in ats
Chains ==
    /\ turn.call = "none" => turn = Idle
    /\ Of("execute", {"running", "request", "discard"})
    /\ Of("rework", {"settle", "note", "open", "take", "running", "request", "discard",
                     "dispatch", "restore", "put"})
    /\ Of("rerun", {"open", "take", "running", "request", "discard", "undo", "return"})
    /\ Of("cancel", {"stop"})
    /\ Of("handler", {"cancelled", "stamp", "load", "compile", "bill", "publish", "complete",
                      "fail", "answer", "close"})
    /\ Of("boot", {"rows", "work", "request", "discard", "release", "restore", "put", "sync"})
    /\ turn.call \in {"execute", "rerun", "boot"} => turn.arg = 0 /\ turn.prior = "none"
    /\ turn.call = "handler" => turn.arg \in Exec

\* A chain does not read again what it has checked; nothing else runs before its
\* end, so that what it has checked still holds at its later commits.
Points ==
    /\ turn.at = "request" => WorkStatus = "running"
    /\ turn.call = "rework" =>
          turn.arg \in 1..Len(log) /\ log[turn.arg].kind = "decision" /\ IsRework(turn.arg)
    /\ turn.call = "rework" /\ turn.at \in {"note", "open", "take", "running", "request"} =>
          LastRequest <= turn.arg
    /\ turn.call = "rework" /\ turn.at \in {"settle", "note"} => turn.prior = "none"
    /\ turn.call = "rework" /\ turn.at = "open" =>
          turn.prior = WorkStatus /\ WorkStatus \in {"completed", "failed"}
    /\ turn.call = "rework" /\ turn.at \in {"take", "running"} /\ turn.prior # "none" =>
          Prior = turn.prior
    /\ turn.call = "rework" /\ turn.at = "take" /\ turn.prior = "none" =>
          WorkStatus \notin {"completed", "failed"}
    /\ turn.call = "rerun" /\ turn.at = "open" => WorkStatus = "completed"
    /\ turn.call = "rerun" /\ turn.at \in {"take", "running"} => HalfOpen("rerun")
    /\ turn.at \in {"restore", "put"} => HalfOpen("rerun") \/ Prior # "none"
    /\ turn.at = "sync" => /\ WorkStatus = "running" /\ CurrentRequest # 0
                           /\ rows[CurrentRequest].status \in {"completed", "failed"}
    /\ turn.at = "answer" => turn.prior = WorkStatus /\ WorkStatus \in {"completed", "failed"}
    /\ turn.at = "load" => WorkStatus = "running"

\* A call that has yet to request its execution.
Owes ==
    \/ turn.at = "request"
    \/ turn.call \in {"execute", "rework", "rerun"}
          /\ turn.at \in {"settle", "note", "open", "take", "running"}
    \/ turn.call = "boot" /\ turn.at \in {"rows", "work"}

\* Each request has been counted when its call began, so that Exec has an
\* execution for it.
Budget ==
    /\ Requests <= past.events /\ past.events <= MaxEvents
    /\ Owes => Requests < past.events

\* A handler awaits or has the loop only for a row that is running; an answer is
\* set when the row is completed; Lane A has heard of requested executions only.
Rows ==
    /\ \A e \in Exec : place[e] # "none" => rows[e].status = "running"
    /\ \A e \in Exec : rows[e].status = "running" =>
          place[e] # "none" \/ (turn.call = "handler" /\ turn.arg = e) \/ turn.at = "rows"
    /\ \A e \in Exec : rows[e].status = "completed" => rows[e].answer # "none"
    /\ \A e \in Exec : rows[e].status # "none" \/ e \in tosend => e <= Requests
    /\ \A e \in tosend : rows[e].status = "none"
    /\ turn.call = "handler" /\ turn.at # "close" =>
          rows[turn.arg].status = "running" /\ place[turn.arg] = "none"
    /\ turn.at = "close" => rows[turn.arg].status = "failed"

Shape == Types /\ Chains /\ Points /\ Budget /\ Rows

\* The executions are the numbers from 1 to MaxEvents.
LEMMA ExecFacts == MaxEvents \in Nat /\ \A e : e \in Exec <=> e \in Nat /\ 1 <= e /\ e <= MaxEvents
BY BriefDeliveryAssumption DEF Exec

\* Prior reads two positions of the log.
LEMMA PriorIs ==
    Prior = IF HalfOpen("rework") /\ Before # 0 /\ BeforeWhat \in {"completed", "failed"}
            THEN BeforeWhat ELSE "none"
BY DEF Prior, Before, BeforeWhat

\* Prior after a step.
LEMMA PriorNext ==
    Prior' = IF HalfOpen("rework")' /\ Before' # 0 /\ BeforeWhat' \in {"completed", "failed"}
             THEN BeforeWhat' ELSE "none"
<1>1. (Prior = IF HalfOpen("rework") /\ Before # 0 /\ BeforeWhat \in {"completed", "failed"}
               THEN BeforeWhat ELSE "none")'
  BY PriorIs, PTL
<1> QED BY <1>1

LEMMA StepFacts ==
    ASSUME NEW at \in Commits, turn \in TurnSet, Step(at)
    PROVE  /\ turn' \in TurnSet
           /\ turn'.call = turn.call /\ turn'.at = at /\ turn'.arg = turn.arg
           /\ turn'.prior = turn.prior /\ turn'.held = turn.held
BY DEF Step, TurnSet

\* The fields of an idle turn.
LEMMA IdleFacts ==
    /\ Idle \in TurnSet
    /\ Idle.call = "none" /\ Idle.at = "none" /\ Idle.arg = 0 /\ Idle.prior = "none" /\ Idle.held = 0
<1>1. Idle.call = "none" /\ Idle.at = "none" /\ Idle.arg = 0 /\ Idle.prior = "none" /\ Idle.held = 0
  BY DEF Idle
<1>2. Idle \in [call : {"none"}, at : {"none"}, arg : Nat, prior : {"none"}, held : {0}]
  BY DEF Idle
<1>3. Idle \in TurnSet
  BY <1>2 DEF TurnSet, Commits
<1> QED BY <1>1, <1>3

\* The fields of a turn a chain begins with.
LEMMA TurnFacts ==
    ASSUME NEW c \in Callers \union {"cancel", "handler"}, NEW at \in Commits, NEW d \in Nat
    PROVE  /\ Turn(c, at, d) \in TurnSet
           /\ Turn(c, at, d).call = c /\ Turn(c, at, d).at = at /\ Turn(c, at, d).arg = d
           /\ Turn(c, at, d).prior = "none" /\ Turn(c, at, d).held = 0
<1>1. Idle \in TurnSet /\ Idle.prior = "none" /\ Idle.held = 0
  BY IdleFacts
<1>2. Turn(c, at, d) = [Idle EXCEPT !.call = c, !.at = at, !.arg = d]
  BY DEF Turn
<1> HIDE DEF Turn
<1> QED BY <1>1, <1>2 DEF TurnSet
----------------------------------------------------------------------------
(* What each action does to the log.                                       *)

AddsStatus(what, why, of) ==
    /\ LogGrows(Status(what, why, of)) /\ RequestKept
    /\ LastStatus' = Len(log) + 1 /\ WorkStatus' = what /\ Why' = why
    /\ Before' = LastStatus /\ BeforeWhat' = WorkStatus
    /\ what = "running" => LastRunning' = Len(log) + 1 /\ StampedBy' = of
    /\ what # "running" => RunningKept

AddsRequest(caller, of) ==
    /\ LogGrows(Request(caller, of)) /\ StatusKept /\ RunningKept
    /\ LastRequest' = Len(log) + 1 /\ Requests' = Requests + 1

AddsDecision(what, of) ==
    LogGrows(Decision(what, of)) /\ StatusKept /\ RunningKept /\ RequestKept

\* The current request, if there is one, is the last one made.
LEMMA CurrentRequestFacts ==
    ASSUME Shape
    PROVE  /\ CurrentRequest \in {0, Requests}
           /\ CurrentRequest # 0 => CurrentRequest \in Exec /\ CurrentRequest = Requests
<1>1. /\ LastRequest \in Nat /\ LastRunning \in Nat /\ Requests \in Nat /\ (Requests = 0 <=> LastRequest = 0)
      /\ Requests <= MaxEvents
  <2>1. LogOK /\ past.events \in Nat
    BY DEF Shape, Types, PastSet
  <2>2. /\ LastRequest \in 0..Len(log) /\ LastRunning \in 0..LastStatus /\ LastStatus \in 1..Len(log)
        /\ Len(log) \in Nat /\ Requests \in Nat /\ (Requests = 0 <=> LastRequest = 0)
    BY <2>1, LogFacts
  <2>3. Requests <= past.events /\ past.events <= MaxEvents /\ MaxEvents \in Nat
    BY ExecFacts DEF Shape, Budget
  <2> QED BY <2>1, <2>2, <2>3
<1>2. CurrentRequest \in {0, Requests}
  BY DEF CurrentRequest
<1>3. CurrentRequest # 0 => Requests # 0
  BY <1>1 DEF CurrentRequest
<1> QED BY <1>1, <1>2, <1>3, ExecFacts

\* What the commit of a status does to the folds.
LEMMA StatusAdded ==
    ASSUME LogOK, NEW what \in Statuses, NEW why \in Whys, NEW of \in Nat,
           Emit(Status(what, why, of))
    PROVE  AddsStatus(what, why, of)
<1>1. PICK e \in StatusEntry : e = Status(what, why, of) /\ e.what = what /\ e.why = why /\ e.of = of
  BY DEF Status, StatusEntry
<1>2. log' = Append(log, e)
  BY <1>1 DEF Emit
<1> HIDE DEF Status
<1> QED BY <1>1, <1>2, EmitStatus DEF AddsStatus

\* What the commit of a request does to the folds.
LEMMA RequestAdded ==
    ASSUME LogOK, NEW caller \in Callers, NEW of \in Nat, Emit(Request(caller, of))
    PROVE  AddsRequest(caller, of)
<1>1. PICK e \in RequestEntry : e = Request(caller, of)
  BY DEF Request, RequestEntry
<1>2. log' = Append(log, e)
  BY <1>1 DEF Emit
<1> QED BY <1>1, <1>2, EmitRequest DEF AddsRequest

\* What the commit of a decision does to the folds.
LEMMA DecisionAdded ==
    ASSUME LogOK, NEW what \in Reviews, NEW of \in Nat, Emit(Decision(what, of))
    PROVE  AddsDecision(what, of)
<1>1. PICK e \in DecisionEntry : e = Decision(what, of)
  BY DEF Decision, DecisionEntry
<1>2. log' = Append(log, e)
  BY <1>1 DEF Emit
<1> QED BY <1>1, <1>2, EmitDecision DEF AddsDecision

\* The entry each action appends.
LEMMA Emissions ==
    ASSUME Shape
    PROVE  /\ SetRunning => AddsStatus("running", "none", 0)
           /\ StampRunning => AddsStatus("running", "none", turn.arg)
           /\ Reopen => AddsStatus("pending", turn.call, 0)
           /\ UndoRerun => AddsStatus("completed", "rerun", 0)
           /\ CancelStatus => AddsStatus(IF Current > 0 THEN "completed" ELSE "failed", "cancel", 0)
           /\ Finish("complete", "completed") => AddsStatus("completed", "none", turn.arg)
           /\ Finish("fail", "failed") => AddsStatus("failed", "none", turn.arg)
           /\ CloseDeadLettered => LogKept \/ (AddsStatus("failed", "none", 0) /\ Closes(turn.arg))
           /\ RequestExecution => AddsRequest(turn.call, turn.arg)
           /\ Accept => AddsDecision("accepted", Current)
           /\ AskRework => AddsDecision("changes_requested", Current)
           /\ BootSync => \E what \in {"completed", "failed", "cancelled"} : AddsStatus(what, "none", 0)
           /\ PutBack => AddsStatus(IF HalfOpen("rerun") THEN "completed" ELSE Prior,
                                    IF HalfOpen("rerun") THEN "rerun" ELSE "rework", 0)
<1> Len(versions) \in Nat /\ LogOK /\ turn.arg \in Nat /\ turn \in TurnSet
  BY DEF Shape, Types, TurnSet
<1>1. SetRunning => AddsStatus("running", "none", 0)
  BY StatusAdded DEF SetRunning, Statuses, Whys
<1>2. PICK a \in Nat : a = turn.arg
  OBVIOUS
<1>3. StampRunning => AddsStatus("running", "none", turn.arg)
  <2>1. StampRunning => Emit(Status("running", "none", a))
    BY <1>2 DEF StampRunning
  <2>2. StampRunning => AddsStatus("running", "none", a)
    BY <2>1, StatusAdded DEF Statuses, Whys
  <2> QED BY <1>2, <2>2
<1>4. Reopen => AddsStatus("pending", turn.call, 0)
  <2>1. ASSUME Reopen, turn.call = "rework" PROVE AddsStatus("pending", "rework", 0)
    <3>1. Emit(Status("pending", "rework", 0))
      BY <2>1 DEF Reopen
    <3> QED BY <3>1, StatusAdded DEF Statuses, Whys
  <2>2. ASSUME Reopen, turn.call = "rerun" PROVE AddsStatus("pending", "rerun", 0)
    <3>1. Emit(Status("pending", "rerun", 0))
      BY <2>2 DEF Reopen
    <3> QED BY <3>1, StatusAdded DEF Statuses, Whys
  <2>3. Reopen => turn.call \in {"rework", "rerun"}
    BY DEF Reopen, At
  <2> QED BY <2>1, <2>2, <2>3
<1>5. UndoRerun => AddsStatus("completed", "rerun", 0)
  BY StatusAdded DEF UndoRerun, Statuses, Whys
<1>6. CancelStatus => AddsStatus(IF Current > 0 THEN "completed" ELSE "failed", "cancel", 0)
  <2>1. CASE Current > 0
    <3>1. CancelStatus => Emit(Status("completed", "cancel", 0))
      BY <2>1 DEF CancelStatus
    <3>2. CancelStatus => AddsStatus("completed", "cancel", 0)
      BY <3>1, StatusAdded DEF Statuses, Whys
    <3> QED BY <2>1, <3>2
  <2>2. CASE ~(Current > 0)
    <3>1. CancelStatus => Emit(Status("failed", "cancel", 0))
      BY <2>2 DEF CancelStatus
    <3>2. CancelStatus => AddsStatus("failed", "cancel", 0)
      BY <3>1, StatusAdded DEF Statuses, Whys
    <3> QED BY <2>2, <3>2
  <2> QED BY <2>1, <2>2
<1>7. Finish("complete", "completed") => AddsStatus("completed", "none", turn.arg)
  <2>1. Finish("complete", "completed") => Emit(Status("completed", "none", a))
    BY <1>2 DEF Finish
  <2>2. Finish("complete", "completed") => AddsStatus("completed", "none", a)
    BY <2>1, StatusAdded DEF Statuses, Whys
  <2> QED BY <1>2, <2>2
<1>8. Finish("fail", "failed") => AddsStatus("failed", "none", turn.arg)
  <2>1. Finish("fail", "failed") => Emit(Status("failed", "none", a))
    BY <1>2 DEF Finish
  <2>2. Finish("fail", "failed") => AddsStatus("failed", "none", a)
    BY <2>1, StatusAdded DEF Statuses, Whys
  <2> QED BY <1>2, <2>2
<1>9. CloseDeadLettered => LogKept \/ (AddsStatus("failed", "none", 0) /\ Closes(turn.arg))
  <2>1. CloseDeadLettered => log' = log \/ (Emit(Status("failed", "none", 0)) /\ Closes(turn.arg))
    BY DEF CloseDeadLettered
  <2> QED BY <2>1, NoEmit, StatusAdded DEF Statuses, Whys
<1>10. RequestExecution => AddsRequest(turn.call, turn.arg)
  <2>1. RequestExecution => turn.call \in Callers
    BY DEF RequestExecution, At, Callers
  <2>2. ASSUME RequestExecution PROVE AddsRequest(turn.call, turn.arg)
    <3>1. PICK c \in Callers : c = turn.call
      BY <2>1, <2>2
    <3>2. Emit(Request(c, a))
      BY <1>2, <2>2, <3>1 DEF RequestExecution
    <3>3. AddsRequest(c, a)
      BY <3>2, RequestAdded
    <3> QED BY <1>2, <3>1, <3>3
  <2> QED BY <2>2
<1>11. /\ Accept => AddsDecision("accepted", Current)
       /\ AskRework => AddsDecision("changes_requested", Current)
  <2>1. PICK v \in Nat : v = Current
    BY DEF Current
  <2>2. Accept => Emit(Decision("accepted", v))
    BY <2>1 DEF Accept
  <2>3. AskRework => Emit(Decision("changes_requested", v))
    BY <2>1 DEF AskRework
  <2>4. (Accept => AddsDecision("accepted", v)) /\ (AskRework => AddsDecision("changes_requested", v))
    BY <2>2, <2>3, DecisionAdded DEF Reviews
  <2> QED BY <2>1, <2>4
<1>12. BootSync => \E what \in {"completed", "failed", "cancelled"} : AddsStatus(what, "none", 0)
  <2>1. ASSUME BootSync PROVE \E what \in {"completed", "failed", "cancelled"} : AddsStatus(what, "none", 0)
    <3>1. turn.at = "sync"
      BY <2>1 DEF BootSync, At
    <3>2. CurrentRequest \in Exec /\ rows[CurrentRequest].status \in {"completed", "failed"}
      BY <3>1, CurrentRequestFacts DEF Shape, Points
    <3>3. PICK e \in Exec : e = CurrentRequest
      BY <3>2
    <3>4. rows[e] \in Row /\ (rows[e].status = "completed" => rows[e].answer # "none")
      BY DEF Shape, Types, Rows
    <3>5. PICK what \in {"completed", "failed", "cancelled"} :
             what = IF rows[e].status = "failed" THEN "failed" ELSE rows[e].answer
      BY <3>2, <3>3, <3>4 DEF Row
    <3>6. Emit(Status(what, "none", 0))
      BY <2>1, <3>3, <3>5 DEF BootSync
    <3>7. AddsStatus(what, "none", 0)
      BY <3>6, StatusAdded DEF Statuses, Whys
    <3> QED BY <3>7
  <2> QED BY <2>1
<1>13. PutBack => AddsStatus(IF HalfOpen("rerun") THEN "completed" ELSE Prior,
                             IF HalfOpen("rerun") THEN "rerun" ELSE "rework", 0)
  <2>1. CASE HalfOpen("rerun")
    <3>1. PutBack => Emit(Status("completed", "rerun", 0))
      BY <2>1 DEF PutBack
    <3>2. PutBack => AddsStatus("completed", "rerun", 0)
      BY <3>1, StatusAdded DEF Statuses, Whys
    <3> QED BY <2>1, <3>2
  <2>2. CASE ~HalfOpen("rerun")
    <3>1. ASSUME PutBack PROVE AddsStatus(Prior, "rework", 0)
      <4>1. turn.at = "put"
        BY <3>1 DEF PutBack, At
      <4>2. Prior \in {"completed", "failed"}
        BY <2>2, <4>1, PriorIs DEF Shape, Points
      <4>3. PICK what \in Statuses : what = Prior
        BY <4>2 DEF Statuses
      <4>4. Emit(Status(what, "rework", 0))
        BY <2>2, <3>1, <4>3 DEF PutBack
      <4>5. AddsStatus(what, "rework", 0)
        BY <4>4, StatusAdded DEF Whys
      <4> QED BY <4>3, <4>5
    <3> QED BY <2>2, <3>1
  <2> QED BY <2>1, <2>2
<1> QED BY <1>1, <1>3, <1>4, <1>5, <1>6, <1>7, <1>8, <1>9, <1>10, <1>11, <1>12, <1>13
----------------------------------------------------------------------------
(* What the code asks of the log, by the last status and the last request. *)

HalfOpenBy(why) == WorkStatus = "pending" /\ Why = why /\ ~(LastRequest > LastStatus)

PriorBy == IF HalfOpenBy("rework") /\ Before # 0 /\ BeforeWhat \in {"completed", "failed"}
           THEN BeforeWhat ELSE "none"

CurrentRequestBy ==
    IF LastRequest > LastRunning \/ (LastRequest > 0 /\ LastRunning > 0 /\ StampedBy = Requests)
    THEN Requests ELSE 0

\* What the code asks of the log, in terms of the positions.
LEMMA Views ==
    /\ HalfOpen("rerun") <=> HalfOpenBy("rerun")
    /\ HalfOpen("rework") <=> HalfOpenBy("rework")
    /\ Prior = PriorBy
    /\ CurrentRequest = CurrentRequestBy
<1>1. /\ HalfOpen("rerun") <=> HalfOpenBy("rerun")
      /\ HalfOpen("rework") <=> HalfOpenBy("rework")
  BY DEF HalfOpen, HalfOpenBy, RequestedSince, Why
<1>2. Prior = PriorBy
  BY <1>1, PriorIs DEF PriorBy
<1>3. CurrentRequest = CurrentRequestBy
  BY DEF CurrentRequest, CurrentRequestBy, StampedBy
<1> QED BY <1>1, <1>2, <1>3

\* The same after a step.
LEMMA ViewsNext ==
    /\ HalfOpen("rerun")' <=> HalfOpenBy("rerun")'
    /\ HalfOpen("rework")' <=> HalfOpenBy("rework")'
    /\ Prior' = PriorBy'
    /\ CurrentRequest' = CurrentRequestBy'
<1>1. (/\ HalfOpen("rerun") <=> HalfOpenBy("rerun")
       /\ HalfOpen("rework") <=> HalfOpenBy("rework")
       /\ Prior = PriorBy
       /\ CurrentRequest = CurrentRequestBy)'
  BY Views, PTL
<1> QED BY <1>1

\* A step that leaves the positions leaves the answers.
LEMMA Unchanged ==
    ASSUME StatusKept, RunningKept, RequestKept, LogOK
    PROVE  /\ HalfOpenBy("rerun")' <=> HalfOpenBy("rerun")
           /\ HalfOpenBy("rework")' <=> HalfOpenBy("rework")
           /\ PriorBy' = PriorBy
           /\ CurrentRequestBy' = CurrentRequestBy
<1>1. /\ HalfOpenBy("rerun")' <=> HalfOpenBy("rerun")
      /\ HalfOpenBy("rework")' <=> HalfOpenBy("rework")
  BY DEF StatusKept, RequestKept, HalfOpenBy
<1>2. PriorBy' = PriorBy
  BY <1>1 DEF PriorBy, StatusKept
<1>3. LastRunning \in Nat
  BY LogFacts
<1>4. CurrentRequestBy' = CurrentRequestBy
  BY <1>3 DEF CurrentRequestBy, RunningKept, RequestKept
<1> QED BY <1>1, <1>2, <1>4
----------------------------------------------------------------------------
(* The rest of the invariant.                                              *)

\* A rework or a rerun has set the brief pending and nothing has set it since.
Reopened == WorkStatus = "pending" /\ Why \in {"rework", "rerun"}

\* What the marks on a status say: a request follows a running status only, and a
\* reopen remembers the final status it left.
Marks ==
    /\ LastRequest > LastStatus => WorkStatus = "running"
    /\ Why \in {"rework", "rerun"} => WorkStatus \in {"pending", "completed", "failed"}
    /\ Reopened => Before # 0 /\ BeforeWhat \in {"completed", "failed"}
    /\ \A d \in 1..Len(log) : log[d].kind = "decision" /\ log[d].what = "changes_requested" /\ LastStatus < d =>
          WorkStatus # "running"

\* A rework is requested after the decision it carries out, and once.
IsReworkRequest(e) == IsRequest(e) /\ e.what = "rework"
Entries ==
    /\ \A i \in 1..Len(log) : IsReworkRequest(log[i]) => log[i].of < i
    /\ \A i, j \in 1..Len(log) :
          IsReworkRequest(log[i]) /\ IsReworkRequest(log[j]) /\ log[i].of = log[j].of => i = j

\* A boot finds no handler at work, no cancel flag, and nothing to hand to Lane A
\* before it has requested something itself.
Boots == turn.call = "boot" =>
    /\ \A e \in Exec : place[e] = "none"
    /\ ~flag
    /\ turn.at \notin {"discard", "release"} => tosend = {}

\* The executions with a delivery, those Lane A or the loop may still run, and
\* those of a rework or a rerun.
Delivered == {e \in Exec : Published(e)}
Active    == {e \in Exec : Live(e) \/ e \in tosend}
RequestsTo(i) == Cardinality({j \in 1..i : IsRequest(log[j])})
Again     == {e \in Exec : (\E i \in 1..Len(log) :
                  IsRequest(log[i]) /\ log[i].what \in {"rework", "rerun"} /\ RequestsTo(i) = e)}

\* An execution not requested yet has done nothing.
Fresh ==
    /\ \A e \in Delivered \union Again : e <= Requests
    /\ \A e \in Exec : e > Requests => past.source[e] = 0

\* An execution that waits for the model has neither been billed nor published,
\* and so has the one about to do either.
Once ==
    /\ \A e \in Exec : bills[e] <= 1
    /\ \A e \in Exec : place[e] = "model" => bills[e] = 0 /\ e \notin Delivered
    /\ turn.call = "handler" /\ turn.at = "bill" => bills[turn.arg] = 0
    /\ turn.call = "handler" /\ turn.at \in {"bill", "publish"} => turn.arg \notin Delivered
    /\ \A v, w \in 1..Len(versions) : versions[v] = versions[w] => v = w

\* While no write fails: where the cursor a reopen took is.
HeldIn(c, s) == IF c = 0 THEN s = past.held ELSE c = past.held
Undo ==
    past.faults = 0 =>
        /\ stash # 0 =>
              \/ turn.call \in {"rework", "rerun"} /\ turn.at \in {"running", "request", "discard"}
              \/ turn.call = "boot"
        /\ Reopened =>
              \/ turn.call \in {"rework", "rerun"} /\ turn.at = "take" /\ cursor = past.held /\ stash = 0
              \/ turn.call \in {"rework", "rerun"} /\ turn.at = "running" /\ cursor = 0 /\ stash = past.held
              \/ turn.call = "boot" /\ turn.at \in {"rows", "work", "restore"} /\ HeldIn(cursor, stash)
              \/ turn.call = "boot" /\ turn.at = "put" /\ cursor = past.held /\ stash = 0
        /\ turn.at \notin {"undo", "return"}
        /\ turn.at \in {"restore", "put"} => turn.call = "boot"
        /\ Why \in {"rework", "rerun"} /\ WorkStatus # "pending" =>
              cursor = past.held /\ \A e \in Exec : place[e] # "step"

\* A boot that ends leaves a running brief with an execution.
SomeCarried == \E e \in Exec : Carried(e)
BootEnds ==
    turn.call = "boot" =>
        /\ turn.at = "discard" => SomeCarried
        /\ turn.at = "release" /\ past.faults = 0 /\ WorkStatus = "running" => SomeCarried

\* Until a stray execution has set the status.
Clean == ~StrayWrote
\* The commits at which no execution but a stray one is at work.
Quiet ==
    \/ turn.at \in {"running", "request", "open", "take", "undo", "return", "restore", "put", "note", "sync"}
    \/ turn.call = "cancel"
\* The one execution at work that is not stray is the last one requested, and the
\* brief is running for it, or it is about to set the final status.
Honest == Clean =>
    /\ \A e \in Active \ Stray :
          /\ e = Requests
          /\ \/ WorkStatus = "running" /\ LastRequest > LastRunning
             \/ turn.call = "handler" /\ turn.at = "answer" /\ turn.arg = e
    /\ Quiet => Active \subseteq Stray
    /\ turn.at = "stamp" => turn.arg \in Stray
    /\ LastRunning # 0 => StampedBy = 0

\* While no write fails, a running brief has an execution that will end it, or a
\* call, a handler or a boot that will see to it within its chain.
Carry == Clean /\ past.faults = 0 =>
    /\ flag => WorkStatus # "running" \/ turn.call = "cancel"
    /\ turn.at \in {"running", "request"} => ~flag
    /\ WorkStatus = "running" =>
          \/ /\ LastRequest > LastRunning
             /\ \/ Carried(Requests)
                \/ turn.call = "handler" /\ turn.arg = Requests /\ turn.at # "cancelled"
                \/ turn.call = "cancel"
          \/ turn.at = "request"
          \/ turn.call = "execute" /\ turn.at = "running"
          \/ turn.call = "boot" /\ turn.at \in {"rows", "work", "sync"}

\* An execution of a rework or rerun starts without a cursor, finds none but its
\* own, and has read the sources itself when it comes to the model.
Reads == Clean =>
    /\ turn.call \in {"rework", "rerun"} /\ turn.at \in {"running", "request"} => cursor = 0
    /\ \A e \in Again \ Stray :
          /\ past.source[e] \in {0, e} \union Stray
          /\ e \in Active => cursor \in {0, e} \union Stray
          /\ \/ place[e] = "model" \/ e \in Delivered
             \/ turn.call = "handler" /\ turn.arg = e /\ turn.at \in {"compile", "bill", "publish"}
             => past.source[e] # 0

\* The inductive invariant.
Inv == /\ Shape /\ Marks /\ Entries /\ Boots /\ Fresh /\ Once
       /\ Undo /\ BootEnds /\ Honest /\ Carry /\ Reads
----------------------------------------------------------------------------
(* How an action changes these sets.                                       *)

\* A step that appends nothing keeps Entries.
LEMMA EntriesKept ==
    LogOK /\ Entries /\ LogKept => Entries'
BY DEF Entries, LogKept, IsReworkRequest, IsRequest

\* An appended entry keeps Entries, if a rework it requests was not
\* requested since the decision.
LEMMA EntriesGrow ==
    ASSUME LogOK, Entries, NEW e, LogGrows(e),
           IsReworkRequest(e) => e.of <= Len(log) /\ LastRequest <= e.of /\ e.of \in Nat
    PROVE  Entries'
<1> DEFINE n == Len(log)
<1>1. /\ n \in Nat /\ Len(log') = n + 1 /\ log'[n + 1] = e /\ \A k \in 1..n : log'[k] = log[k]
      /\ \A k \in 1..n : IsRequest(log[k]) => k <= LastRequest
      /\ LastRequest \in Nat
  BY LogFacts DEF LogGrows
<1>2. \A i \in 1..n : IsReworkRequest(log[i]) => log[i].of < i /\ log[i].of \in Nat /\ i <= LastRequest
  <2>1. \A i \in 1..n : log[i].of \in Nat
    BY LogFacts, EntryFacts
  <2> QED BY <1>1, <2>1 DEF Entries, IsReworkRequest
<1>3. \A i \in 1..n : IsReworkRequest(log[i]) /\ IsReworkRequest(e) => log[i].of # e.of
  BY <1>1, <1>2
<1>4. \A i \in 1..(n + 1) : i \in 1..n \/ i = n + 1
  BY <1>1
<1>5. \A i \in 1..(n + 1) : IsReworkRequest(log'[i]) => log'[i].of < i
  BY <1>1, <1>2, <1>4
<1>6. \A i, j \in 1..(n + 1) :
          IsReworkRequest(log'[i]) /\ IsReworkRequest(log'[j]) /\ log'[i].of = log'[j].of => i = j
  <2> SUFFICES ASSUME NEW i \in 1..(n + 1), NEW j \in 1..(n + 1),
                      IsReworkRequest(log'[i]), IsReworkRequest(log'[j]), log'[i].of = log'[j].of
               PROVE  i = j
    OBVIOUS
  <2>1. CASE i \in 1..n /\ j \in 1..n
    BY <1>1, <2>1 DEF Entries
  <2>2. CASE i \in 1..n /\ j = n + 1
    BY <1>1, <1>3, <2>2
  <2>3. CASE i = n + 1 /\ j \in 1..n
    BY <1>1, <1>3, <2>3
  <2>4. CASE i = n + 1 /\ j = n + 1
    BY <2>4
  <2> QED BY <1>4, <2>1, <2>2, <2>3, <2>4
<1> QED BY <1>1, <1>5, <1>6 DEF Entries, IsReworkRequest, IsRequest

\* A step that appends nothing makes no execution one of a rework.
LEMMA AgainKept ==
    LogKept => Again' = Again
BY DEF Again, RequestsTo, LogKept, IsRequest

\* A request makes the new execution one of a rework or rerun, or none.
LEMMA AgainGrows ==
    ASSUME LogOK, NEW e, LogGrows(e)
    PROVE  /\ ~IsRequest(e) => Again' = Again
           /\ IsRequest(e) => Again' \subseteq Again \union {Requests'}
           /\ IsRequest(e) /\ e.what \notin {"rework", "rerun"} => Again' = Again
<1> DEFINE n == Len(log)
           Is(i) == IsRequest(log[i]) /\ log[i].what \in {"rework", "rerun"}
           IsNext(i) == IsRequest(log'[i]) /\ log'[i].what \in {"rework", "rerun"}
           To(i) == {j \in 1..i : IsRequest(log[j])}
           ToNext(i) == {j \in 1..i : IsRequest(log'[j])}
<1>1. n \in Nat /\ Len(log') = n + 1 /\ log'[n + 1] = e /\ \A k \in 1..n : log'[k] = log[k]
  BY LogFacts DEF LogGrows
<1>2. ASSUME NEW i \in 1..n PROVE (IsNext(i) <=> Is(i)) /\ ToNext(i) = To(i)
  <2>1. \A j \in 1..i : j \in 1..n
    BY <1>1
  <2> QED BY <1>1, <2>1
<1>3. ToNext(n + 1) = {j \in 1..Len(log') : IsRequest(log'[j])}
  BY <1>1
<1>4. Requests' = Cardinality(ToNext(n + 1))
  BY <1>3 DEF Requests, IsRequest
<1>5. Again = {d \in Exec : (\E i \in 1..n : Is(i) /\ Cardinality(To(i)) = d)}
  BY DEF Again, RequestsTo
<1>6. Again' = {d \in Exec : (\E i \in 1..(n + 1) : IsNext(i) /\ Cardinality(ToNext(i)) = d)}
  BY <1>1 DEF Again, RequestsTo, IsRequest
<1>7. IsNext(n + 1) <=> IsRequest(e) /\ e.what \in {"rework", "rerun"}
  BY <1>1
<1>8. \A i \in 1..(n + 1) : i \in 1..n \/ i = n + 1
  BY <1>1
<1>9. 1..n \subseteq 1..(n + 1) /\ n + 1 \in 1..(n + 1)
  BY <1>1
<1> HIDE DEF n, Is, IsNext, To, ToNext
<1>10. Again \subseteq Again'
  BY <1>2, <1>5, <1>6, <1>9
<1>11. \A d \in Again' : d \in Again \/ (IsNext(n + 1) /\ d = Requests')
  BY <1>2, <1>4, <1>5, <1>6, <1>8
<1> QED BY <1>7, <1>10, <1>11

\* A step that appends nothing does not undo what a stray execution has
\* written.
LEMMA CleanKept ==
    ASSUME LogKept, Stray \subseteq Stray'
    PROVE  Clean' => Clean
BY DEF Clean, StrayWrote, LogKept, IsStatus

\* Neither does an appended entry, and it is then no status of a stray
\* execution.
LEMMA CleanGrows ==
    ASSUME LogOK, NEW e, LogGrows(e), Stray \subseteq Stray'
    PROVE  /\ Clean' => Clean
           /\ Clean' /\ IsStatus(e) => e.of \notin Stray'
<1> DEFINE n == Len(log)
<1>1. n \in Nat /\ Len(log') = n + 1 /\ log'[n + 1] = e /\ \A k \in 1..n : log'[k] = log[k]
  BY LogFacts DEF LogGrows
<1>2. StrayWrote => StrayWrote'
  BY <1>1 DEF StrayWrote, IsStatus
<1>3. IsStatus(e) /\ e.of \in Stray' => StrayWrote'
  BY <1>1 DEF StrayWrote, IsStatus
<1> QED BY <1>2, <1>3 DEF Clean
----------------------------------------------------------------------------
(* What an action that leaves the log alone keeps, and what a call or a    *)
(* failed write adds to the history.                                       *)

LogStill ==
    /\ LogKept /\ Marks' /\ Entries' /\ Again' = Again
    /\ HalfOpen("rerun")' <=> HalfOpen("rerun")
    /\ HalfOpen("rework")' <=> HalfOpen("rework")
    /\ Prior' = Prior /\ CurrentRequest' = CurrentRequest

\* What a step that appends nothing keeps of the invariant.
LEMMA Still ==
    ASSUME Inv, log' = log
    PROVE  LogStill
<1>1. LogOK /\ LogKept
  BY NoEmit DEF Inv, Shape, Types
<1>2. Entries' /\ Again' = Again
  BY <1>1, EntriesKept, AgainKept DEF Inv
<1>3. Marks'
  <2>1. Before \in Nat
    BY <1>1, LogFacts
  <2> QED BY <1>1, <2>1 DEF Inv, Marks, Reopened, LogKept, StatusKept, RequestKept
<1>4. /\ HalfOpen("rerun")' <=> HalfOpen("rerun")
      /\ HalfOpen("rework")' <=> HalfOpen("rework")
      /\ Prior' = Prior /\ CurrentRequest' = CurrentRequest
  BY <1>1, Unchanged, Views, ViewsNext DEF LogKept
<1> QED BY <1>1, <1>2, <1>3, <1>4 DEF LogStill

PastCounts(events, faults) ==
    /\ past' \in PastSet
    /\ past'.events = events /\ past'.faults = faults
    /\ past'.redone = past.redone /\ past'.unheard = past.unheard
    /\ past'.held = past.held /\ past'.source = past.source

\* A counted event counts one.
LEMMA EventFacts ==
    ASSUME past \in PastSet, past' = [past EXCEPT !.events = @ + 1]
    PROVE  PastCounts(past.events + 1, past.faults) /\ Stray' = Stray
<1>1. PastCounts(past.events + 1, past.faults)
  BY DEF PastCounts, PastSet
<1> QED BY <1>1 DEF PastCounts, Stray

\* A call counts one event and begins when all requests have been handed to
\* Lane A.
LEMMA CallFacts ==
    ASSUME past \in PastSet, Call
    PROVE  /\ tosend = {} /\ past.events < MaxEvents
           /\ PastCounts(past.events + 1, past.faults) /\ Stray' = Stray
<1>1. past' = [past EXCEPT !.events = @ + 1]
  BY DEF Call
<1>2. PastCounts(past.events + 1, past.faults)
  BY <1>1 DEF PastCounts, PastSet
<1> QED BY <1>2 DEF Call, PastCounts, Stray

\* A failed write counts one event and one fault.
LEMMA FaultFacts ==
    ASSUME past \in PastSet, Fault
    PROVE  /\ past.events < MaxEvents
           /\ PastCounts(past.events + 1, past.faults + 1) /\ Stray' = Stray
<1>1. past' = [past EXCEPT !.events = @ + 1, !.faults = @ + 1]
  BY DEF Fault
<1>2. past' = [events |-> past.events + 1, faults |-> past.faults + 1, redone |-> past.redone,
               unheard |-> past.unheard, held |-> past.held, source |-> past.source]
  BY <1>1 DEF PastSet
<1>3. past.events + 1 \in Nat /\ past.faults + 1 \in Nat
  BY DEF PastSet
<1>4. PastCounts(past.events + 1, past.faults + 1)
  BY <1>2, <1>3 DEF PastCounts, PastSet
<1> QED BY <1>4 DEF Fault, PastCounts, Stray

\* What every proof about an action uses of the invariant.
LEMMA InvParts ==
    Inv => /\ Types /\ Chains /\ Points /\ Budget /\ Rows /\ LogOK
           /\ turn \in TurnSet /\ past \in PastSet
           /\ Requests \in Nat /\ past.events \in Nat /\ past.faults \in Nat /\ MaxEvents \in Nat
           /\ Len(log) \in Nat /\ LastStatus \in Nat /\ LastRequest \in Nat /\ LastRunning \in Nat
           /\ Again \subseteq Exec /\ Delivered \subseteq Exec /\ Active \subseteq Exec /\ tosend \subseteq Exec
           /\ \A x \in Exec : x \in Nat /\ x # 0
           /\ LastRequest > LastRunning => Requests \in Exec
<1> SUFFICES ASSUME Inv
             PROVE  /\ Types /\ Chains /\ Points /\ Budget /\ Rows /\ LogOK
                    /\ turn \in TurnSet /\ past \in PastSet
                    /\ Requests \in Nat /\ past.events \in Nat /\ past.faults \in Nat /\ MaxEvents \in Nat
                    /\ Len(log) \in Nat /\ LastStatus \in Nat /\ LastRequest \in Nat /\ LastRunning \in Nat
                    /\ Again \subseteq Exec /\ Delivered \subseteq Exec /\ Active \subseteq Exec /\ tosend \subseteq Exec
                    /\ \A x \in Exec : x \in Nat /\ x # 0
                    /\ LastRequest > LastRunning => Requests \in Exec
  OBVIOUS
<1>1. /\ Types /\ Chains /\ Points /\ Budget /\ Rows /\ LogOK
      /\ turn \in TurnSet /\ past \in PastSet
  BY DEF Inv, Shape, Types
<1>2. past.events \in Nat /\ past.faults \in Nat
  BY <1>1 DEF PastSet
<1>3. /\ Requests \in Nat /\ Len(log) \in Nat
      /\ LastStatus \in 1..Len(log) /\ LastRequest \in 0..Len(log) /\ LastRunning \in 0..LastStatus
      /\ Requests = 0 <=> LastRequest = 0
  BY <1>1, LogFacts
<1>4. Again \subseteq Exec /\ Delivered \subseteq Exec /\ Active \subseteq Exec /\ tosend \subseteq Exec
  BY <1>1 DEF Again, Delivered, Active, Types
<1>5. MaxEvents \in Nat /\ \A d \in Exec : d \in Nat /\ d # 0
  BY ExecFacts
<1>6. Requests <= MaxEvents
  BY <1>1, <1>2, <1>3, <1>5 DEF Budget
<1>7. LastRequest > LastRunning => Requests \in Exec
  BY <1>3, <1>5, <1>6, ExecFacts
<1>8. LastStatus \in Nat /\ LastRequest \in Nat /\ LastRunning \in Nat
  BY <1>3
<1> QED BY <1>1, <1>2, <1>3, <1>4, <1>5, <1>7, <1>8

\* Until a stray execution has set the status, an execution at work is the one
\* that runs the brief, or it is about to answer.
LEMMA ActiveFacts ==
    ASSUME Inv, Clean, NEW e \in Active \ Stray
    PROVE  /\ e = Requests /\ e \in Exec
           /\ \/ WorkStatus = "running" /\ LastRequest > LastRunning /\ CurrentRequest = e
              \/ turn.call = "handler" /\ turn.at = "answer" /\ turn.arg = e
BY Views DEF Inv, Honest, CurrentRequestBy, Active

\* The commits and callers the actions name.
LEMMA Named ==
    /\ "running" \in Commits /\ "request" \in Commits /\ "discard" \in Commits /\ "settle" \in Commits
    /\ "note" \in Commits /\ "open" \in Commits /\ "take" \in Commits /\ "dispatch" \in Commits
    /\ "restore" \in Commits /\ "put" \in Commits /\ "undo" \in Commits /\ "return" \in Commits
    /\ "stop" \in Commits /\ "cancelled" \in Commits /\ "stamp" \in Commits /\ "load" \in Commits
    /\ "compile" \in Commits /\ "bill" \in Commits /\ "publish" \in Commits /\ "complete" \in Commits
    /\ "fail" \in Commits /\ "answer" \in Commits /\ "close" \in Commits /\ "rows" \in Commits
    /\ "work" \in Commits /\ "release" \in Commits /\ "sync" \in Commits
    /\ "execute" \in Callers /\ "rework" \in Callers /\ "rerun" \in Callers /\ "boot" \in Callers
BY DEF Commits, Callers

\* The turn after an action: the same chain at another commit, none, or a new chain.
GoesTo(at) ==
    /\ turn' \in TurnSet /\ turn'.call = turn.call /\ turn'.at = at /\ turn'.arg = turn.arg
    /\ turn'.prior = turn.prior /\ turn'.held = turn.held
Rests == turn' = Idle /\ turn' \in TurnSet /\ turn'.call = "none" /\ turn'.at = "none"
Opens(call, at, arg) ==
    /\ turn' \in TurnSet /\ turn'.call = call /\ turn'.at = at /\ turn'.arg = arg
    /\ turn'.prior = "none" /\ turn'.held = 0

\* A chain goes on to its next commit.
LEMMA Goes ==
    ASSUME NEW at \in Commits, turn \in TurnSet, Step(at)
    PROVE  GoesTo(at)
BY StepFacts DEF GoesTo

\* A chain ends.
LEMMA Ends ==
    Done => Rests
BY IdleFacts DEF Done, Rests

\* A call begins its chain.
LEMMA Starts ==
    ASSUME NEW call \in Callers \union {"cancel", "handler"}, NEW at \in Commits, NEW arg \in Nat,
           turn' = Turn(call, at, arg)
    PROVE  Opens(call, at, arg)
BY TurnFacts DEF Opens

\* A handler gets the loop.
LEMMA Hands ==
    ASSUME NEW at \in Commits, NEW e \in Nat, Handle(at, e)
    PROVE  Opens("handler", at, e)
BY Starts DEF Handle

\* What a new status adds: it is stray's own, or no stray execution has set one.
LEMMA StatusEffects ==
    ASSUME Inv, Stray' = Stray, \E e : LogGrows(e) /\ IsStatus(e)
    PROVE  /\ Entries' /\ Again' = Again
           /\ Clean' => Clean /\ log'[Len(log')].of \notin Stray
<1>1. PICK e : LogGrows(e) /\ IsStatus(e)
  OBVIOUS
<1>2. ~IsRequest(e) /\ ~IsReworkRequest(e)
  BY <1>1 DEF IsStatus, IsRequest, IsReworkRequest
<1>3. LogOK /\ Entries
  BY InvParts DEF Inv
<1>4. Entries' /\ Again' = Again
  BY <1>1, <1>2, <1>3, EntriesGrow, AgainGrows
<1>5. (Clean' => Clean) /\ (Clean' => e.of \notin Stray)
  BY <1>1, <1>3, CleanGrows
<1>6. log'[Len(log')] = e
  BY <1>1 DEF LogGrows
<1> QED BY <1>4, <1>5, <1>6

\* What a decision keeps of the invariant.
LEMMA DecisionEffects ==
    ASSUME Inv, Stray' = Stray, \E e : LogGrows(e) /\ e.kind = "decision"
    PROVE  Entries' /\ Again' = Again /\ (Clean' => Clean)
<1>1. PICK e : LogGrows(e) /\ e.kind = "decision"
  OBVIOUS
<1>2. ~IsRequest(e) /\ ~IsReworkRequest(e)
  BY <1>1 DEF IsRequest, IsReworkRequest
<1>3. LogOK /\ Entries
  BY InvParts DEF Inv
<1> QED BY <1>1, <1>2, <1>3, EntriesGrow, AgainGrows, CleanGrows

\* A new status keeps Marks, if a reopen follows a final one.
LEMMA StatusMarks ==
    ASSUME LogOK, LastStatus' = Len(log) + 1, Len(log') = Len(log) + 1, RequestKept,
           Before' = LastStatus, BeforeWhat' = WorkStatus,
           Why' \in {"rework", "rerun"} => WorkStatus' \in {"pending", "completed", "failed"},
           Why' \in {"rework", "rerun"} /\ WorkStatus' = "pending" => WorkStatus \in {"completed", "failed"}
    PROVE  Marks' /\ ~(LastRequest' > LastStatus')
<1>1. Len(log) \in Nat /\ LastRequest \in 0..Len(log) /\ LastStatus # 0
  BY LogFacts
<1>2. ~(LastRequest' > LastStatus')
  BY <1>1 DEF RequestKept
<1>3. \A d \in 1..Len(log') : ~(LastStatus' < d)
  BY <1>1
<1> QED BY <1>1, <1>2, <1>3 DEF Marks, Reopened

\* The row of one execution gets a new status.
RowSet(e, status) ==
    /\ rows' \in [Exec -> Row] /\ rows'[e].status = status /\ rows'[e].answer = rows[e].answer
    /\ \A d \in Exec : d # e => rows'[d] = rows[d]

PlaceSet(e, at) ==
    /\ place' \in [Exec -> {"none", "step", "model"}] /\ place'[e] = at
    /\ \A d \in Exec : d # e => place'[d] = place[d]

\* A handler that fails is queued again or given up.
LEMMA TryAgainFacts ==
    ASSUME rows \in [Exec -> Row], NEW e \in Exec, TryAgain(e)
    PROVE  \/ RowSet(e, "queued") /\ Rests
           \/ RowSet(e, "failed") /\ Opens("handler", "close", e)
<1>1. rows[e] \in Row /\ e \in Nat /\ MaxRetries \in Nat
  BY ExecFacts, BriefDeliveryAssumption
<1>2. CASE CanRetry(e) /\ rows' = [rows EXCEPT ![e].status = "queued", ![e].tries = @ + 1] /\ Done
  <2>1. rows'[e] = [status |-> "queued", tries |-> rows[e].tries + 1, answer |-> rows[e].answer]
    BY <1>1, <1>2 DEF Row
  <2>2. rows[e].tries + 1 \in 0..MaxRetries
    BY <1>1, <1>2 DEF Row, CanRetry
  <2>3. rows'[e] \in Row
    BY <1>1, <2>1, <2>2 DEF Row
  <2>4. (\A d \in Exec : d # e => rows'[d] = rows[d]) /\ DOMAIN rows' = Exec
    BY <1>2
  <2>5. rows' = [d \in Exec |-> rows'[d]]
    BY <1>2
  <2> QED BY <1>2, <2>1, <2>3, <2>4, <2>5, Ends DEF RowSet
<1>3. CASE rows' = [rows EXCEPT ![e].status = "failed"] /\ Handle("close", e)
  <2>1. RowSet(e, "failed")
    BY <1>1, <1>3 DEF RowSet, Row
  <2> QED BY <1>1, <1>3, <2>1, Named, Hands
<1> QED BY <1>2, <1>3 DEF TryAgain

\* A handler returns: its row is completed, with its answer.
RowDone(e, answer) ==
    /\ rows' \in [Exec -> Row] /\ rows'[e].status = "completed" /\ rows'[e].answer = answer
    /\ \A d \in Exec : d # e => rows'[d] = rows[d]

\* A handler that returns completes its row with its answer.
LEMMA ReturnFacts ==
    ASSUME rows \in [Exec -> Row], NEW e \in Exec, e = turn.arg,
           NEW answer \in {"completed", "failed", "cancelled"}, Return(answer)
    PROVE  RowDone(e, answer)
<1>1. rows' = [rows EXCEPT ![e].status = "completed", ![e].answer = answer]
  BY DEF Return
<1>2. rows[e] \in Row
  OBVIOUS
<1>3. rows'[e] = [status |-> "completed", tries |-> rows[e].tries, answer |-> answer]
  BY <1>1, <1>2 DEF Row
<1>4. rows'[e] \in Row
  BY <1>2, <1>3 DEF Row
<1>5. (\A d \in Exec : d # e => rows'[d] = rows[d]) /\ rows' = [d \in Exec |-> rows'[d]]
  BY <1>1
<1> QED BY <1>3, <1>4, <1>5 DEF RowDone

\* A decision leaves the answers of the log to the other questions.
LEMMA DecisionViews ==
    ASSUME Inv, StatusKept, RunningKept, RequestKept
    PROVE  /\ HalfOpen("rerun")' <=> HalfOpen("rerun")
           /\ HalfOpen("rework")' <=> HalfOpen("rework")
           /\ Prior' = Prior /\ CurrentRequest' = CurrentRequest
BY InvParts, Unchanged, Views, ViewsNext
----------------------------------------------------------------------------
(* Every action keeps the invariant.                                       *)

LEMMA StepExecute ==
    ASSUME Inv, Execute PROVE Inv'
<1> /\ Types /\ Chains /\ Points /\ Budget /\ Rows /\ LogOK /\ turn \in TurnSet /\ past \in PastSet
    /\ Requests \in Nat /\ past.events \in Nat /\ past.faults \in Nat /\ MaxEvents \in Nat
    /\ Len(log) \in Nat /\ LastStatus \in Nat /\ LastRequest \in Nat /\ LastRunning \in Nat
    /\ Again \subseteq Exec /\ Delivered \subseteq Exec /\ Active \subseteq Exec /\ tosend \subseteq Exec
    /\ \A x \in Exec : x \in Nat /\ x # 0
    /\ LastRequest > LastRunning => Requests \in Exec
  BY InvParts
<1>1. LogStill
  BY Still DEF Execute, durable, memory
<1>2. UNCHANGED <<log, versions, dispatched, bills, rows, cursor, stash, tosend, place>>
  BY DEF Execute, durable, memory, Call, Fault
<1>3. turn.call = "none" /\ turn.at = "none"
  BY IdleFacts DEF Execute, Free
<1>4. tosend = {} /\ past.events < MaxEvents /\ PastCounts(past.events + 1, past.faults) /\ Stray' = Stray
  BY CallFacts DEF Execute
<1>5. Opens("execute", "running", 0)
  BY Named, Starts DEF Execute
<1>6. (WorkStatus \in {"pending", "failed"} \/ (WorkStatus = "running" /\ HandlerFailed)) /\ flag' = FALSE
  BY DEF Execute
<1>7. Delivered' = Delivered /\ Active' = Active
  BY <1>2 DEF Delivered, Published, Current, Active, Live
<1>8. Clean' => Clean
  BY <1>1, <1>4, CleanKept DEF LogStill
<1>9. Clean => Active \subseteq Stray
  BY <1>3, <1>4, <1>6, ActiveFacts DEF HandlerFailed, Active, Live
<1>10. Marks' /\ Entries'
  BY <1>1 DEF LogStill
<1>11. Types'
  BY <1>1, <1>2, <1>3, <1>4, <1>5, <1>6, <1>7, <1>8, <1>9 DEF Inv, LogStill, LogKept, Types, LogOK, PastCounts, Opens
<1>12. Chains'
  BY <1>1, <1>2, <1>3, <1>4, <1>5, <1>6, <1>7, <1>8, <1>9 DEF Inv, LogStill, Chains, Of, PastCounts, Opens
<1>13. Points'
  BY <1>1, <1>2, <1>3, <1>4, <1>5, <1>6, <1>7, <1>8, <1>9 DEF Inv, LogStill, LogKept, StatusKept, RequestKept, Points, IsRework, PastCounts, Opens
<1>14. Budget'
  BY <1>1, <1>2, <1>3, <1>4, <1>5, <1>6, <1>7, <1>8, <1>9 DEF Inv, LogStill, LogKept, RequestKept, Budget, Owes, PastCounts, Opens
<1>15. Rows'
  BY <1>1, <1>2, <1>3, <1>4, <1>5, <1>6, <1>7, <1>8, <1>9 DEF Inv, LogStill, LogKept, RequestKept, Rows, PastCounts, Opens
<1>16. Boots'
  BY <1>1, <1>2, <1>3, <1>4, <1>5, <1>6, <1>7, <1>8, <1>9 DEF Inv, LogStill, Boots, PastCounts, Opens
<1>17. Fresh'
  BY <1>1, <1>2, <1>3, <1>4, <1>5, <1>6, <1>7, <1>8, <1>9 DEF Inv, LogStill, LogKept, RequestKept, Fresh, PastCounts, Opens
<1>18. Once'
  BY <1>1, <1>2, <1>3, <1>4, <1>5, <1>6, <1>7, <1>8, <1>9 DEF Inv, LogStill, Once, PastCounts, Opens
<1>19. Undo'
  BY <1>1, <1>2, <1>3, <1>4, <1>5, <1>6, <1>7, <1>8, <1>9 DEF Inv, LogStill, LogKept, StatusKept, Undo, Reopened, HeldIn, PastCounts, Opens
<1>20. BootEnds'
  BY <1>1, <1>2, <1>3, <1>4, <1>5, <1>6, <1>7, <1>8, <1>9 DEF Inv, LogStill, LogKept, StatusKept, BootEnds, SomeCarried, Carried, PastCounts, Opens
<1>21. Honest'
  BY <1>1, <1>2, <1>3, <1>4, <1>5, <1>6, <1>7, <1>8, <1>9 DEF Inv, LogStill, LogKept, StatusKept, RunningKept, RequestKept, Honest, Quiet, PastCounts, Opens
<1>22. Carry'
  BY <1>1, <1>2, <1>3, <1>4, <1>5, <1>6, <1>7, <1>8, <1>9 DEF Inv, LogStill, LogKept, StatusKept, RunningKept, RequestKept, Carry, Carried, PastCounts, Opens
<1>23. Reads'
  BY <1>1, <1>2, <1>3, <1>4, <1>5, <1>6, <1>7, <1>8, <1>9 DEF Inv, LogStill, Reads, PastCounts, Opens
<1> QED BY <1>10, <1>11, <1>12, <1>13, <1>14, <1>15, <1>16, <1>17, <1>18, <1>19, <1>20, <1>21, <1>22, <1>23 DEF Inv, Shape

LEMMA StepRerun ==
    ASSUME Inv, Rerun PROVE Inv'
<1> /\ Types /\ Chains /\ Points /\ Budget /\ Rows /\ LogOK /\ turn \in TurnSet /\ past \in PastSet
    /\ Requests \in Nat /\ past.events \in Nat /\ past.faults \in Nat /\ MaxEvents \in Nat
    /\ Len(log) \in Nat /\ LastStatus \in Nat /\ LastRequest \in Nat /\ LastRunning \in Nat
    /\ Again \subseteq Exec /\ Delivered \subseteq Exec /\ Active \subseteq Exec /\ tosend \subseteq Exec
    /\ \A x \in Exec : x \in Nat /\ x # 0
    /\ LastRequest > LastRunning => Requests \in Exec
  BY InvParts
<1>1. LogStill
  BY Still DEF Rerun, durable, memory
<1>2. UNCHANGED <<log, versions, dispatched, bills, rows, cursor, stash, tosend, flag, place>>
  BY DEF Rerun, durable, memory, Call, Fault
<1>3. turn.call = "none" /\ turn.at = "none"
  BY IdleFacts DEF Rerun, Free
<1>4. tosend = {} /\ past.events < MaxEvents /\ PastCounts(past.events + 1, past.faults) /\ Stray' = Stray
  BY CallFacts DEF Rerun
<1>5. Opens("rerun", "open", 0)
  BY Named, Starts DEF Rerun
<1>6. WorkStatus = "completed"
  BY DEF Rerun
<1>7. Delivered' = Delivered /\ Active' = Active
  BY <1>2 DEF Delivered, Published, Current, Active, Live
<1>8. Clean' => Clean
  BY <1>1, <1>4, CleanKept DEF LogStill
<1>9. Clean => Active \subseteq Stray
  BY <1>3, <1>6, ActiveFacts
<1>10. Marks' /\ Entries'
  BY <1>1 DEF LogStill
<1>11. Types'
  BY <1>1, <1>2, <1>3, <1>4, <1>5, <1>6, <1>7, <1>8, <1>9 DEF Inv, LogStill, LogKept, Types, LogOK, PastCounts, Opens
<1>12. Chains'
  BY <1>1, <1>2, <1>3, <1>4, <1>5, <1>6, <1>7, <1>8, <1>9 DEF Inv, LogStill, Chains, Of, PastCounts, Opens
<1>13. Points'
  BY <1>1, <1>2, <1>3, <1>4, <1>5, <1>6, <1>7, <1>8, <1>9 DEF Inv, LogStill, LogKept, StatusKept, RequestKept, Points, IsRework, PastCounts, Opens
<1>14. Budget'
  BY <1>1, <1>2, <1>3, <1>4, <1>5, <1>6, <1>7, <1>8, <1>9 DEF Inv, LogStill, LogKept, RequestKept, Budget, Owes, PastCounts, Opens
<1>15. Rows'
  BY <1>1, <1>2, <1>3, <1>4, <1>5, <1>6, <1>7, <1>8, <1>9 DEF Inv, LogStill, LogKept, RequestKept, Rows, PastCounts, Opens
<1>16. Boots'
  BY <1>1, <1>2, <1>3, <1>4, <1>5, <1>6, <1>7, <1>8, <1>9 DEF Inv, LogStill, Boots, PastCounts, Opens
<1>17. Fresh'
  BY <1>1, <1>2, <1>3, <1>4, <1>5, <1>6, <1>7, <1>8, <1>9 DEF Inv, LogStill, LogKept, RequestKept, Fresh, PastCounts, Opens
<1>18. Once'
  BY <1>1, <1>2, <1>3, <1>4, <1>5, <1>6, <1>7, <1>8, <1>9 DEF Inv, LogStill, Once, PastCounts, Opens
<1>19. Undo'
  BY <1>1, <1>2, <1>3, <1>4, <1>5, <1>6, <1>7, <1>8, <1>9 DEF Inv, LogStill, LogKept, StatusKept, Undo, Reopened, HeldIn, PastCounts, Opens
<1>20. BootEnds'
  BY <1>1, <1>2, <1>3, <1>4, <1>5, <1>6, <1>7, <1>8, <1>9 DEF Inv, LogStill, LogKept, StatusKept, BootEnds, SomeCarried, Carried, PastCounts, Opens
<1>21. Honest'
  BY <1>1, <1>2, <1>3, <1>4, <1>5, <1>6, <1>7, <1>8, <1>9 DEF Inv, LogStill, LogKept, StatusKept, RunningKept, RequestKept, Honest, Quiet, PastCounts, Opens
<1>22. Carry'
  BY <1>1, <1>2, <1>3, <1>4, <1>5, <1>6, <1>7, <1>8, <1>9 DEF Inv, LogStill, LogKept, StatusKept, RunningKept, RequestKept, Carry, Carried, PastCounts, Opens
<1>23. Reads'
  BY <1>1, <1>2, <1>3, <1>4, <1>5, <1>6, <1>7, <1>8, <1>9 DEF Inv, LogStill, Reads, PastCounts, Opens
<1> QED BY <1>10, <1>11, <1>12, <1>13, <1>14, <1>15, <1>16, <1>17, <1>18, <1>19, <1>20, <1>21, <1>22, <1>23 DEF Inv, Shape

LEMMA StepRetryRework ==
    ASSUME Inv, NEW d \in 1..Len(log), RetryRework(d) PROVE Inv'
<1> /\ Types /\ Chains /\ Points /\ Budget /\ Rows /\ LogOK /\ turn \in TurnSet /\ past \in PastSet
    /\ Requests \in Nat /\ past.events \in Nat /\ past.faults \in Nat /\ MaxEvents \in Nat
    /\ Len(log) \in Nat /\ LastStatus \in Nat /\ LastRequest \in Nat /\ LastRunning \in Nat
    /\ Again \subseteq Exec /\ Delivered \subseteq Exec /\ Active \subseteq Exec /\ tosend \subseteq Exec
    /\ \A x \in Exec : x \in Nat /\ x # 0
    /\ LastRequest > LastRunning => Requests \in Exec
  BY InvParts
<1>1. LogStill
  BY Still DEF RetryRework, durable, memory
<1>2. UNCHANGED <<log, versions, dispatched, bills, rows, cursor, stash, tosend, flag, place>>
  BY DEF RetryRework, durable, memory, Call, Fault
<1>3. turn.call = "none" /\ turn.at = "none"
  BY IdleFacts DEF RetryRework, Free
<1>4. tosend = {} /\ past.events < MaxEvents /\ PastCounts(past.events + 1, past.faults) /\ Stray' = Stray
  BY CallFacts DEF RetryRework
<1>5. Opens("rework", "settle", d)
  BY Named, Starts DEF RetryRework
<1>6. log[d].kind = "decision" /\ IsRework(d)
  BY DEF RetryRework
<1>7. Delivered' = Delivered /\ Active' = Active
  BY <1>2 DEF Delivered, Published, Current, Active, Live
<1>8. Clean' => Clean
  BY <1>1, <1>4, CleanKept DEF LogStill
<1>9. Marks' /\ Entries'
  BY <1>1 DEF LogStill
<1>10. Types'
  BY <1>1, <1>2, <1>3, <1>4, <1>5, <1>6, <1>7, <1>8 DEF Inv, LogStill, LogKept, Types, LogOK, PastCounts, Opens
<1>11. Chains'
  BY <1>1, <1>2, <1>3, <1>4, <1>5, <1>6, <1>7, <1>8 DEF Inv, LogStill, Chains, Of, PastCounts, Opens
<1>12. Points'
  BY <1>1, <1>2, <1>3, <1>4, <1>5, <1>6, <1>7, <1>8 DEF Inv, LogStill, LogKept, StatusKept, RequestKept, Points, IsRework, PastCounts, Opens
<1>13. Budget'
  BY <1>1, <1>2, <1>3, <1>4, <1>5, <1>6, <1>7, <1>8 DEF Inv, LogStill, LogKept, RequestKept, Budget, Owes, PastCounts, Opens
<1>14. Rows'
  BY <1>1, <1>2, <1>3, <1>4, <1>5, <1>6, <1>7, <1>8 DEF Inv, LogStill, LogKept, RequestKept, Rows, PastCounts, Opens
<1>15. Boots'
  BY <1>1, <1>2, <1>3, <1>4, <1>5, <1>6, <1>7, <1>8 DEF Inv, LogStill, Boots, PastCounts, Opens
<1>16. Fresh'
  BY <1>1, <1>2, <1>3, <1>4, <1>5, <1>6, <1>7, <1>8 DEF Inv, LogStill, LogKept, RequestKept, Fresh, PastCounts, Opens
<1>17. Once'
  BY <1>1, <1>2, <1>3, <1>4, <1>5, <1>6, <1>7, <1>8 DEF Inv, LogStill, Once, PastCounts, Opens
<1>18. Undo'
  BY <1>1, <1>2, <1>3, <1>4, <1>5, <1>6, <1>7, <1>8 DEF Inv, LogStill, LogKept, StatusKept, Undo, Reopened, HeldIn, PastCounts, Opens
<1>19. BootEnds'
  BY <1>1, <1>2, <1>3, <1>4, <1>5, <1>6, <1>7, <1>8 DEF Inv, LogStill, LogKept, StatusKept, BootEnds, SomeCarried, Carried, PastCounts, Opens
<1>20. Honest'
  BY <1>1, <1>2, <1>3, <1>4, <1>5, <1>6, <1>7, <1>8 DEF Inv, LogStill, LogKept, StatusKept, RunningKept, RequestKept, Honest, Quiet, PastCounts, Opens
<1>21. Carry'
  BY <1>1, <1>2, <1>3, <1>4, <1>5, <1>6, <1>7, <1>8 DEF Inv, LogStill, LogKept, StatusKept, RunningKept, RequestKept, Carry, Carried, PastCounts, Opens
<1>22. Reads'
  BY <1>1, <1>2, <1>3, <1>4, <1>5, <1>6, <1>7, <1>8 DEF Inv, LogStill, Reads, PastCounts, Opens
<1> QED BY <1>9, <1>10, <1>11, <1>12, <1>13, <1>14, <1>15, <1>16, <1>17, <1>18, <1>19, <1>20, <1>21, <1>22 DEF Inv, Shape

LEMMA StepDiscardStash ==
    ASSUME Inv, DiscardStash PROVE Inv'
<1> /\ Types /\ Chains /\ Points /\ Budget /\ Rows /\ LogOK /\ turn \in TurnSet /\ past \in PastSet
    /\ Requests \in Nat /\ past.events \in Nat /\ past.faults \in Nat /\ MaxEvents \in Nat
    /\ Len(log) \in Nat /\ LastStatus \in Nat /\ LastRequest \in Nat /\ LastRunning \in Nat
    /\ Again \subseteq Exec /\ Delivered \subseteq Exec /\ Active \subseteq Exec /\ tosend \subseteq Exec
    /\ \A x \in Exec : x \in Nat /\ x # 0
    /\ LastRequest > LastRunning => Requests \in Exec
  BY InvParts
<1>1. LogStill
  BY Still DEF DiscardStash, durable, memory
<1>2. UNCHANGED <<log, versions, dispatched, bills, rows, cursor, tosend, flag, place, past>>
  BY DEF DiscardStash, durable, memory, Call, Fault
<1>3. turn.call \in {"execute", "rework", "rerun", "boot"} /\ turn.at = "discard"
  BY DEF DiscardStash, At
<1>4. /\ stash' = 0
      /\ turn.call = "rework" => GoesTo("dispatch")
      /\ turn.call = "boot" => GoesTo("release")
      /\ turn.call \notin {"rework", "boot"} => Rests
  BY Named, Goes, Ends DEF DiscardStash
<1>5. Delivered' = Delivered /\ Active' = Active /\ Stray' = Stray
  BY <1>2 DEF Delivered, Published, Current, Active, Live, Stray
<1>6. Clean' => Clean
  BY <1>1, <1>5, CleanKept DEF LogStill
<1>7. Marks' /\ Entries'
  BY <1>1 DEF LogStill
<1>8. Types'
  BY <1>1, <1>2, <1>3, <1>4, <1>5, <1>6 DEF Inv, LogStill, LogKept, Types, LogOK, GoesTo, Rests
<1>9. Chains'
  BY <1>1, <1>2, <1>3, <1>4, <1>5, <1>6 DEF Inv, LogStill, Chains, Of, GoesTo, Rests
<1>10. Points'
  BY <1>1, <1>2, <1>3, <1>4, <1>5, <1>6 DEF Inv, LogStill, LogKept, StatusKept, RequestKept, Points, IsRework, GoesTo, Rests
<1>11. Budget'
  BY <1>1, <1>2, <1>3, <1>4, <1>5, <1>6 DEF Inv, LogStill, LogKept, RequestKept, Budget, Owes, GoesTo, Rests
<1>12. Rows'
  BY <1>1, <1>2, <1>3, <1>4, <1>5, <1>6 DEF Inv, LogStill, LogKept, RequestKept, Rows, GoesTo, Rests
<1>13. Boots'
  BY <1>1, <1>2, <1>3, <1>4, <1>5, <1>6 DEF Inv, LogStill, Boots, GoesTo, Rests
<1>14. Fresh'
  BY <1>1, <1>2, <1>3, <1>4, <1>5, <1>6 DEF Inv, LogStill, LogKept, RequestKept, Fresh, GoesTo, Rests
<1>15. Once'
  BY <1>1, <1>2, <1>3, <1>4, <1>5, <1>6 DEF Inv, LogStill, Once, GoesTo, Rests
<1>16. Undo'
  BY <1>1, <1>2, <1>3, <1>4, <1>5, <1>6 DEF Inv, LogStill, LogKept, StatusKept, Undo, Reopened, HeldIn, GoesTo, Rests
<1>17. BootEnds'
  BY <1>1, <1>2, <1>3, <1>4, <1>5, <1>6 DEF Inv, LogStill, LogKept, StatusKept, BootEnds, SomeCarried, Carried, GoesTo, Rests
<1>18. Honest'
  BY <1>1, <1>2, <1>3, <1>4, <1>5, <1>6 DEF Inv, LogStill, LogKept, StatusKept, RunningKept, RequestKept, Honest, Quiet, GoesTo, Rests
<1>19. Carry'
  BY <1>1, <1>2, <1>3, <1>4, <1>5, <1>6 DEF Inv, LogStill, LogKept, StatusKept, RunningKept, RequestKept, Carry, Carried, GoesTo, Rests
<1>20. Reads'
  BY <1>1, <1>2, <1>3, <1>4, <1>5, <1>6 DEF Inv, LogStill, Reads, GoesTo, Rests
<1> QED BY <1>7, <1>8, <1>9, <1>10, <1>11, <1>12, <1>13, <1>14, <1>15, <1>16, <1>17, <1>18, <1>19, <1>20 DEF Inv, Shape

LEMMA StepMarkDispatched ==
    ASSUME Inv, MarkDispatched PROVE Inv'
<1> /\ Types /\ Chains /\ Points /\ Budget /\ Rows /\ LogOK /\ turn \in TurnSet /\ past \in PastSet
    /\ Requests \in Nat /\ past.events \in Nat /\ past.faults \in Nat /\ MaxEvents \in Nat
    /\ Len(log) \in Nat /\ LastStatus \in Nat /\ LastRequest \in Nat /\ LastRunning \in Nat
    /\ Again \subseteq Exec /\ Delivered \subseteq Exec /\ Active \subseteq Exec /\ tosend \subseteq Exec
    /\ \A x \in Exec : x \in Nat /\ x # 0
    /\ LastRequest > LastRunning => Requests \in Exec
  BY InvParts
<1>1. LogStill
  BY Still DEF MarkDispatched, durable, memory
<1>2. UNCHANGED <<log, versions, bills, rows, cursor, stash, tosend, flag, place, past>>
  BY DEF MarkDispatched, durable, memory, Call, Fault
<1>3. turn.call \in {"rework"} /\ turn.at = "dispatch"
  BY DEF MarkDispatched, At
<1>4. dispatched' = dispatched \union {turn.arg}
  BY DEF MarkDispatched
<1>5. Rests
  BY Ends DEF MarkDispatched
<1>6. Delivered' = Delivered /\ Active' = Active /\ Stray' = Stray
  BY <1>2 DEF Delivered, Published, Current, Active, Live, Stray
<1>7. Clean' => Clean
  BY <1>1, <1>6, CleanKept DEF LogStill
<1>8. turn.arg \in 1..Len(log)
  BY <1>3 DEF Points
<1>9. Marks' /\ Entries'
  BY <1>1 DEF LogStill
<1>10. Types'
  BY <1>1, <1>2, <1>3, <1>4, <1>5, <1>6, <1>7, <1>8 DEF Inv, LogStill, LogKept, Types, LogOK, Rests
<1>11. Chains'
  BY <1>1, <1>2, <1>3, <1>4, <1>5, <1>6, <1>7, <1>8 DEF Inv, LogStill, Chains, Of, Rests
<1>12. Points'
  BY <1>1, <1>2, <1>3, <1>4, <1>5, <1>6, <1>7, <1>8 DEF Inv, LogStill, LogKept, StatusKept, RequestKept, Points, IsRework, Rests
<1>13. Budget'
  BY <1>1, <1>2, <1>3, <1>4, <1>5, <1>6, <1>7, <1>8 DEF Inv, LogStill, LogKept, RequestKept, Budget, Owes, Rests
<1>14. Rows'
  BY <1>1, <1>2, <1>3, <1>4, <1>5, <1>6, <1>7, <1>8 DEF Inv, LogStill, LogKept, RequestKept, Rows, Rests
<1>15. Boots'
  BY <1>1, <1>2, <1>3, <1>4, <1>5, <1>6, <1>7, <1>8 DEF Inv, LogStill, Boots, Rests
<1>16. Fresh'
  BY <1>1, <1>2, <1>3, <1>4, <1>5, <1>6, <1>7, <1>8 DEF Inv, LogStill, LogKept, RequestKept, Fresh, Rests
<1>17. Once'
  BY <1>1, <1>2, <1>3, <1>4, <1>5, <1>6, <1>7, <1>8 DEF Inv, LogStill, Once, Rests
<1>18. Undo'
  BY <1>1, <1>2, <1>3, <1>4, <1>5, <1>6, <1>7, <1>8 DEF Inv, LogStill, LogKept, StatusKept, Undo, Reopened, HeldIn, Rests
<1>19. BootEnds'
  BY <1>1, <1>2, <1>3, <1>4, <1>5, <1>6, <1>7, <1>8 DEF Inv, LogStill, LogKept, StatusKept, BootEnds, SomeCarried, Carried, Rests
<1>20. Honest'
  BY <1>1, <1>2, <1>3, <1>4, <1>5, <1>6, <1>7, <1>8 DEF Inv, LogStill, LogKept, StatusKept, RunningKept, RequestKept, Honest, Quiet, Rests
<1>21. Carry'
  BY <1>1, <1>2, <1>3, <1>4, <1>5, <1>6, <1>7, <1>8 DEF Inv, LogStill, LogKept, StatusKept, RunningKept, RequestKept, Carry, Carried, Rests
<1>22. Reads'
  BY <1>1, <1>2, <1>3, <1>4, <1>5, <1>6, <1>7, <1>8 DEF Inv, LogStill, Reads, Rests
<1> QED BY <1>9, <1>10, <1>11, <1>12, <1>13, <1>14, <1>15, <1>16, <1>17, <1>18, <1>19, <1>20, <1>21, <1>22 DEF Inv, Shape

LEMMA StepSettle ==
    ASSUME Inv, Settle PROVE Inv'
<1> /\ Types /\ Chains /\ Points /\ Budget /\ Rows /\ LogOK /\ turn \in TurnSet /\ past \in PastSet
    /\ Requests \in Nat /\ past.events \in Nat /\ past.faults \in Nat /\ MaxEvents \in Nat
    /\ Len(log) \in Nat /\ LastStatus \in Nat /\ LastRequest \in Nat /\ LastRunning \in Nat
    /\ Again \subseteq Exec /\ Delivered \subseteq Exec /\ Active \subseteq Exec /\ tosend \subseteq Exec
    /\ \A x \in Exec : x \in Nat /\ x # 0
    /\ LastRequest > LastRunning => Requests \in Exec
  BY InvParts
<1>1. LogStill
  BY Still DEF Settle, durable, memory
<1>2. UNCHANGED <<log, versions, dispatched, bills, rows, cursor, stash, tosend, flag, place, past>>
  BY DEF Settle, durable, memory, Call, Fault
<1>3. turn.call \in {"rework"} /\ turn.at = "settle"
  BY DEF Settle, At
<1>4. \/ Rests \/ GoesTo("dispatch")
      \/ LastRequest <= turn.arg /\ Prior # "none" /\ stash # 0 /\ GoesTo("restore")
      \/ LastRequest <= turn.arg /\ GoesTo("note")
  <2>1. turn.arg \in Nat
    BY DEF TurnSet
  <2>2. ~Sent(turn.arg) => LastRequest <= turn.arg
    BY <2>1 DEF Sent, RequestedSince
  <2> QED BY <2>2, Named, Goes, Ends DEF Settle
<1>5. Delivered' = Delivered /\ Active' = Active /\ Stray' = Stray
  BY <1>2 DEF Delivered, Published, Current, Active, Live, Stray
<1>6. Clean' => Clean
  BY <1>1, <1>5, CleanKept DEF LogStill
<1>7. turn.arg \in 1..Len(log) /\ log[turn.arg].kind = "decision" /\ log[turn.arg].what = "changes_requested"
  BY <1>3 DEF Points, IsRework
<1>8. Clean /\ LastRequest <= turn.arg => Active \subseteq Stray
  <2>1. SUFFICES ASSUME Clean, LastRequest <= turn.arg, NEW e \in Active \ Stray PROVE FALSE
    OBVIOUS
  <2>2. WorkStatus = "running" /\ LastRequest > LastRunning
    BY <1>3, <2>1, ActiveFacts
  <2>3. LastRunning = LastStatus
    BY <2>2, LogFacts
  <2>4. LastStatus < turn.arg
    BY <2>1, <2>2, <2>3, <1>7
  <2> QED BY <1>7, <2>2, <2>4 DEF Inv, Marks
<1>9. Marks' /\ Entries'
  BY <1>1 DEF LogStill
<1>10. Types'
  BY <1>1, <1>2, <1>3, <1>4, <1>5, <1>6, <1>7, <1>8 DEF Inv, LogStill, LogKept, Types, LogOK, GoesTo, Rests
<1>11. Chains'
  BY <1>1, <1>2, <1>3, <1>4, <1>5, <1>6, <1>7, <1>8 DEF Inv, LogStill, Chains, Of, GoesTo, Rests
<1>12. Points'
  BY <1>1, <1>2, <1>3, <1>4, <1>5, <1>6, <1>7, <1>8 DEF Inv, LogStill, LogKept, StatusKept, RequestKept, Points, IsRework, GoesTo, Rests
<1>13. Budget'
  BY <1>1, <1>2, <1>3, <1>4, <1>5, <1>6, <1>7, <1>8 DEF Inv, LogStill, LogKept, RequestKept, Budget, Owes, GoesTo, Rests
<1>14. Rows'
  BY <1>1, <1>2, <1>3, <1>4, <1>5, <1>6, <1>7, <1>8 DEF Inv, LogStill, LogKept, RequestKept, Rows, GoesTo, Rests
<1>15. Boots'
  BY <1>1, <1>2, <1>3, <1>4, <1>5, <1>6, <1>7, <1>8 DEF Inv, LogStill, Boots, GoesTo, Rests
<1>16. Fresh'
  BY <1>1, <1>2, <1>3, <1>4, <1>5, <1>6, <1>7, <1>8 DEF Inv, LogStill, LogKept, RequestKept, Fresh, GoesTo, Rests
<1>17. Once'
  BY <1>1, <1>2, <1>3, <1>4, <1>5, <1>6, <1>7, <1>8 DEF Inv, LogStill, Once, GoesTo, Rests
<1>18. Undo'
  BY <1>1, <1>2, <1>3, <1>4, <1>5, <1>6, <1>7, <1>8 DEF Inv, LogStill, LogKept, StatusKept, Undo, Reopened, HeldIn, GoesTo, Rests
<1>19. BootEnds'
  BY <1>1, <1>2, <1>3, <1>4, <1>5, <1>6, <1>7, <1>8 DEF Inv, LogStill, LogKept, StatusKept, BootEnds, SomeCarried, Carried, GoesTo, Rests
<1>20. Honest'
  BY <1>1, <1>2, <1>3, <1>4, <1>5, <1>6, <1>7, <1>8 DEF Inv, LogStill, LogKept, StatusKept, RunningKept, RequestKept, Honest, Quiet, GoesTo, Rests
<1>21. Carry'
  BY <1>1, <1>2, <1>3, <1>4, <1>5, <1>6, <1>7, <1>8 DEF Inv, LogStill, LogKept, StatusKept, RunningKept, RequestKept, Carry, Carried, GoesTo, Rests
<1>22. Reads'
  BY <1>1, <1>2, <1>3, <1>4, <1>5, <1>6, <1>7, <1>8 DEF Inv, LogStill, Reads, GoesTo, Rests
<1> QED BY <1>9, <1>10, <1>11, <1>12, <1>13, <1>14, <1>15, <1>16, <1>17, <1>18, <1>19, <1>20, <1>21, <1>22 DEF Inv, Shape

LEMMA StepNoteRework ==
    ASSUME Inv, NoteRework PROVE Inv'
<1> /\ Types /\ Chains /\ Points /\ Budget /\ Rows /\ LogOK /\ turn \in TurnSet /\ past \in PastSet
    /\ Requests \in Nat /\ past.events \in Nat /\ past.faults \in Nat /\ MaxEvents \in Nat
    /\ Len(log) \in Nat /\ LastStatus \in Nat /\ LastRequest \in Nat /\ LastRunning \in Nat
    /\ Again \subseteq Exec /\ Delivered \subseteq Exec /\ Active \subseteq Exec /\ tosend \subseteq Exec
    /\ \A x \in Exec : x \in Nat /\ x # 0
    /\ LastRequest > LastRunning => Requests \in Exec
  BY InvParts
<1>1. LogStill
  BY Still DEF NoteRework, durable, memory
<1>2. UNCHANGED <<log, versions, dispatched, bills, rows, cursor, stash, tosend, flag, place, past>>
  BY DEF NoteRework, durable, memory, Call, Fault
<1>3. turn.call \in {"rework"} /\ turn.at = "note"
  BY DEF NoteRework, At
<1>4. \/ WorkStatus \notin {"completed", "failed"} /\ GoesTo("take")
      \/ /\ WorkStatus \in {"completed", "failed"}
         /\ turn' \in TurnSet /\ turn'.call = turn.call /\ turn'.at = "open" /\ turn'.arg = turn.arg
         /\ turn'.prior = WorkStatus
  <2>1. CASE WorkStatus \notin {"completed", "failed"}
    BY <2>1, Named, Goes DEF NoteRework
  <2>2. CASE WorkStatus \in {"completed", "failed"}
    <3>1. turn' = [turn EXCEPT !.at = "open", !.prior = WorkStatus]
      BY <2>2 DEF NoteRework
    <3>2. turn' = [call |-> turn.call, at |-> "open", arg |-> turn.arg, prior |-> WorkStatus, held |-> turn.held]
      BY <3>1 DEF TurnSet
    <3> QED BY <2>2, <3>2, Named DEF TurnSet, Statuses
  <2> QED BY <2>1, <2>2
<1>5. Delivered' = Delivered /\ Active' = Active /\ Stray' = Stray
  BY <1>2 DEF Delivered, Published, Current, Active, Live, Stray
<1>6. Clean' => Clean
  BY <1>1, <1>5, CleanKept DEF LogStill
<1>7. Clean => Active \subseteq Stray
  BY <1>3 DEF Inv, Honest, Quiet
<1>8. Marks' /\ Entries'
  BY <1>1 DEF LogStill
<1>9. Types'
  BY <1>1, <1>2, <1>3, <1>4, <1>5, <1>6, <1>7 DEF Inv, LogStill, LogKept, Types, LogOK, GoesTo
<1>10. Chains'
  BY <1>1, <1>2, <1>3, <1>4, <1>5, <1>6, <1>7 DEF Inv, LogStill, Chains, Of, GoesTo
<1>11. Points'
  BY <1>1, <1>2, <1>3, <1>4, <1>5, <1>6, <1>7 DEF Inv, LogStill, LogKept, StatusKept, RequestKept, Points, IsRework, GoesTo
<1>12. Budget'
  BY <1>1, <1>2, <1>3, <1>4, <1>5, <1>6, <1>7 DEF Inv, LogStill, LogKept, RequestKept, Budget, Owes, GoesTo
<1>13. Rows'
  BY <1>1, <1>2, <1>3, <1>4, <1>5, <1>6, <1>7 DEF Inv, LogStill, LogKept, RequestKept, Rows, GoesTo
<1>14. Boots'
  BY <1>1, <1>2, <1>3, <1>4, <1>5, <1>6, <1>7 DEF Inv, LogStill, Boots, GoesTo
<1>15. Fresh'
  BY <1>1, <1>2, <1>3, <1>4, <1>5, <1>6, <1>7 DEF Inv, LogStill, LogKept, RequestKept, Fresh, GoesTo
<1>16. Once'
  BY <1>1, <1>2, <1>3, <1>4, <1>5, <1>6, <1>7 DEF Inv, LogStill, Once, GoesTo
<1>17. Undo'
  BY <1>1, <1>2, <1>3, <1>4, <1>5, <1>6, <1>7 DEF Inv, LogStill, LogKept, StatusKept, Undo, Reopened, HeldIn, GoesTo
<1>18. BootEnds'
  BY <1>1, <1>2, <1>3, <1>4, <1>5, <1>6, <1>7 DEF Inv, LogStill, LogKept, StatusKept, BootEnds, SomeCarried, Carried, GoesTo
<1>19. Honest'
  BY <1>1, <1>2, <1>3, <1>4, <1>5, <1>6, <1>7 DEF Inv, LogStill, LogKept, StatusKept, RunningKept, RequestKept, Honest, Quiet, GoesTo
<1>20. Carry'
  BY <1>1, <1>2, <1>3, <1>4, <1>5, <1>6, <1>7 DEF Inv, LogStill, LogKept, StatusKept, RunningKept, RequestKept, Carry, Carried, GoesTo
<1>21. Reads'
  BY <1>1, <1>2, <1>3, <1>4, <1>5, <1>6, <1>7 DEF Inv, LogStill, Reads, GoesTo
<1> QED BY <1>8, <1>9, <1>10, <1>11, <1>12, <1>13, <1>14, <1>15, <1>16, <1>17, <1>18, <1>19, <1>20, <1>21 DEF Inv, Shape

LEMMA StepTakeCursor ==
    ASSUME Inv, TakeCursor PROVE Inv'
<1> /\ Types /\ Chains /\ Points /\ Budget /\ Rows /\ LogOK /\ turn \in TurnSet /\ past \in PastSet
    /\ Requests \in Nat /\ past.events \in Nat /\ past.faults \in Nat /\ MaxEvents \in Nat
    /\ Len(log) \in Nat /\ LastStatus \in Nat /\ LastRequest \in Nat /\ LastRunning \in Nat
    /\ Again \subseteq Exec /\ Delivered \subseteq Exec /\ Active \subseteq Exec /\ tosend \subseteq Exec
    /\ \A x \in Exec : x \in Nat /\ x # 0
    /\ LastRequest > LastRunning => Requests \in Exec
  BY InvParts
<1>1. LogStill
  BY Still DEF TakeCursor, durable, memory
<1>2. UNCHANGED <<log, versions, dispatched, bills, rows, tosend, place, past>>
  BY DEF TakeCursor, durable, memory, Call, Fault
<1>3. turn.call \in {"rework", "rerun"} /\ turn.at = "take"
  BY DEF TakeCursor, At
<1>4. /\ stash' = cursor /\ cursor' = 0
      /\ turn' \in TurnSet /\ turn'.call = turn.call /\ turn'.arg = turn.arg /\ turn'.prior = turn.prior
      /\ \/ WorkStatus = "running" /\ turn'.at = "request" /\ flag' = flag
         \/ WorkStatus # "running" /\ turn'.at = "running" /\ flag' = FALSE
  <2>1. stash' = cursor /\ cursor' = 0
    BY DEF TakeCursor, Left
  <2>2. cursor \in Exec \union {0}
    BY DEF Types
  <2>3. CASE WorkStatus = "running"
    <3>1. turn' = [turn EXCEPT !.at = "request", !.held = cursor] /\ flag' = flag
      BY <2>3 DEF TakeCursor
    <3>2. turn' = [call |-> turn.call, at |-> "request", arg |-> turn.arg, prior |-> turn.prior, held |-> cursor]
      BY <3>1 DEF TurnSet
    <3> QED BY <2>1, <2>2, <2>3, <3>1, <3>2, Named DEF TurnSet
  <2>4. CASE WorkStatus # "running"
    <3>1. turn' = [turn EXCEPT !.at = "running", !.held = cursor] /\ flag' = FALSE
      BY <2>4 DEF TakeCursor
    <3>2. turn' = [call |-> turn.call, at |-> "running", arg |-> turn.arg, prior |-> turn.prior, held |-> cursor]
      BY <3>1 DEF TurnSet
    <3> QED BY <2>1, <2>2, <2>4, <3>1, <3>2, Named DEF TurnSet
  <2> QED BY <2>3, <2>4
<1>5. Delivered' = Delivered /\ Active' = Active /\ Stray' = Stray
  BY <1>2 DEF Delivered, Published, Current, Active, Live, Stray
<1>6. Clean' => Clean
  BY <1>1, <1>5, CleanKept DEF LogStill
<1>7. Clean => Active \subseteq Stray
  BY <1>3 DEF Inv, Honest, Quiet
<1>8. Why \in {"rework", "rerun"} => WorkStatus = "pending"
  BY <1>3, Views DEF Inv, Marks, Points, PriorBy, HalfOpenBy
<1>9. turn.call = "rerun" => WorkStatus # "running"
  BY <1>3, Views DEF Points, HalfOpenBy
<1>10. Marks' /\ Entries'
  BY <1>1 DEF LogStill
<1>11. Types'
  BY <1>1, <1>2, <1>3, <1>4, <1>5, <1>6, <1>7, <1>8, <1>9 DEF Inv, LogStill, LogKept, Types, LogOK
<1>12. Chains'
  BY <1>1, <1>2, <1>3, <1>4, <1>5, <1>6, <1>7, <1>8, <1>9 DEF Inv, LogStill, Chains, Of
<1>13. Points'
  BY <1>1, <1>2, <1>3, <1>4, <1>5, <1>6, <1>7, <1>8, <1>9 DEF Inv, LogStill, LogKept, StatusKept, RequestKept, Points, IsRework
<1>14. Budget'
  BY <1>1, <1>2, <1>3, <1>4, <1>5, <1>6, <1>7, <1>8, <1>9 DEF Inv, LogStill, LogKept, RequestKept, Budget, Owes
<1>15. Rows'
  BY <1>1, <1>2, <1>3, <1>4, <1>5, <1>6, <1>7, <1>8, <1>9 DEF Inv, LogStill, LogKept, RequestKept, Rows
<1>16. Boots'
  BY <1>1, <1>2, <1>3, <1>4, <1>5, <1>6, <1>7, <1>8, <1>9 DEF Inv, LogStill, Boots
<1>17. Fresh'
  BY <1>1, <1>2, <1>3, <1>4, <1>5, <1>6, <1>7, <1>8, <1>9 DEF Inv, LogStill, LogKept, RequestKept, Fresh
<1>18. Once'
  BY <1>1, <1>2, <1>3, <1>4, <1>5, <1>6, <1>7, <1>8, <1>9 DEF Inv, LogStill, Once
<1>19. Undo'
  BY <1>1, <1>2, <1>3, <1>4, <1>5, <1>6, <1>7, <1>8, <1>9 DEF Inv, LogStill, LogKept, StatusKept, Undo, Reopened, HeldIn
<1>20. BootEnds'
  BY <1>1, <1>2, <1>3, <1>4, <1>5, <1>6, <1>7, <1>8, <1>9 DEF Inv, LogStill, LogKept, StatusKept, BootEnds, SomeCarried, Carried
<1>21. Honest'
  BY <1>1, <1>2, <1>3, <1>4, <1>5, <1>6, <1>7, <1>8, <1>9 DEF Inv, LogStill, LogKept, StatusKept, RunningKept, RequestKept, Honest, Quiet
<1>22. Carry'
  BY <1>1, <1>2, <1>3, <1>4, <1>5, <1>6, <1>7, <1>8, <1>9 DEF Inv, LogStill, LogKept, StatusKept, RunningKept, RequestKept, Carry, Carried
<1>23. Reads'
  BY <1>1, <1>2, <1>3, <1>4, <1>5, <1>6, <1>7, <1>8, <1>9 DEF Inv, LogStill, Reads
<1> QED BY <1>10, <1>11, <1>12, <1>13, <1>14, <1>15, <1>16, <1>17, <1>18, <1>19, <1>20, <1>21, <1>22, <1>23 DEF Inv, Shape

LEMMA StepRestoreStash ==
    ASSUME Inv, RestoreStash PROVE Inv'
<1> /\ Types /\ Chains /\ Points /\ Budget /\ Rows /\ LogOK /\ turn \in TurnSet /\ past \in PastSet
    /\ Requests \in Nat /\ past.events \in Nat /\ past.faults \in Nat /\ MaxEvents \in Nat
    /\ Len(log) \in Nat /\ LastStatus \in Nat /\ LastRequest \in Nat /\ LastRunning \in Nat
    /\ Again \subseteq Exec /\ Delivered \subseteq Exec /\ Active \subseteq Exec /\ tosend \subseteq Exec
    /\ \A x \in Exec : x \in Nat /\ x # 0
    /\ LastRequest > LastRunning => Requests \in Exec
  BY InvParts
<1>1. LogStill
  BY Still DEF RestoreStash, durable, memory
<1>2. UNCHANGED <<log, versions, dispatched, bills, rows, tosend, flag, place, past>>
  BY DEF RestoreStash, durable, memory, Call, Fault
<1>3. turn.call \in {"rework", "boot"} /\ turn.at = "restore"
  BY DEF RestoreStash, At
<1>4. cursor' = IF cursor = 0 THEN stash ELSE cursor
  BY DEF RestoreStash, Unstashed
<1>5. stash' = 0
  BY DEF RestoreStash
<1>6. GoesTo("put")
  BY Named, Goes DEF RestoreStash
<1>7. Delivered' = Delivered /\ Active' = Active /\ Stray' = Stray
  BY <1>2 DEF Delivered, Published, Current, Active, Live, Stray
<1>8. Clean' => Clean
  BY <1>1, <1>7, CleanKept DEF LogStill
<1>9. Clean => Active \subseteq Stray
  BY <1>3 DEF Inv, Honest, Quiet
<1>10. WorkStatus = "pending"
  BY <1>3, Views DEF Points, PriorBy, HalfOpenBy
<1>11. Marks' /\ Entries'
  BY <1>1 DEF LogStill
<1>12. Types'
  BY <1>1, <1>2, <1>3, <1>4, <1>5, <1>6, <1>7, <1>8, <1>9, <1>10 DEF Inv, LogStill, LogKept, Types, LogOK, GoesTo
<1>13. Chains'
  BY <1>1, <1>2, <1>3, <1>4, <1>5, <1>6, <1>7, <1>8, <1>9, <1>10 DEF Inv, LogStill, Chains, Of, GoesTo
<1>14. Points'
  BY <1>1, <1>2, <1>3, <1>4, <1>5, <1>6, <1>7, <1>8, <1>9, <1>10 DEF Inv, LogStill, LogKept, StatusKept, RequestKept, Points, IsRework, GoesTo
<1>15. Budget'
  BY <1>1, <1>2, <1>3, <1>4, <1>5, <1>6, <1>7, <1>8, <1>9, <1>10 DEF Inv, LogStill, LogKept, RequestKept, Budget, Owes, GoesTo
<1>16. Rows'
  BY <1>1, <1>2, <1>3, <1>4, <1>5, <1>6, <1>7, <1>8, <1>9, <1>10 DEF Inv, LogStill, LogKept, RequestKept, Rows, GoesTo
<1>17. Boots'
  BY <1>1, <1>2, <1>3, <1>4, <1>5, <1>6, <1>7, <1>8, <1>9, <1>10 DEF Inv, LogStill, Boots, GoesTo
<1>18. Fresh'
  BY <1>1, <1>2, <1>3, <1>4, <1>5, <1>6, <1>7, <1>8, <1>9, <1>10 DEF Inv, LogStill, LogKept, RequestKept, Fresh, GoesTo
<1>19. Once'
  BY <1>1, <1>2, <1>3, <1>4, <1>5, <1>6, <1>7, <1>8, <1>9, <1>10 DEF Inv, LogStill, Once, GoesTo
<1>20. Undo'
  BY <1>1, <1>2, <1>3, <1>4, <1>5, <1>6, <1>7, <1>8, <1>9, <1>10 DEF Inv, LogStill, LogKept, StatusKept, Undo, Reopened, HeldIn, GoesTo
<1>21. BootEnds'
  BY <1>1, <1>2, <1>3, <1>4, <1>5, <1>6, <1>7, <1>8, <1>9, <1>10 DEF Inv, LogStill, LogKept, StatusKept, BootEnds, SomeCarried, Carried, GoesTo
<1>22. Honest'
  BY <1>1, <1>2, <1>3, <1>4, <1>5, <1>6, <1>7, <1>8, <1>9, <1>10 DEF Inv, LogStill, LogKept, StatusKept, RunningKept, RequestKept, Honest, Quiet, GoesTo
<1>23. Carry'
  BY <1>1, <1>2, <1>3, <1>4, <1>5, <1>6, <1>7, <1>8, <1>9, <1>10 DEF Inv, LogStill, LogKept, StatusKept, RunningKept, RequestKept, Carry, Carried, GoesTo
<1>24. Reads'
  BY <1>1, <1>2, <1>3, <1>4, <1>5, <1>6, <1>7, <1>8, <1>9, <1>10 DEF Inv, LogStill, Reads, GoesTo
<1> QED BY <1>11, <1>12, <1>13, <1>14, <1>15, <1>16, <1>17, <1>18, <1>19, <1>20, <1>21, <1>22, <1>23, <1>24 DEF Inv, Shape

LEMMA StepReturnCursor ==
    ASSUME Inv, ReturnCursor PROVE Inv'
<1> /\ Types /\ Chains /\ Points /\ Budget /\ Rows /\ LogOK /\ turn \in TurnSet /\ past \in PastSet
    /\ Requests \in Nat /\ past.events \in Nat /\ past.faults \in Nat /\ MaxEvents \in Nat
    /\ Len(log) \in Nat /\ LastStatus \in Nat /\ LastRequest \in Nat /\ LastRunning \in Nat
    /\ Again \subseteq Exec /\ Delivered \subseteq Exec /\ Active \subseteq Exec /\ tosend \subseteq Exec
    /\ \A x \in Exec : x \in Nat /\ x # 0
    /\ LastRequest > LastRunning => Requests \in Exec
  BY InvParts
<1>1. LogStill
  BY Still DEF ReturnCursor, durable, memory
<1>2. UNCHANGED <<log, versions, dispatched, bills, rows, tosend, flag, place, past>>
  BY DEF ReturnCursor, durable, memory, Call, Fault
<1>3. turn.call \in {"rerun"} /\ turn.at = "return"
  BY DEF ReturnCursor, At
<1>4. \/ cursor' = cursor /\ stash' = stash
      \/ cursor' \in Exec \union {0} /\ stash' = 0
  BY DEF ReturnCursor, TurnSet
<1>5. Rests
  BY Ends DEF ReturnCursor
<1>6. Delivered' = Delivered /\ Active' = Active /\ Stray' = Stray
  BY <1>2 DEF Delivered, Published, Current, Active, Live, Stray
<1>7. Clean' => Clean
  BY <1>1, <1>6, CleanKept DEF LogStill
<1>8. Clean => Active \subseteq Stray
  BY <1>3 DEF Inv, Honest, Quiet
<1>9. Marks' /\ Entries'
  BY <1>1 DEF LogStill
<1>10. Types'
  BY <1>1, <1>2, <1>3, <1>4, <1>5, <1>6, <1>7, <1>8 DEF Inv, LogStill, LogKept, Types, LogOK, Rests
<1>11. Chains'
  BY <1>1, <1>2, <1>3, <1>4, <1>5, <1>6, <1>7, <1>8 DEF Inv, LogStill, Chains, Of, Rests
<1>12. Points'
  BY <1>1, <1>2, <1>3, <1>4, <1>5, <1>6, <1>7, <1>8 DEF Inv, LogStill, LogKept, StatusKept, RequestKept, Points, IsRework, Rests
<1>13. Budget'
  BY <1>1, <1>2, <1>3, <1>4, <1>5, <1>6, <1>7, <1>8 DEF Inv, LogStill, LogKept, RequestKept, Budget, Owes, Rests
<1>14. Rows'
  BY <1>1, <1>2, <1>3, <1>4, <1>5, <1>6, <1>7, <1>8 DEF Inv, LogStill, LogKept, RequestKept, Rows, Rests
<1>15. Boots'
  BY <1>1, <1>2, <1>3, <1>4, <1>5, <1>6, <1>7, <1>8 DEF Inv, LogStill, Boots, Rests
<1>16. Fresh'
  BY <1>1, <1>2, <1>3, <1>4, <1>5, <1>6, <1>7, <1>8 DEF Inv, LogStill, LogKept, RequestKept, Fresh, Rests
<1>17. Once'
  BY <1>1, <1>2, <1>3, <1>4, <1>5, <1>6, <1>7, <1>8 DEF Inv, LogStill, Once, Rests
<1>18. Undo'
  BY <1>1, <1>2, <1>3, <1>4, <1>5, <1>6, <1>7, <1>8 DEF Inv, LogStill, LogKept, StatusKept, Undo, Reopened, HeldIn, Rests
<1>19. BootEnds'
  BY <1>1, <1>2, <1>3, <1>4, <1>5, <1>6, <1>7, <1>8 DEF Inv, LogStill, LogKept, StatusKept, BootEnds, SomeCarried, Carried, Rests
<1>20. Honest'
  BY <1>1, <1>2, <1>3, <1>4, <1>5, <1>6, <1>7, <1>8 DEF Inv, LogStill, LogKept, StatusKept, RunningKept, RequestKept, Honest, Quiet, Rests
<1>21. Carry'
  BY <1>1, <1>2, <1>3, <1>4, <1>5, <1>6, <1>7, <1>8 DEF Inv, LogStill, LogKept, StatusKept, RunningKept, RequestKept, Carry, Carried, Rests
<1>22. Reads'
  BY <1>1, <1>2, <1>3, <1>4, <1>5, <1>6, <1>7, <1>8 DEF Inv, LogStill, Reads, Rests
<1> QED BY <1>9, <1>10, <1>11, <1>12, <1>13, <1>14, <1>15, <1>16, <1>17, <1>18, <1>19, <1>20, <1>21, <1>22 DEF Inv, Shape

LEMMA StepCancel ==
    ASSUME Inv, Cancel PROVE Inv'
<1> /\ Types /\ Chains /\ Points /\ Budget /\ Rows /\ LogOK /\ turn \in TurnSet /\ past \in PastSet
    /\ Requests \in Nat /\ past.events \in Nat /\ past.faults \in Nat /\ MaxEvents \in Nat
    /\ Len(log) \in Nat /\ LastStatus \in Nat /\ LastRequest \in Nat /\ LastRunning \in Nat
    /\ Again \subseteq Exec /\ Delivered \subseteq Exec /\ Active \subseteq Exec /\ tosend \subseteq Exec
    /\ \A x \in Exec : x \in Nat /\ x # 0
    /\ LastRequest > LastRunning => Requests \in Exec
  BY InvParts
<1>1. LogStill
  BY Still DEF Cancel, durable, memory
<1>2. UNCHANGED <<log, versions, dispatched, bills, cursor, stash, tosend>>
  BY DEF Cancel, durable, memory, Call, Fault
<1>3. turn.call = "none" /\ turn.at = "none"
  BY IdleFacts DEF Cancel, Free
<1>4. Opens("cancel", "stop", 0)
  BY Named, Starts DEF Cancel
<1>5. /\ past.events < MaxEvents /\ past' \in PastSet
      /\ past'.events = past.events + 1 /\ past'.faults = past.faults /\ past'.redone = past.redone
      /\ past'.unheard = past.unheard \union tosend /\ past'.held = past.held /\ past'.source = past.source
  <2>1. past.events < MaxEvents /\ past' = [past EXCEPT !.events = @ + 1, !.unheard = @ \union tosend]
    BY DEF Cancel
  <2>2. past' = [events |-> past.events + 1, faults |-> past.faults, redone |-> past.redone,
                 unheard |-> past.unheard \union tosend, held |-> past.held, source |-> past.source]
    BY <2>1 DEF PastSet
  <2>3. past.events + 1 \in Nat /\ past.unheard \union tosend \subseteq Exec
    BY DEF PastSet, Types
  <2> QED BY <2>1, <2>2, <2>3 DEF PastSet
<1>6. /\ flag' = TRUE /\ place' = [e \in Exec |-> "none"]
      /\ rows' = [e \in Exec |-> IF Cancels(e) THEN [rows[e] EXCEPT !.status = "failed"] ELSE rows[e]]
  BY DEF Cancel
<1>7. \A e \in Exec :
                     /\ rows'[e] \in Row /\ rows'[e].answer = rows[e].answer
                     /\ rows'[e].status \notin {"queued", "running"}
                     /\ rows'[e].status = "completed" => rows[e].status = "completed"
                     /\ rows'[e].status = "none" <=> rows[e].status = "none"
  <2>1. SUFFICES ASSUME NEW e \in Exec
                 PROVE  /\ rows'[e] \in Row /\ rows'[e].answer = rows[e].answer
                        /\ rows'[e].status \notin {"queued", "running"}
                        /\ rows'[e].status = "completed" => rows[e].status = "completed"
                        /\ rows'[e].status = "none" <=> rows[e].status = "none"
    OBVIOUS
  <2>2. rows[e] \in Row
    BY DEF Types
  <2>3. CASE rows[e].status \in {"queued", "running"}
    <3>1. rows'[e] = [rows[e] EXCEPT !.status = "failed"]
      BY <2>3, <1>6 DEF Cancels, Live
    <3> QED BY <2>2, <2>3, <3>1 DEF Row
  <2>4. CASE rows[e].status \notin {"queued", "running"}
    <3>1. rows'[e] = rows[e]
      BY <2>4, <1>6 DEF Cancels, Live
    <3> QED BY <2>2, <2>4, <3>1
  <2> QED BY <2>3, <2>4
<1>8. Delivered' = Delivered /\ Stray' = Stray \union tosend /\ Active' \subseteq Stray'
  <2>1. Delivered' = Delivered
    BY <1>2 DEF Delivered, Published, Current
  <2>2. Stray' = Stray \union tosend
    BY <1>5 DEF Stray
  <2>3. Active' \subseteq tosend
    BY <1>2, <1>7 DEF Active, Live
  <2> QED BY <2>1, <2>2, <2>3
<1>9. Clean' => Clean
  BY <1>1, <1>8, CleanKept DEF LogStill
<1>10. Again \subseteq Exec /\ tosend \subseteq Exec
  BY DEF Again, Types
<1>11. Marks' /\ Entries'
  BY <1>1 DEF LogStill
<1>12. Types'
  BY <1>1, <1>2, <1>3, <1>4, <1>5, <1>6, <1>7, <1>8, <1>9, <1>10 DEF Inv, LogStill, LogKept, Types, LogOK, Opens
<1>13. Chains'
  BY <1>1, <1>2, <1>3, <1>4, <1>5, <1>6, <1>7, <1>8, <1>9, <1>10 DEF Inv, LogStill, Chains, Of, Opens
<1>14. Points'
  BY <1>1, <1>2, <1>3, <1>4, <1>5, <1>6, <1>7, <1>8, <1>9, <1>10 DEF Inv, LogStill, LogKept, StatusKept, RequestKept, Points, IsRework, Opens
<1>15. Budget'
  BY <1>1, <1>2, <1>3, <1>4, <1>5, <1>6, <1>7, <1>8, <1>9, <1>10 DEF Inv, LogStill, LogKept, RequestKept, Budget, Owes, Opens
<1>16. Rows'
  <2>1. \A e \in Exec : place'[e] = "none" /\ rows'[e].status # "running"
    BY <1>6, <1>7
  <2>2. \A e \in Exec : rows'[e].status = "completed" => rows'[e].answer # "none"
    BY <1>7 DEF Rows
  <2>3. Requests' = Requests /\ tosend' = tosend
    BY <1>1, <1>2 DEF LogStill, LogKept, RequestKept
  <2>4. \A e \in Exec : rows'[e].status # "none" \/ e \in tosend' => e <= Requests'
    BY <2>3, <1>7 DEF Rows
  <2>5. \A e \in tosend' : rows'[e].status = "none"
    BY <2>3, <1>7, <1>10 DEF Rows
  <2>6. turn'.call # "handler" /\ turn'.at # "close"
    BY <1>4 DEF Opens
  <2> QED BY <2>1, <2>2, <2>4, <2>5, <2>6 DEF Rows
<1>17. Boots'
  BY <1>1, <1>2, <1>3, <1>4, <1>5, <1>6, <1>7, <1>8, <1>9, <1>10 DEF Inv, LogStill, Boots, Opens
<1>18. Fresh'
  BY <1>1, <1>2, <1>3, <1>4, <1>5, <1>6, <1>7, <1>8, <1>9, <1>10 DEF Inv, LogStill, LogKept, RequestKept, Fresh, Opens
<1>19. Once'
  BY <1>1, <1>2, <1>3, <1>4, <1>5, <1>6, <1>7, <1>8, <1>9, <1>10 DEF Inv, LogStill, Once, Opens
<1>20. Undo'
  BY <1>1, <1>2, <1>3, <1>4, <1>5, <1>6, <1>7, <1>8, <1>9, <1>10 DEF Inv, LogStill, LogKept, StatusKept, Undo, Reopened, HeldIn, Opens
<1>21. BootEnds'
  BY <1>1, <1>2, <1>3, <1>4, <1>5, <1>6, <1>7, <1>8, <1>9, <1>10 DEF Inv, LogStill, LogKept, StatusKept, BootEnds, SomeCarried, Carried, Opens
<1>22. Honest'
  BY <1>1, <1>2, <1>3, <1>4, <1>5, <1>6, <1>7, <1>8, <1>9, <1>10 DEF Inv, LogStill, LogKept, StatusKept, RunningKept, RequestKept, Honest, Quiet, Opens
<1>23. Carry'
  BY <1>1, <1>2, <1>3, <1>4, <1>5, <1>6, <1>7, <1>8, <1>9, <1>10 DEF Inv, LogStill, LogKept, StatusKept, RunningKept, RequestKept, Carry, Carried, Opens
<1>24. Reads'
  BY <1>1, <1>2, <1>3, <1>4, <1>5, <1>6, <1>7, <1>8, <1>9, <1>10 DEF Inv, LogStill, Reads, Opens
<1> QED BY <1>11, <1>12, <1>13, <1>14, <1>15, <1>16, <1>17, <1>18, <1>19, <1>20, <1>21, <1>22, <1>23, <1>24 DEF Inv, Shape

LEMMA StepSetRunning ==
    ASSUME Inv, SetRunning PROVE Inv'
<1> /\ Types /\ Chains /\ Points /\ Budget /\ Rows /\ LogOK /\ turn \in TurnSet /\ past \in PastSet
    /\ Requests \in Nat /\ past.events \in Nat /\ past.faults \in Nat /\ MaxEvents \in Nat
    /\ Len(log) \in Nat /\ LastStatus \in Nat /\ LastRequest \in Nat /\ LastRunning \in Nat
    /\ Again \subseteq Exec /\ Delivered \subseteq Exec /\ Active \subseteq Exec /\ tosend \subseteq Exec
    /\ \A x \in Exec : x \in Nat /\ x # 0
    /\ LastRequest > LastRunning => Requests \in Exec
  BY InvParts
<1>1. AddsStatus("running", "none", 0)
  BY Emissions DEF Inv
<1>2. \E e : LogGrows(e) /\ IsStatus(e)
  BY <1>1 DEF AddsStatus, IsStatus, Status
<1>3. turn.call \in {"execute", "rework", "rerun"} /\ turn.at = "running"
  BY DEF SetRunning, At
<1>4. UNCHANGED <<versions, dispatched, bills, rows, cursor, stash, tosend, flag, place, past>>
  BY DEF SetRunning, durable, memory, Return
<1>5. GoesTo("request")
  BY Named, Goes DEF SetRunning
<1>6. Delivered' = Delivered /\ Active' = Active /\ Stray' = Stray
  BY <1>4 DEF Delivered, Published, Current, Active, Live, Stray
<1>7. Entries' /\ Again' = Again /\ (Clean' => Clean /\ log'[Len(log')].of \notin Stray)
  BY <1>2, <1>6, StatusEffects
<1>8. Types'
  BY <1>1, <1>2, <1>3, <1>4, <1>5, <1>6, <1>7 DEF Inv, AddsStatus, LogGrows, StatusKept, RunningKept, RequestKept, Types, LogOK, GoesTo
<1>9. Chains'
  BY <1>1, <1>2, <1>3, <1>4, <1>5, <1>6, <1>7 DEF Inv, AddsStatus, LogGrows, StatusKept, RunningKept, RequestKept, Chains, Of, GoesTo
<1>10. Points'
  BY <1>1, <1>2, <1>3, <1>4, <1>5, <1>6, <1>7, ViewsNext DEF Inv, AddsStatus, LogGrows, StatusKept, RunningKept, RequestKept, HalfOpenBy, PriorBy, CurrentRequestBy, Points, IsRework, GoesTo
<1>11. Budget'
  BY <1>1, <1>2, <1>3, <1>4, <1>5, <1>6, <1>7 DEF Inv, AddsStatus, LogGrows, StatusKept, RunningKept, RequestKept, Budget, Owes, GoesTo
<1>12. Rows'
  BY <1>1, <1>2, <1>3, <1>4, <1>5, <1>6, <1>7 DEF Inv, AddsStatus, LogGrows, StatusKept, RunningKept, RequestKept, Rows, GoesTo
<1>13. Marks'
  BY <1>1, <1>2, <1>3, <1>4, <1>5, <1>6, <1>7, StatusMarks DEF AddsStatus, LogGrows
<1>14. Entries'
  BY <1>1, <1>2, <1>3, <1>4, <1>5, <1>6, <1>7
<1>15. Boots'
  BY <1>1, <1>2, <1>3, <1>4, <1>5, <1>6, <1>7 DEF Inv, AddsStatus, LogGrows, StatusKept, RunningKept, RequestKept, Boots, GoesTo
<1>16. Fresh'
  BY <1>1, <1>2, <1>3, <1>4, <1>5, <1>6, <1>7 DEF Inv, AddsStatus, LogGrows, StatusKept, RunningKept, RequestKept, Fresh, GoesTo
<1>17. Once'
  BY <1>1, <1>2, <1>3, <1>4, <1>5, <1>6, <1>7 DEF Inv, AddsStatus, LogGrows, StatusKept, RunningKept, RequestKept, Once, GoesTo
<1>18. Undo'
  BY <1>1, <1>2, <1>3, <1>4, <1>5, <1>6, <1>7, ViewsNext DEF Inv, AddsStatus, LogGrows, StatusKept, RunningKept, RequestKept, HalfOpenBy, PriorBy, CurrentRequestBy, Undo, Reopened, HeldIn, GoesTo
<1>19. BootEnds'
  BY <1>1, <1>2, <1>3, <1>4, <1>5, <1>6, <1>7 DEF Inv, AddsStatus, LogGrows, StatusKept, RunningKept, RequestKept, BootEnds, SomeCarried, Carried, GoesTo
<1>20. Honest'
  BY <1>1, <1>2, <1>3, <1>4, <1>5, <1>6, <1>7 DEF Inv, AddsStatus, LogGrows, StatusKept, RunningKept, RequestKept, Honest, Quiet, GoesTo
<1>21. Carry'
  BY <1>1, <1>2, <1>3, <1>4, <1>5, <1>6, <1>7, ViewsNext DEF Inv, AddsStatus, LogGrows, StatusKept, RunningKept, RequestKept, HalfOpenBy, PriorBy, CurrentRequestBy, Carry, Carried, GoesTo
<1>22. Reads'
  BY <1>1, <1>2, <1>3, <1>4, <1>5, <1>6, <1>7 DEF Inv, AddsStatus, LogGrows, StatusKept, RunningKept, RequestKept, Reads, GoesTo
<1> QED BY <1>8, <1>9, <1>10, <1>11, <1>12, <1>13, <1>14, <1>15, <1>16, <1>17, <1>18, <1>19, <1>20, <1>21, <1>22 DEF Inv, Shape

LEMMA StepStampRunning ==
    ASSUME Inv, StampRunning PROVE Inv'
<1> /\ Types /\ Chains /\ Points /\ Budget /\ Rows /\ LogOK /\ turn \in TurnSet /\ past \in PastSet
    /\ Requests \in Nat /\ past.events \in Nat /\ past.faults \in Nat /\ MaxEvents \in Nat
    /\ Len(log) \in Nat /\ LastStatus \in Nat /\ LastRequest \in Nat /\ LastRunning \in Nat
    /\ Again \subseteq Exec /\ Delivered \subseteq Exec /\ Active \subseteq Exec /\ tosend \subseteq Exec
    /\ \A x \in Exec : x \in Nat /\ x # 0
    /\ LastRequest > LastRunning => Requests \in Exec
  BY InvParts
<1>1. AddsStatus("running", "none", turn.arg)
  BY Emissions DEF Inv
<1>2. \E e : LogGrows(e) /\ IsStatus(e)
  BY <1>1 DEF AddsStatus, IsStatus, Status
<1>3. turn.call \in {"handler"} /\ turn.at = "stamp"
  BY DEF StampRunning, At
<1>4. UNCHANGED <<versions, dispatched, bills, rows, cursor, stash, tosend, flag, place, past>>
  BY DEF StampRunning, durable, memory, Return
<1>5. GoesTo("load")
  BY Named, Goes DEF StampRunning
<1>6. Delivered' = Delivered /\ Active' = Active /\ Stray' = Stray
  BY <1>4 DEF Delivered, Published, Current, Active, Live, Stray
<1>7. Entries' /\ Again' = Again /\ (Clean' => Clean /\ log'[Len(log')].of \notin Stray)
  BY <1>2, <1>6, StatusEffects
<1>8. ~Clean'
  <2>1. log'[Len(log')].of = turn.arg
    BY <1>1 DEF AddsStatus, LogGrows, Status
  <2>2. Clean => turn.arg \in Stray
    BY <1>3 DEF Inv, Honest
  <2> QED BY <1>7, <2>1, <2>2
<1>9. Types'
  BY <1>1, <1>2, <1>3, <1>4, <1>5, <1>6, <1>7, <1>8 DEF Inv, AddsStatus, LogGrows, StatusKept, RunningKept, RequestKept, Types, LogOK, GoesTo
<1>10. Chains'
  BY <1>1, <1>2, <1>3, <1>4, <1>5, <1>6, <1>7, <1>8 DEF Inv, AddsStatus, LogGrows, StatusKept, RunningKept, RequestKept, Chains, Of, GoesTo
<1>11. Points'
  BY <1>1, <1>2, <1>3, <1>4, <1>5, <1>6, <1>7, <1>8, ViewsNext DEF Inv, AddsStatus, LogGrows, StatusKept, RunningKept, RequestKept, HalfOpenBy, PriorBy, CurrentRequestBy, Points, IsRework, GoesTo
<1>12. Budget'
  BY <1>1, <1>2, <1>3, <1>4, <1>5, <1>6, <1>7, <1>8 DEF Inv, AddsStatus, LogGrows, StatusKept, RunningKept, RequestKept, Budget, Owes, GoesTo
<1>13. Rows'
  BY <1>1, <1>2, <1>3, <1>4, <1>5, <1>6, <1>7, <1>8 DEF Inv, AddsStatus, LogGrows, StatusKept, RunningKept, RequestKept, Rows, GoesTo
<1>14. Marks'
  BY <1>1, <1>2, <1>3, <1>4, <1>5, <1>6, <1>7, <1>8, StatusMarks DEF AddsStatus, LogGrows
<1>15. Entries'
  BY <1>1, <1>2, <1>3, <1>4, <1>5, <1>6, <1>7, <1>8
<1>16. Boots'
  BY <1>1, <1>2, <1>3, <1>4, <1>5, <1>6, <1>7, <1>8 DEF Inv, AddsStatus, LogGrows, StatusKept, RunningKept, RequestKept, Boots, GoesTo
<1>17. Fresh'
  BY <1>1, <1>2, <1>3, <1>4, <1>5, <1>6, <1>7, <1>8 DEF Inv, AddsStatus, LogGrows, StatusKept, RunningKept, RequestKept, Fresh, GoesTo
<1>18. Once'
  BY <1>1, <1>2, <1>3, <1>4, <1>5, <1>6, <1>7, <1>8 DEF Inv, AddsStatus, LogGrows, StatusKept, RunningKept, RequestKept, Once, GoesTo
<1>19. Undo'
  BY <1>1, <1>2, <1>3, <1>4, <1>5, <1>6, <1>7, <1>8, ViewsNext DEF Inv, AddsStatus, LogGrows, StatusKept, RunningKept, RequestKept, HalfOpenBy, PriorBy, CurrentRequestBy, Undo, Reopened, HeldIn, GoesTo
<1>20. BootEnds'
  BY <1>1, <1>2, <1>3, <1>4, <1>5, <1>6, <1>7, <1>8 DEF Inv, AddsStatus, LogGrows, StatusKept, RunningKept, RequestKept, BootEnds, SomeCarried, Carried, GoesTo
<1>21. Honest'
  BY <1>1, <1>2, <1>3, <1>4, <1>5, <1>6, <1>7, <1>8 DEF Inv, AddsStatus, LogGrows, StatusKept, RunningKept, RequestKept, Honest, Quiet, GoesTo
<1>22. Carry'
  BY <1>1, <1>2, <1>3, <1>4, <1>5, <1>6, <1>7, <1>8, ViewsNext DEF Inv, AddsStatus, LogGrows, StatusKept, RunningKept, RequestKept, HalfOpenBy, PriorBy, CurrentRequestBy, Carry, Carried, GoesTo
<1>23. Reads'
  BY <1>1, <1>2, <1>3, <1>4, <1>5, <1>6, <1>7, <1>8 DEF Inv, AddsStatus, LogGrows, StatusKept, RunningKept, RequestKept, Reads, GoesTo
<1> QED BY <1>9, <1>10, <1>11, <1>12, <1>13, <1>14, <1>15, <1>16, <1>17, <1>18, <1>19, <1>20, <1>21, <1>22, <1>23 DEF Inv, Shape

LEMMA StepReopen ==
    ASSUME Inv, Reopen PROVE Inv'
<1> /\ Types /\ Chains /\ Points /\ Budget /\ Rows /\ LogOK /\ turn \in TurnSet /\ past \in PastSet
    /\ Requests \in Nat /\ past.events \in Nat /\ past.faults \in Nat /\ MaxEvents \in Nat
    /\ Len(log) \in Nat /\ LastStatus \in Nat /\ LastRequest \in Nat /\ LastRunning \in Nat
    /\ Again \subseteq Exec /\ Delivered \subseteq Exec /\ Active \subseteq Exec /\ tosend \subseteq Exec
    /\ \A x \in Exec : x \in Nat /\ x # 0
    /\ LastRequest > LastRunning => Requests \in Exec
  BY InvParts
<1>1. AddsStatus("pending", turn.call, 0)
  BY Emissions DEF Inv
<1>2. \E e : LogGrows(e) /\ IsStatus(e)
  BY <1>1 DEF AddsStatus, IsStatus, Status
<1>3. turn.call \in {"rework", "rerun"} /\ turn.at = "open"
  BY DEF Reopen, At
<1>4. UNCHANGED <<versions, dispatched, bills, rows, cursor, stash, tosend, flag, place>>
  BY DEF Reopen, durable, memory, Return
<1>5. GoesTo("take")
  BY Named, Goes DEF Reopen
<1>6. /\ past' \in PastSet /\ past'.held = cursor
      /\ past'.events = past.events /\ past'.faults = past.faults /\ past'.redone = past.redone
      /\ past'.unheard = past.unheard /\ past'.source = past.source
  <2>1. past' = [past EXCEPT !.held = cursor] /\ cursor \in Exec \union {0}
    BY DEF Reopen, Types
  <2> QED BY <2>1 DEF PastSet
<1>7. Delivered' = Delivered /\ Active' = Active /\ Stray' = Stray
  BY <1>4, <1>6 DEF Delivered, Published, Current, Active, Live, Stray
<1>8. Entries' /\ Again' = Again /\ (Clean' => Clean)
  BY <1>2, <1>7, StatusEffects
<1>9. WorkStatus \in {"completed", "failed"}
  BY <1>3 DEF Points
<1>10. Clean => Active \subseteq Stray
  BY <1>3 DEF Inv, Honest, Quiet
<1>11. /\ LastRequest' = LastRequest /\ ~(LastRequest' > LastStatus')
       /\ turn.call = "rework" => turn.prior = WorkStatus
  BY <1>1, <1>3, StatusMarks DEF AddsStatus, LogGrows, RequestKept, Points
<1>12. /\ turn.call = "rework" => Prior' = WorkStatus
       /\ turn.call = "rerun" => HalfOpen("rerun")'
  BY <1>1, <1>9, <1>11, ViewsNext DEF AddsStatus, HalfOpenBy, PriorBy, LogOK
<1>13. turn.call = "rework" =>
          turn.arg \in 1..Len(log') /\ log'[turn.arg] = log[turn.arg] /\ LastRequest <= turn.arg
  BY <1>1, <1>3 DEF AddsStatus, LogGrows, Points
<1>14. Types'
  BY <1>1, <1>2, <1>3, <1>4, <1>5, <1>6, <1>7, <1>8, <1>9, <1>10, <1>11, <1>12, <1>13 DEF Inv, AddsStatus, LogGrows, StatusKept, RunningKept, RequestKept, Types, LogOK, GoesTo
<1>15. Chains'
  BY <1>1, <1>2, <1>3, <1>4, <1>5, <1>6, <1>7, <1>8, <1>9, <1>10, <1>11, <1>12, <1>13 DEF Inv, AddsStatus, LogGrows, StatusKept, RunningKept, RequestKept, Chains, Of, GoesTo
<1>16. Points'
  BY <1>3, <1>5, <1>9, <1>11, <1>12, <1>13 DEF Points, GoesTo, IsRework
<1>17. Budget'
  BY <1>1, <1>2, <1>3, <1>4, <1>5, <1>6, <1>7, <1>8, <1>9, <1>10, <1>11, <1>12, <1>13 DEF Inv, AddsStatus, LogGrows, StatusKept, RunningKept, RequestKept, Budget, Owes, GoesTo
<1>18. Rows'
  BY <1>1, <1>2, <1>3, <1>4, <1>5, <1>6, <1>7, <1>8, <1>9, <1>10, <1>11, <1>12, <1>13 DEF Inv, AddsStatus, LogGrows, StatusKept, RunningKept, RequestKept, Rows, GoesTo
<1>19. Marks'
  BY <1>1, <1>2, <1>3, <1>4, <1>5, <1>6, <1>7, <1>8, <1>9, <1>10, <1>11, <1>12, <1>13, StatusMarks DEF AddsStatus, LogGrows
<1>20. Entries'
  BY <1>1, <1>2, <1>3, <1>4, <1>5, <1>6, <1>7, <1>8, <1>9, <1>10, <1>11, <1>12, <1>13
<1>21. Boots'
  BY <1>1, <1>2, <1>3, <1>4, <1>5, <1>6, <1>7, <1>8, <1>9, <1>10, <1>11, <1>12, <1>13 DEF Inv, AddsStatus, LogGrows, StatusKept, RunningKept, RequestKept, Boots, GoesTo
<1>22. Fresh'
  BY <1>1, <1>2, <1>3, <1>4, <1>5, <1>6, <1>7, <1>8, <1>9, <1>10, <1>11, <1>12, <1>13 DEF Inv, AddsStatus, LogGrows, StatusKept, RunningKept, RequestKept, Fresh, GoesTo
<1>23. Once'
  BY <1>1, <1>2, <1>3, <1>4, <1>5, <1>6, <1>7, <1>8, <1>9, <1>10, <1>11, <1>12, <1>13 DEF Inv, AddsStatus, LogGrows, StatusKept, RunningKept, RequestKept, Once, GoesTo
<1>24. Undo'
  BY <1>1, <1>2, <1>3, <1>4, <1>5, <1>6, <1>7, <1>8, <1>9, <1>10, <1>11, <1>12, <1>13, ViewsNext DEF Inv, AddsStatus, LogGrows, StatusKept, RunningKept, RequestKept, HalfOpenBy, PriorBy, CurrentRequestBy, Undo, Reopened, HeldIn, GoesTo
<1>25. BootEnds'
  BY <1>1, <1>2, <1>3, <1>4, <1>5, <1>6, <1>7, <1>8, <1>9, <1>10, <1>11, <1>12, <1>13 DEF Inv, AddsStatus, LogGrows, StatusKept, RunningKept, RequestKept, BootEnds, SomeCarried, Carried, GoesTo
<1>26. Honest'
  BY <1>1, <1>2, <1>3, <1>4, <1>5, <1>6, <1>7, <1>8, <1>9, <1>10, <1>11, <1>12, <1>13 DEF Inv, AddsStatus, LogGrows, StatusKept, RunningKept, RequestKept, Honest, Quiet, GoesTo
<1>27. Carry'
  BY <1>1, <1>2, <1>3, <1>4, <1>5, <1>6, <1>7, <1>8, <1>9, <1>10, <1>11, <1>12, <1>13, ViewsNext DEF Inv, AddsStatus, LogGrows, StatusKept, RunningKept, RequestKept, HalfOpenBy, PriorBy, CurrentRequestBy, Carry, Carried, GoesTo
<1>28. Reads'
  BY <1>1, <1>2, <1>3, <1>4, <1>5, <1>6, <1>7, <1>8, <1>9, <1>10, <1>11, <1>12, <1>13 DEF Inv, AddsStatus, LogGrows, StatusKept, RunningKept, RequestKept, Reads, GoesTo
<1> QED BY <1>14, <1>15, <1>16, <1>17, <1>18, <1>19, <1>20, <1>21, <1>22, <1>23, <1>24, <1>25, <1>26, <1>27, <1>28 DEF Inv, Shape

LEMMA StepUndoRerun ==
    ASSUME Inv, UndoRerun PROVE Inv'
<1> /\ Types /\ Chains /\ Points /\ Budget /\ Rows /\ LogOK /\ turn \in TurnSet /\ past \in PastSet
    /\ Requests \in Nat /\ past.events \in Nat /\ past.faults \in Nat /\ MaxEvents \in Nat
    /\ Len(log) \in Nat /\ LastStatus \in Nat /\ LastRequest \in Nat /\ LastRunning \in Nat
    /\ Again \subseteq Exec /\ Delivered \subseteq Exec /\ Active \subseteq Exec /\ tosend \subseteq Exec
    /\ \A x \in Exec : x \in Nat /\ x # 0
    /\ LastRequest > LastRunning => Requests \in Exec
  BY InvParts
<1>1. AddsStatus("completed", "rerun", 0)
  BY Emissions DEF Inv
<1>2. \E e : LogGrows(e) /\ IsStatus(e)
  BY <1>1 DEF AddsStatus, IsStatus, Status
<1>3. turn.call \in {"rerun"} /\ turn.at = "undo"
  BY DEF UndoRerun, At
<1>4. UNCHANGED <<versions, dispatched, bills, rows, cursor, stash, tosend, flag, place, past>>
  BY DEF UndoRerun, durable, memory, Return
<1>5. GoesTo("return")
  BY Named, Goes DEF UndoRerun
<1>6. Delivered' = Delivered /\ Active' = Active /\ Stray' = Stray
  BY <1>4 DEF Delivered, Published, Current, Active, Live, Stray
<1>7. Entries' /\ Again' = Again /\ (Clean' => Clean /\ log'[Len(log')].of \notin Stray)
  BY <1>2, <1>6, StatusEffects
<1>8. Clean => Active \subseteq Stray
  BY <1>3 DEF Inv, Honest, Quiet
<1>9. Types'
  BY <1>1, <1>2, <1>3, <1>4, <1>5, <1>6, <1>7, <1>8 DEF Inv, AddsStatus, LogGrows, StatusKept, RunningKept, RequestKept, Types, LogOK, GoesTo
<1>10. Chains'
  BY <1>1, <1>2, <1>3, <1>4, <1>5, <1>6, <1>7, <1>8 DEF Inv, AddsStatus, LogGrows, StatusKept, RunningKept, RequestKept, Chains, Of, GoesTo
<1>11. Points'
  BY <1>1, <1>2, <1>3, <1>4, <1>5, <1>6, <1>7, <1>8, ViewsNext DEF Inv, AddsStatus, LogGrows, StatusKept, RunningKept, RequestKept, HalfOpenBy, PriorBy, CurrentRequestBy, Points, IsRework, GoesTo
<1>12. Budget'
  BY <1>1, <1>2, <1>3, <1>4, <1>5, <1>6, <1>7, <1>8 DEF Inv, AddsStatus, LogGrows, StatusKept, RunningKept, RequestKept, Budget, Owes, GoesTo
<1>13. Rows'
  BY <1>1, <1>2, <1>3, <1>4, <1>5, <1>6, <1>7, <1>8 DEF Inv, AddsStatus, LogGrows, StatusKept, RunningKept, RequestKept, Rows, GoesTo
<1>14. Marks'
  BY <1>1, <1>2, <1>3, <1>4, <1>5, <1>6, <1>7, <1>8, StatusMarks DEF AddsStatus, LogGrows
<1>15. Entries'
  BY <1>1, <1>2, <1>3, <1>4, <1>5, <1>6, <1>7, <1>8
<1>16. Boots'
  BY <1>1, <1>2, <1>3, <1>4, <1>5, <1>6, <1>7, <1>8 DEF Inv, AddsStatus, LogGrows, StatusKept, RunningKept, RequestKept, Boots, GoesTo
<1>17. Fresh'
  BY <1>1, <1>2, <1>3, <1>4, <1>5, <1>6, <1>7, <1>8 DEF Inv, AddsStatus, LogGrows, StatusKept, RunningKept, RequestKept, Fresh, GoesTo
<1>18. Once'
  BY <1>1, <1>2, <1>3, <1>4, <1>5, <1>6, <1>7, <1>8 DEF Inv, AddsStatus, LogGrows, StatusKept, RunningKept, RequestKept, Once, GoesTo
<1>19. Undo'
  BY <1>1, <1>2, <1>3, <1>4, <1>5, <1>6, <1>7, <1>8, ViewsNext DEF Inv, AddsStatus, LogGrows, StatusKept, RunningKept, RequestKept, HalfOpenBy, PriorBy, CurrentRequestBy, Undo, Reopened, HeldIn, GoesTo
<1>20. BootEnds'
  BY <1>1, <1>2, <1>3, <1>4, <1>5, <1>6, <1>7, <1>8 DEF Inv, AddsStatus, LogGrows, StatusKept, RunningKept, RequestKept, BootEnds, SomeCarried, Carried, GoesTo
<1>21. Honest'
  BY <1>1, <1>2, <1>3, <1>4, <1>5, <1>6, <1>7, <1>8 DEF Inv, AddsStatus, LogGrows, StatusKept, RunningKept, RequestKept, Honest, Quiet, GoesTo
<1>22. Carry'
  BY <1>1, <1>2, <1>3, <1>4, <1>5, <1>6, <1>7, <1>8, ViewsNext DEF Inv, AddsStatus, LogGrows, StatusKept, RunningKept, RequestKept, HalfOpenBy, PriorBy, CurrentRequestBy, Carry, Carried, GoesTo
<1>23. Reads'
  BY <1>1, <1>2, <1>3, <1>4, <1>5, <1>6, <1>7, <1>8 DEF Inv, AddsStatus, LogGrows, StatusKept, RunningKept, RequestKept, Reads, GoesTo
<1> QED BY <1>9, <1>10, <1>11, <1>12, <1>13, <1>14, <1>15, <1>16, <1>17, <1>18, <1>19, <1>20, <1>21, <1>22, <1>23 DEF Inv, Shape

LEMMA StepPutBack ==
    ASSUME Inv, PutBack PROVE Inv'
<1> /\ Types /\ Chains /\ Points /\ Budget /\ Rows /\ LogOK /\ turn \in TurnSet /\ past \in PastSet
    /\ Requests \in Nat /\ past.events \in Nat /\ past.faults \in Nat /\ MaxEvents \in Nat
    /\ Len(log) \in Nat /\ LastStatus \in Nat /\ LastRequest \in Nat /\ LastRunning \in Nat
    /\ Again \subseteq Exec /\ Delivered \subseteq Exec /\ Active \subseteq Exec /\ tosend \subseteq Exec
    /\ \A x \in Exec : x \in Nat /\ x # 0
    /\ LastRequest > LastRunning => Requests \in Exec
  BY InvParts
<1>1. PICK what \in {"completed", "failed"}, why \in {"rework", "rerun"} : AddsStatus(what, why, 0)
  <2>1. turn.at = "put"
    BY DEF PutBack, At
  <2>2. HalfOpen("rerun") \/ Prior \in {"completed", "failed"}
    BY <2>1, PriorIs DEF Points
  <2>3. AddsStatus(IF HalfOpen("rerun") THEN "completed" ELSE Prior,
                   IF HalfOpen("rerun") THEN "rerun" ELSE "rework", 0)
    BY Emissions DEF Inv
  <2>4. CASE HalfOpen("rerun")
    BY <2>3, <2>4
  <2>5. CASE ~HalfOpen("rerun")
    BY <2>2, <2>3, <2>5
  <2> QED BY <2>4, <2>5
<1>2. \E e : LogGrows(e) /\ IsStatus(e)
  BY <1>1 DEF AddsStatus, IsStatus, Status
<1>3. turn.call \in {"rework", "boot"} /\ turn.at = "put"
  BY DEF PutBack, At
<1>4. UNCHANGED <<versions, dispatched, bills, rows, cursor, stash, tosend, flag, place, past>>
  BY DEF PutBack, durable, memory, Return
<1>5. /\ turn.call = "boot" => GoesTo("release")
      /\ turn.call # "boot" => Rests
  BY Named, Goes, Ends DEF PutBack
<1>6. Delivered' = Delivered /\ Active' = Active /\ Stray' = Stray
  BY <1>4 DEF Delivered, Published, Current, Active, Live, Stray
<1>7. Entries' /\ Again' = Again /\ (Clean' => Clean /\ log'[Len(log')].of \notin Stray)
  BY <1>2, <1>6, StatusEffects
<1>8. Clean => Active \subseteq Stray
  BY <1>3 DEF Inv, Honest, Quiet
<1>9. WorkStatus = "pending"
  BY <1>3, Views DEF Points, PriorBy, HalfOpenBy
<1>10. Reopened
  BY <1>3, Views DEF Points, PriorBy, HalfOpenBy, Reopened
<1>11. turn.call = "boot" => \A e \in Exec : place[e] = "none"
  BY DEF Inv, Boots
<1>12. Types'
  BY <1>1, <1>2, <1>3, <1>4, <1>5, <1>6, <1>7, <1>8, <1>9, <1>10, <1>11 DEF Inv, AddsStatus, LogGrows, StatusKept, RunningKept, RequestKept, Types, LogOK, GoesTo, Rests
<1>13. Chains'
  BY <1>1, <1>2, <1>3, <1>4, <1>5, <1>6, <1>7, <1>8, <1>9, <1>10, <1>11 DEF Inv, AddsStatus, LogGrows, StatusKept, RunningKept, RequestKept, Chains, Of, GoesTo, Rests
<1>14. Points'
  BY <1>1, <1>2, <1>3, <1>4, <1>5, <1>6, <1>7, <1>8, <1>9, <1>10, <1>11, ViewsNext DEF Inv, AddsStatus, LogGrows, StatusKept, RunningKept, RequestKept, HalfOpenBy, PriorBy, CurrentRequestBy, Points, IsRework, GoesTo, Rests
<1>15. Budget'
  BY <1>1, <1>2, <1>3, <1>4, <1>5, <1>6, <1>7, <1>8, <1>9, <1>10, <1>11 DEF Inv, AddsStatus, LogGrows, StatusKept, RunningKept, RequestKept, Budget, Owes, GoesTo, Rests
<1>16. Rows'
  BY <1>1, <1>2, <1>3, <1>4, <1>5, <1>6, <1>7, <1>8, <1>9, <1>10, <1>11 DEF Inv, AddsStatus, LogGrows, StatusKept, RunningKept, RequestKept, Rows, GoesTo, Rests
<1>17. Marks'
  BY <1>1, <1>2, <1>3, <1>4, <1>5, <1>6, <1>7, <1>8, <1>9, <1>10, <1>11, StatusMarks DEF AddsStatus, LogGrows
<1>18. Entries'
  BY <1>1, <1>2, <1>3, <1>4, <1>5, <1>6, <1>7, <1>8, <1>9, <1>10, <1>11
<1>19. Boots'
  BY <1>1, <1>2, <1>3, <1>4, <1>5, <1>6, <1>7, <1>8, <1>9, <1>10, <1>11 DEF Inv, AddsStatus, LogGrows, StatusKept, RunningKept, RequestKept, Boots, GoesTo, Rests
<1>20. Fresh'
  BY <1>1, <1>2, <1>3, <1>4, <1>5, <1>6, <1>7, <1>8, <1>9, <1>10, <1>11 DEF Inv, AddsStatus, LogGrows, StatusKept, RunningKept, RequestKept, Fresh, GoesTo, Rests
<1>21. Once'
  BY <1>1, <1>2, <1>3, <1>4, <1>5, <1>6, <1>7, <1>8, <1>9, <1>10, <1>11 DEF Inv, AddsStatus, LogGrows, StatusKept, RunningKept, RequestKept, Once, GoesTo, Rests
<1>22. Undo'
  BY <1>1, <1>2, <1>3, <1>4, <1>5, <1>6, <1>7, <1>8, <1>9, <1>10, <1>11, ViewsNext DEF Inv, AddsStatus, LogGrows, StatusKept, RunningKept, RequestKept, HalfOpenBy, PriorBy, CurrentRequestBy, Undo, Reopened, HeldIn, GoesTo, Rests
<1>23. BootEnds'
  BY <1>1, <1>2, <1>3, <1>4, <1>5, <1>6, <1>7, <1>8, <1>9, <1>10, <1>11 DEF Inv, AddsStatus, LogGrows, StatusKept, RunningKept, RequestKept, BootEnds, SomeCarried, Carried, GoesTo, Rests
<1>24. Honest'
  BY <1>1, <1>2, <1>3, <1>4, <1>5, <1>6, <1>7, <1>8, <1>9, <1>10, <1>11 DEF Inv, AddsStatus, LogGrows, StatusKept, RunningKept, RequestKept, Honest, Quiet, GoesTo, Rests
<1>25. Carry'
  BY <1>1, <1>2, <1>3, <1>4, <1>5, <1>6, <1>7, <1>8, <1>9, <1>10, <1>11, ViewsNext DEF Inv, AddsStatus, LogGrows, StatusKept, RunningKept, RequestKept, HalfOpenBy, PriorBy, CurrentRequestBy, Carry, Carried, GoesTo, Rests
<1>26. Reads'
  BY <1>1, <1>2, <1>3, <1>4, <1>5, <1>6, <1>7, <1>8, <1>9, <1>10, <1>11 DEF Inv, AddsStatus, LogGrows, StatusKept, RunningKept, RequestKept, Reads, GoesTo, Rests
<1> QED BY <1>12, <1>13, <1>14, <1>15, <1>16, <1>17, <1>18, <1>19, <1>20, <1>21, <1>22, <1>23, <1>24, <1>25, <1>26 DEF Inv, Shape

LEMMA StepCancelStatus ==
    ASSUME Inv, CancelStatus PROVE Inv'
<1> /\ Types /\ Chains /\ Points /\ Budget /\ Rows /\ LogOK /\ turn \in TurnSet /\ past \in PastSet
    /\ Requests \in Nat /\ past.events \in Nat /\ past.faults \in Nat /\ MaxEvents \in Nat
    /\ Len(log) \in Nat /\ LastStatus \in Nat /\ LastRequest \in Nat /\ LastRunning \in Nat
    /\ Again \subseteq Exec /\ Delivered \subseteq Exec /\ Active \subseteq Exec /\ tosend \subseteq Exec
    /\ \A x \in Exec : x \in Nat /\ x # 0
    /\ LastRequest > LastRunning => Requests \in Exec
  BY InvParts
<1>1. PICK what \in {"completed", "failed"} : AddsStatus(what, "cancel", 0)
  <2>1. AddsStatus(IF Current > 0 THEN "completed" ELSE "failed", "cancel", 0)
    BY Emissions DEF Inv
  <2> QED BY <2>1
<1>2. \E e : LogGrows(e) /\ IsStatus(e)
  BY <1>1 DEF AddsStatus, IsStatus, Status
<1>3. turn.call \in {"cancel"} /\ turn.at = "stop"
  BY DEF CancelStatus, At
<1>4. UNCHANGED <<versions, dispatched, bills, rows, cursor, stash, tosend, flag, place, past>>
  BY DEF CancelStatus, durable, memory, Return
<1>5. Rests
  BY Ends DEF CancelStatus
<1>6. Delivered' = Delivered /\ Active' = Active /\ Stray' = Stray
  BY <1>4 DEF Delivered, Published, Current, Active, Live, Stray
<1>7. Entries' /\ Again' = Again /\ (Clean' => Clean /\ log'[Len(log')].of \notin Stray)
  BY <1>2, <1>6, StatusEffects
<1>8. Clean => Active \subseteq Stray
  BY <1>3 DEF Inv, Honest, Quiet
<1>9. Types'
  BY <1>1, <1>2, <1>3, <1>4, <1>5, <1>6, <1>7, <1>8 DEF Inv, AddsStatus, LogGrows, StatusKept, RunningKept, RequestKept, Types, LogOK, Rests
<1>10. Chains'
  BY <1>1, <1>2, <1>3, <1>4, <1>5, <1>6, <1>7, <1>8 DEF Inv, AddsStatus, LogGrows, StatusKept, RunningKept, RequestKept, Chains, Of, Rests
<1>11. Points'
  BY <1>1, <1>2, <1>3, <1>4, <1>5, <1>6, <1>7, <1>8, ViewsNext DEF Inv, AddsStatus, LogGrows, StatusKept, RunningKept, RequestKept, HalfOpenBy, PriorBy, CurrentRequestBy, Points, IsRework, Rests
<1>12. Budget'
  BY <1>1, <1>2, <1>3, <1>4, <1>5, <1>6, <1>7, <1>8 DEF Inv, AddsStatus, LogGrows, StatusKept, RunningKept, RequestKept, Budget, Owes, Rests
<1>13. Rows'
  BY <1>1, <1>2, <1>3, <1>4, <1>5, <1>6, <1>7, <1>8 DEF Inv, AddsStatus, LogGrows, StatusKept, RunningKept, RequestKept, Rows, Rests
<1>14. Marks'
  BY <1>1, <1>2, <1>3, <1>4, <1>5, <1>6, <1>7, <1>8, StatusMarks DEF AddsStatus, LogGrows
<1>15. Entries'
  BY <1>1, <1>2, <1>3, <1>4, <1>5, <1>6, <1>7, <1>8
<1>16. Boots'
  BY <1>1, <1>2, <1>3, <1>4, <1>5, <1>6, <1>7, <1>8 DEF Inv, AddsStatus, LogGrows, StatusKept, RunningKept, RequestKept, Boots, Rests
<1>17. Fresh'
  BY <1>1, <1>2, <1>3, <1>4, <1>5, <1>6, <1>7, <1>8 DEF Inv, AddsStatus, LogGrows, StatusKept, RunningKept, RequestKept, Fresh, Rests
<1>18. Once'
  BY <1>1, <1>2, <1>3, <1>4, <1>5, <1>6, <1>7, <1>8 DEF Inv, AddsStatus, LogGrows, StatusKept, RunningKept, RequestKept, Once, Rests
<1>19. Undo'
  BY <1>1, <1>2, <1>3, <1>4, <1>5, <1>6, <1>7, <1>8, ViewsNext DEF Inv, AddsStatus, LogGrows, StatusKept, RunningKept, RequestKept, HalfOpenBy, PriorBy, CurrentRequestBy, Undo, Reopened, HeldIn, Rests
<1>20. BootEnds'
  BY <1>1, <1>2, <1>3, <1>4, <1>5, <1>6, <1>7, <1>8 DEF Inv, AddsStatus, LogGrows, StatusKept, RunningKept, RequestKept, BootEnds, SomeCarried, Carried, Rests
<1>21. Honest'
  BY <1>1, <1>2, <1>3, <1>4, <1>5, <1>6, <1>7, <1>8 DEF Inv, AddsStatus, LogGrows, StatusKept, RunningKept, RequestKept, Honest, Quiet, Rests
<1>22. Carry'
  BY <1>1, <1>2, <1>3, <1>4, <1>5, <1>6, <1>7, <1>8, ViewsNext DEF Inv, AddsStatus, LogGrows, StatusKept, RunningKept, RequestKept, HalfOpenBy, PriorBy, CurrentRequestBy, Carry, Carried, Rests
<1>23. Reads'
  BY <1>1, <1>2, <1>3, <1>4, <1>5, <1>6, <1>7, <1>8 DEF Inv, AddsStatus, LogGrows, StatusKept, RunningKept, RequestKept, Reads, Rests
<1> QED BY <1>9, <1>10, <1>11, <1>12, <1>13, <1>14, <1>15, <1>16, <1>17, <1>18, <1>19, <1>20, <1>21, <1>22, <1>23 DEF Inv, Shape

LEMMA StepBootSync ==
    ASSUME Inv, BootSync PROVE Inv'
<1> /\ Types /\ Chains /\ Points /\ Budget /\ Rows /\ LogOK /\ turn \in TurnSet /\ past \in PastSet
    /\ Requests \in Nat /\ past.events \in Nat /\ past.faults \in Nat /\ MaxEvents \in Nat
    /\ Len(log) \in Nat /\ LastStatus \in Nat /\ LastRequest \in Nat /\ LastRunning \in Nat
    /\ Again \subseteq Exec /\ Delivered \subseteq Exec /\ Active \subseteq Exec /\ tosend \subseteq Exec
    /\ \A x \in Exec : x \in Nat /\ x # 0
    /\ LastRequest > LastRunning => Requests \in Exec
  BY InvParts
<1>1. PICK what \in {"completed", "failed", "cancelled"} : AddsStatus(what, "none", 0)
  BY Emissions DEF Inv
<1>2. \E e : LogGrows(e) /\ IsStatus(e)
  BY <1>1 DEF AddsStatus, IsStatus, Status
<1>3. turn.call \in {"boot"} /\ turn.at = "sync"
  BY DEF BootSync, At
<1>4. UNCHANGED <<versions, dispatched, bills, rows, cursor, stash, tosend, flag, place, past>>
  BY DEF BootSync, durable, memory, Return
<1>5. GoesTo("release")
  BY Named, Goes DEF BootSync
<1>6. Delivered' = Delivered /\ Active' = Active /\ Stray' = Stray
  BY <1>4 DEF Delivered, Published, Current, Active, Live, Stray
<1>7. Entries' /\ Again' = Again /\ (Clean' => Clean /\ log'[Len(log')].of \notin Stray)
  BY <1>2, <1>6, StatusEffects
<1>8. Clean => Active \subseteq Stray
  BY <1>3 DEF Inv, Honest, Quiet
<1>9. Types'
  BY <1>1, <1>2, <1>3, <1>4, <1>5, <1>6, <1>7, <1>8 DEF Inv, AddsStatus, LogGrows, StatusKept, RunningKept, RequestKept, Types, LogOK, GoesTo
<1>10. Chains'
  BY <1>1, <1>2, <1>3, <1>4, <1>5, <1>6, <1>7, <1>8 DEF Inv, AddsStatus, LogGrows, StatusKept, RunningKept, RequestKept, Chains, Of, GoesTo
<1>11. Points'
  BY <1>1, <1>2, <1>3, <1>4, <1>5, <1>6, <1>7, <1>8, ViewsNext DEF Inv, AddsStatus, LogGrows, StatusKept, RunningKept, RequestKept, HalfOpenBy, PriorBy, CurrentRequestBy, Points, IsRework, GoesTo
<1>12. Budget'
  BY <1>1, <1>2, <1>3, <1>4, <1>5, <1>6, <1>7, <1>8 DEF Inv, AddsStatus, LogGrows, StatusKept, RunningKept, RequestKept, Budget, Owes, GoesTo
<1>13. Rows'
  BY <1>1, <1>2, <1>3, <1>4, <1>5, <1>6, <1>7, <1>8 DEF Inv, AddsStatus, LogGrows, StatusKept, RunningKept, RequestKept, Rows, GoesTo
<1>14. Marks'
  BY <1>1, <1>2, <1>3, <1>4, <1>5, <1>6, <1>7, <1>8, StatusMarks DEF AddsStatus, LogGrows
<1>15. Entries'
  BY <1>1, <1>2, <1>3, <1>4, <1>5, <1>6, <1>7, <1>8
<1>16. Boots'
  BY <1>1, <1>2, <1>3, <1>4, <1>5, <1>6, <1>7, <1>8 DEF Inv, AddsStatus, LogGrows, StatusKept, RunningKept, RequestKept, Boots, GoesTo
<1>17. Fresh'
  BY <1>1, <1>2, <1>3, <1>4, <1>5, <1>6, <1>7, <1>8 DEF Inv, AddsStatus, LogGrows, StatusKept, RunningKept, RequestKept, Fresh, GoesTo
<1>18. Once'
  BY <1>1, <1>2, <1>3, <1>4, <1>5, <1>6, <1>7, <1>8 DEF Inv, AddsStatus, LogGrows, StatusKept, RunningKept, RequestKept, Once, GoesTo
<1>19. Undo'
  BY <1>1, <1>2, <1>3, <1>4, <1>5, <1>6, <1>7, <1>8, ViewsNext DEF Inv, AddsStatus, LogGrows, StatusKept, RunningKept, RequestKept, HalfOpenBy, PriorBy, CurrentRequestBy, Undo, Reopened, HeldIn, GoesTo
<1>20. BootEnds'
  BY <1>1, <1>2, <1>3, <1>4, <1>5, <1>6, <1>7, <1>8 DEF Inv, AddsStatus, LogGrows, StatusKept, RunningKept, RequestKept, BootEnds, SomeCarried, Carried, GoesTo
<1>21. Honest'
  BY <1>1, <1>2, <1>3, <1>4, <1>5, <1>6, <1>7, <1>8 DEF Inv, AddsStatus, LogGrows, StatusKept, RunningKept, RequestKept, Honest, Quiet, GoesTo
<1>22. Carry'
  BY <1>1, <1>2, <1>3, <1>4, <1>5, <1>6, <1>7, <1>8, ViewsNext DEF Inv, AddsStatus, LogGrows, StatusKept, RunningKept, RequestKept, HalfOpenBy, PriorBy, CurrentRequestBy, Carry, Carried, GoesTo
<1>23. Reads'
  BY <1>1, <1>2, <1>3, <1>4, <1>5, <1>6, <1>7, <1>8 DEF Inv, AddsStatus, LogGrows, StatusKept, RunningKept, RequestKept, Reads, GoesTo
<1> QED BY <1>9, <1>10, <1>11, <1>12, <1>13, <1>14, <1>15, <1>16, <1>17, <1>18, <1>19, <1>20, <1>21, <1>22, <1>23 DEF Inv, Shape

LEMMA StepCompletes ==
    ASSUME Inv, Finish("complete", "completed") PROVE Inv'
<1> /\ Types /\ Chains /\ Points /\ Budget /\ Rows /\ LogOK /\ turn \in TurnSet /\ past \in PastSet
    /\ Requests \in Nat /\ past.events \in Nat /\ past.faults \in Nat /\ MaxEvents \in Nat
    /\ Len(log) \in Nat /\ LastStatus \in Nat /\ LastRequest \in Nat /\ LastRunning \in Nat
    /\ Again \subseteq Exec /\ Delivered \subseteq Exec /\ Active \subseteq Exec /\ tosend \subseteq Exec
    /\ \A x \in Exec : x \in Nat /\ x # 0
    /\ LastRequest > LastRunning => Requests \in Exec
  BY InvParts
<1>1. AddsStatus("completed", "none", turn.arg)
  BY Emissions DEF Inv
<1>2. \E e : LogGrows(e) /\ IsStatus(e)
  BY <1>1 DEF AddsStatus, IsStatus, Status
<1>3. turn.call \in {"handler"} /\ turn.at = "complete"
  BY DEF Finish, At
<1>4. UNCHANGED <<versions, dispatched, bills, rows, cursor, stash, tosend, flag, place, past>>
  BY DEF Finish, durable, memory, Return
<1>5. /\ turn' \in TurnSet /\ turn'.call = turn.call /\ turn'.at = "answer" /\ turn'.arg = turn.arg
      /\ turn'.prior = "completed"
  <2>1. turn' = [turn EXCEPT !.at = "answer", !.prior = "completed"]
    BY DEF Finish
  <2>2. turn' = [call |-> turn.call, at |-> "answer", arg |-> turn.arg, prior |-> "completed", held |-> turn.held]
    BY <2>1 DEF TurnSet
  <2> QED BY <2>2, Named DEF TurnSet, Statuses
<1>6. Delivered' = Delivered /\ Active' = Active /\ Stray' = Stray
  BY <1>4 DEF Delivered, Published, Current, Active, Live, Stray
<1>7. Entries' /\ Again' = Again /\ (Clean' => Clean /\ log'[Len(log')].of \notin Stray)
  BY <1>2, <1>6, StatusEffects
<1>8. turn.arg \in Active
  BY <1>3 DEF Chains, Rows, Active, Live
<1>9. Clean' => Active \ Stray \subseteq {turn.arg}
  <2>1. log'[Len(log')].of = turn.arg
    BY <1>1 DEF AddsStatus, LogGrows, Status
  <2>2. Clean' => Clean /\ turn.arg \in Active \ Stray
    BY <1>7, <1>8, <2>1
  <2> QED BY <2>2, ActiveFacts
<1>10. Types'
  BY <1>1, <1>4, <1>5 DEF Inv, AddsStatus, LogGrows, StatusKept, RunningKept, RequestKept, Types, LogOK
<1>11. Chains'
  BY <1>1, <1>2, <1>3, <1>4, <1>5, <1>6, <1>7, <1>8, <1>9 DEF Inv, AddsStatus, LogGrows, StatusKept, RunningKept, RequestKept, Chains, Of
<1>12. Points'
  BY <1>1, <1>2, <1>3, <1>4, <1>5, <1>6, <1>7, <1>8, <1>9, ViewsNext DEF Inv, AddsStatus, LogGrows, StatusKept, RunningKept, RequestKept, HalfOpenBy, PriorBy, CurrentRequestBy, Points, IsRework
<1>13. Budget'
  BY <1>1, <1>2, <1>3, <1>4, <1>5, <1>6, <1>7, <1>8, <1>9 DEF Inv, AddsStatus, LogGrows, StatusKept, RunningKept, RequestKept, Budget, Owes
<1>14. Rows'
  BY <1>1, <1>2, <1>3, <1>4, <1>5, <1>6, <1>7, <1>8, <1>9 DEF Inv, AddsStatus, LogGrows, StatusKept, RunningKept, RequestKept, Rows
<1>15. Marks'
  BY <1>1, <1>2, <1>3, <1>4, <1>5, <1>6, <1>7, <1>8, <1>9, StatusMarks DEF AddsStatus, LogGrows
<1>16. Entries'
  BY <1>1, <1>2, <1>3, <1>4, <1>5, <1>6, <1>7, <1>8, <1>9
<1>17. Boots'
  BY <1>1, <1>2, <1>3, <1>4, <1>5, <1>6, <1>7, <1>8, <1>9 DEF Inv, AddsStatus, LogGrows, StatusKept, RunningKept, RequestKept, Boots
<1>18. Fresh'
  BY <1>1, <1>2, <1>3, <1>4, <1>5, <1>6, <1>7, <1>8, <1>9 DEF Inv, AddsStatus, LogGrows, StatusKept, RunningKept, RequestKept, Fresh
<1>19. Once'
  BY <1>1, <1>2, <1>3, <1>4, <1>5, <1>6, <1>7, <1>8, <1>9 DEF Inv, AddsStatus, LogGrows, StatusKept, RunningKept, RequestKept, Once
<1>20. Undo'
  BY <1>1, <1>2, <1>3, <1>4, <1>5, <1>6, <1>7, <1>8, <1>9, ViewsNext DEF Inv, AddsStatus, LogGrows, StatusKept, RunningKept, RequestKept, HalfOpenBy, PriorBy, CurrentRequestBy, Undo, Reopened, HeldIn
<1>21. BootEnds'
  BY <1>1, <1>2, <1>3, <1>4, <1>5, <1>6, <1>7, <1>8, <1>9 DEF Inv, AddsStatus, LogGrows, StatusKept, RunningKept, RequestKept, BootEnds, SomeCarried, Carried
<1>22. Honest'
  BY <1>1, <1>2, <1>3, <1>4, <1>5, <1>6, <1>7, <1>8, <1>9 DEF Inv, AddsStatus, LogGrows, StatusKept, RunningKept, RequestKept, Honest, Quiet
<1>23. Carry'
  BY <1>1, <1>2, <1>3, <1>4, <1>5, <1>6, <1>7, <1>8, <1>9, ViewsNext DEF Inv, AddsStatus, LogGrows, StatusKept, RunningKept, RequestKept, HalfOpenBy, PriorBy, CurrentRequestBy, Carry, Carried
<1>24. Reads'
  BY <1>1, <1>2, <1>3, <1>4, <1>5, <1>6, <1>7, <1>8, <1>9 DEF Inv, AddsStatus, LogGrows, StatusKept, RunningKept, RequestKept, Reads
<1> QED BY <1>10, <1>11, <1>12, <1>13, <1>14, <1>15, <1>16, <1>17, <1>18, <1>19, <1>20, <1>21, <1>22, <1>23, <1>24 DEF Inv, Shape

LEMMA StepFails ==
    ASSUME Inv, Finish("fail", "failed") PROVE Inv'
<1> /\ Types /\ Chains /\ Points /\ Budget /\ Rows /\ LogOK /\ turn \in TurnSet /\ past \in PastSet
    /\ Requests \in Nat /\ past.events \in Nat /\ past.faults \in Nat /\ MaxEvents \in Nat
    /\ Len(log) \in Nat /\ LastStatus \in Nat /\ LastRequest \in Nat /\ LastRunning \in Nat
    /\ Again \subseteq Exec /\ Delivered \subseteq Exec /\ Active \subseteq Exec /\ tosend \subseteq Exec
    /\ \A x \in Exec : x \in Nat /\ x # 0
    /\ LastRequest > LastRunning => Requests \in Exec
  BY InvParts
<1>1. AddsStatus("failed", "none", turn.arg)
  BY Emissions DEF Inv
<1>2. \E e : LogGrows(e) /\ IsStatus(e)
  BY <1>1 DEF AddsStatus, IsStatus, Status
<1>3. turn.call \in {"handler"} /\ turn.at = "fail"
  BY DEF Finish, At
<1>4. UNCHANGED <<versions, dispatched, bills, rows, cursor, stash, tosend, flag, place, past>>
  BY DEF Finish, durable, memory, Return
<1>5. /\ turn' \in TurnSet /\ turn'.call = turn.call /\ turn'.at = "answer" /\ turn'.arg = turn.arg
      /\ turn'.prior = "failed"
  <2>1. turn' = [turn EXCEPT !.at = "answer", !.prior = "failed"]
    BY DEF Finish
  <2>2. turn' = [call |-> turn.call, at |-> "answer", arg |-> turn.arg, prior |-> "failed", held |-> turn.held]
    BY <2>1 DEF TurnSet
  <2> QED BY <2>2, Named DEF TurnSet, Statuses
<1>6. Delivered' = Delivered /\ Active' = Active /\ Stray' = Stray
  BY <1>4 DEF Delivered, Published, Current, Active, Live, Stray
<1>7. Entries' /\ Again' = Again /\ (Clean' => Clean /\ log'[Len(log')].of \notin Stray)
  BY <1>2, <1>6, StatusEffects
<1>8. turn.arg \in Active
  BY <1>3 DEF Chains, Rows, Active, Live
<1>9. Clean' => Active \ Stray \subseteq {turn.arg}
  <2>1. log'[Len(log')].of = turn.arg
    BY <1>1 DEF AddsStatus, LogGrows, Status
  <2>2. Clean' => Clean /\ turn.arg \in Active \ Stray
    BY <1>7, <1>8, <2>1
  <2> QED BY <2>2, ActiveFacts
<1>10. Types'
  BY <1>1, <1>4, <1>5 DEF Inv, AddsStatus, LogGrows, StatusKept, RunningKept, RequestKept, Types, LogOK
<1>11. Chains'
  BY <1>1, <1>2, <1>3, <1>4, <1>5, <1>6, <1>7, <1>8, <1>9 DEF Inv, AddsStatus, LogGrows, StatusKept, RunningKept, RequestKept, Chains, Of
<1>12. Points'
  BY <1>1, <1>2, <1>3, <1>4, <1>5, <1>6, <1>7, <1>8, <1>9, ViewsNext DEF Inv, AddsStatus, LogGrows, StatusKept, RunningKept, RequestKept, HalfOpenBy, PriorBy, CurrentRequestBy, Points, IsRework
<1>13. Budget'
  BY <1>1, <1>2, <1>3, <1>4, <1>5, <1>6, <1>7, <1>8, <1>9 DEF Inv, AddsStatus, LogGrows, StatusKept, RunningKept, RequestKept, Budget, Owes
<1>14. Rows'
  BY <1>1, <1>2, <1>3, <1>4, <1>5, <1>6, <1>7, <1>8, <1>9 DEF Inv, AddsStatus, LogGrows, StatusKept, RunningKept, RequestKept, Rows
<1>15. Marks'
  BY <1>1, <1>2, <1>3, <1>4, <1>5, <1>6, <1>7, <1>8, <1>9, StatusMarks DEF AddsStatus, LogGrows
<1>16. Entries'
  BY <1>1, <1>2, <1>3, <1>4, <1>5, <1>6, <1>7, <1>8, <1>9
<1>17. Boots'
  BY <1>1, <1>2, <1>3, <1>4, <1>5, <1>6, <1>7, <1>8, <1>9 DEF Inv, AddsStatus, LogGrows, StatusKept, RunningKept, RequestKept, Boots
<1>18. Fresh'
  BY <1>1, <1>2, <1>3, <1>4, <1>5, <1>6, <1>7, <1>8, <1>9 DEF Inv, AddsStatus, LogGrows, StatusKept, RunningKept, RequestKept, Fresh
<1>19. Once'
  BY <1>1, <1>2, <1>3, <1>4, <1>5, <1>6, <1>7, <1>8, <1>9 DEF Inv, AddsStatus, LogGrows, StatusKept, RunningKept, RequestKept, Once
<1>20. Undo'
  BY <1>1, <1>2, <1>3, <1>4, <1>5, <1>6, <1>7, <1>8, <1>9, ViewsNext DEF Inv, AddsStatus, LogGrows, StatusKept, RunningKept, RequestKept, HalfOpenBy, PriorBy, CurrentRequestBy, Undo, Reopened, HeldIn
<1>21. BootEnds'
  BY <1>1, <1>2, <1>3, <1>4, <1>5, <1>6, <1>7, <1>8, <1>9 DEF Inv, AddsStatus, LogGrows, StatusKept, RunningKept, RequestKept, BootEnds, SomeCarried, Carried
<1>22. Honest'
  BY <1>1, <1>2, <1>3, <1>4, <1>5, <1>6, <1>7, <1>8, <1>9 DEF Inv, AddsStatus, LogGrows, StatusKept, RunningKept, RequestKept, Honest, Quiet
<1>23. Carry'
  BY <1>1, <1>2, <1>3, <1>4, <1>5, <1>6, <1>7, <1>8, <1>9, ViewsNext DEF Inv, AddsStatus, LogGrows, StatusKept, RunningKept, RequestKept, HalfOpenBy, PriorBy, CurrentRequestBy, Carry, Carried
<1>24. Reads'
  BY <1>1, <1>2, <1>3, <1>4, <1>5, <1>6, <1>7, <1>8, <1>9 DEF Inv, AddsStatus, LogGrows, StatusKept, RunningKept, RequestKept, Reads
<1> QED BY <1>10, <1>11, <1>12, <1>13, <1>14, <1>15, <1>16, <1>17, <1>18, <1>19, <1>20, <1>21, <1>22, <1>23, <1>24 DEF Inv, Shape

LEMMA StepCloseSkips ==
    ASSUME Inv, log' = log, CloseDeadLettered PROVE Inv'
<1> /\ Types /\ Chains /\ Points /\ Budget /\ Rows /\ LogOK /\ turn \in TurnSet /\ past \in PastSet
    /\ Requests \in Nat /\ past.events \in Nat /\ past.faults \in Nat /\ MaxEvents \in Nat
    /\ Len(log) \in Nat /\ LastStatus \in Nat /\ LastRequest \in Nat /\ LastRunning \in Nat
    /\ Again \subseteq Exec /\ Delivered \subseteq Exec /\ Active \subseteq Exec /\ tosend \subseteq Exec
    /\ \A x \in Exec : x \in Nat /\ x # 0
    /\ LastRequest > LastRunning => Requests \in Exec
  BY InvParts
<1>1. LogStill
  BY Still DEF CloseDeadLettered, durable, memory
<1>2. UNCHANGED <<log, versions, dispatched, bills, rows, cursor, stash, tosend, flag, place, past>>
  BY DEF CloseDeadLettered, durable, memory, Call, Fault
<1>3. turn.call \in {"handler"} /\ turn.at = "close"
  BY DEF CloseDeadLettered, At
<1>4. Rests
  BY Ends DEF CloseDeadLettered
<1>5. turn.arg \in Exec /\ rows[turn.arg].status = "failed"
  BY <1>3 DEF Chains, Rows
<1>6. ~Closes(turn.arg)
  <2>1. Closes(turn.arg) => Emit(Status("failed", "none", 0))
    BY DEF CloseDeadLettered
  <2>2. Emit(Status("failed", "none", 0)) => Len(log') = Len(log) + 1
    BY DEF Emit, LogOK
  <2> QED BY <2>1, <2>2
<1>7. Delivered' = Delivered /\ Active' = Active /\ Stray' = Stray
  BY <1>2 DEF Delivered, Published, Current, Active, Live, Stray
<1>8. Clean' => Clean
  BY <1>1, <1>7, CleanKept DEF LogStill
<1>9. WorkStatus = "running" /\ LastRequest > LastRunning => turn.arg # Requests
  BY <1>6, Views DEF Closes, CurrentRequestBy
<1>10. Marks' /\ Entries'
  BY <1>1 DEF LogStill
<1>11. Types'
  BY <1>1, <1>2, <1>3, <1>4, <1>5, <1>6, <1>7, <1>8, <1>9 DEF Inv, LogStill, LogKept, Types, LogOK, Rests
<1>12. Chains'
  BY <1>1, <1>2, <1>3, <1>4, <1>5, <1>6, <1>7, <1>8, <1>9 DEF Inv, LogStill, Chains, Of, Rests
<1>13. Points'
  BY <1>1, <1>2, <1>3, <1>4, <1>5, <1>6, <1>7, <1>8, <1>9 DEF Inv, LogStill, LogKept, StatusKept, RequestKept, Points, IsRework, Rests
<1>14. Budget'
  BY <1>1, <1>2, <1>3, <1>4, <1>5, <1>6, <1>7, <1>8, <1>9 DEF Inv, LogStill, LogKept, RequestKept, Budget, Owes, Rests
<1>15. Rows'
  BY <1>1, <1>2, <1>3, <1>4, <1>5, <1>6, <1>7, <1>8, <1>9 DEF Inv, LogStill, LogKept, RequestKept, Rows, Rests
<1>16. Boots'
  BY <1>1, <1>2, <1>3, <1>4, <1>5, <1>6, <1>7, <1>8, <1>9 DEF Inv, LogStill, Boots, Rests
<1>17. Fresh'
  BY <1>1, <1>2, <1>3, <1>4, <1>5, <1>6, <1>7, <1>8, <1>9 DEF Inv, LogStill, LogKept, RequestKept, Fresh, Rests
<1>18. Once'
  BY <1>1, <1>2, <1>3, <1>4, <1>5, <1>6, <1>7, <1>8, <1>9 DEF Inv, LogStill, Once, Rests
<1>19. Undo'
  BY <1>1, <1>2, <1>3, <1>4, <1>5, <1>6, <1>7, <1>8, <1>9 DEF Inv, LogStill, LogKept, StatusKept, Undo, Reopened, HeldIn, Rests
<1>20. BootEnds'
  BY <1>1, <1>2, <1>3, <1>4, <1>5, <1>6, <1>7, <1>8, <1>9 DEF Inv, LogStill, LogKept, StatusKept, BootEnds, SomeCarried, Carried, Rests
<1>21. Honest'
  BY <1>1, <1>2, <1>3, <1>4, <1>5, <1>6, <1>7, <1>8, <1>9 DEF Inv, LogStill, LogKept, StatusKept, RunningKept, RequestKept, Honest, Quiet, Rests
<1>22. Carry'
  BY <1>1, <1>2, <1>3, <1>4, <1>5, <1>6, <1>7, <1>8, <1>9 DEF Inv, LogStill, LogKept, StatusKept, RunningKept, RequestKept, Carry, Carried, Rests
<1>23. Reads'
  BY <1>1, <1>2, <1>3, <1>4, <1>5, <1>6, <1>7, <1>8, <1>9 DEF Inv, LogStill, Reads, Rests
<1> QED BY <1>10, <1>11, <1>12, <1>13, <1>14, <1>15, <1>16, <1>17, <1>18, <1>19, <1>20, <1>21, <1>22, <1>23 DEF Inv, Shape

LEMMA StepCloses ==
    ASSUME Inv, log' # log, CloseDeadLettered PROVE Inv'
<1> /\ Types /\ Chains /\ Points /\ Budget /\ Rows /\ LogOK /\ turn \in TurnSet /\ past \in PastSet
    /\ Requests \in Nat /\ past.events \in Nat /\ past.faults \in Nat /\ MaxEvents \in Nat
    /\ Len(log) \in Nat /\ LastStatus \in Nat /\ LastRequest \in Nat /\ LastRunning \in Nat
    /\ Again \subseteq Exec /\ Delivered \subseteq Exec /\ Active \subseteq Exec /\ tosend \subseteq Exec
    /\ \A x \in Exec : x \in Nat /\ x # 0
    /\ LastRequest > LastRunning => Requests \in Exec
  BY InvParts
<1>1. AddsStatus("failed", "none", 0) /\ Closes(turn.arg)
  BY Emissions DEF Inv, LogKept
<1>2. \E e : LogGrows(e) /\ IsStatus(e)
  BY <1>1 DEF AddsStatus, IsStatus, Status
<1>3. turn.call \in {"handler"} /\ turn.at = "close"
  BY DEF CloseDeadLettered, At
<1>4. UNCHANGED <<versions, dispatched, bills, rows, cursor, stash, tosend, flag, place, past>>
  BY DEF CloseDeadLettered, durable, memory, Return
<1>5. Rests
  BY Ends DEF CloseDeadLettered
<1>6. Delivered' = Delivered /\ Active' = Active /\ Stray' = Stray
  BY <1>4 DEF Delivered, Published, Current, Active, Live, Stray
<1>7. Entries' /\ Again' = Again /\ (Clean' => Clean /\ log'[Len(log')].of \notin Stray)
  BY <1>2, <1>6, StatusEffects
<1>8. Clean => Active \subseteq Stray
  BY <1>1, <1>3, ActiveFacts DEF Closes, Active, Live, Rows
<1>9. Types'
  BY <1>1, <1>2, <1>3, <1>4, <1>5, <1>6, <1>7, <1>8 DEF Inv, AddsStatus, LogGrows, StatusKept, RunningKept, RequestKept, Types, LogOK, Rests
<1>10. Chains'
  BY <1>1, <1>2, <1>3, <1>4, <1>5, <1>6, <1>7, <1>8 DEF Inv, AddsStatus, LogGrows, StatusKept, RunningKept, RequestKept, Chains, Of, Rests
<1>11. Points'
  BY <1>1, <1>2, <1>3, <1>4, <1>5, <1>6, <1>7, <1>8, ViewsNext DEF Inv, AddsStatus, LogGrows, StatusKept, RunningKept, RequestKept, HalfOpenBy, PriorBy, CurrentRequestBy, Points, IsRework, Rests
<1>12. Budget'
  BY <1>1, <1>2, <1>3, <1>4, <1>5, <1>6, <1>7, <1>8 DEF Inv, AddsStatus, LogGrows, StatusKept, RunningKept, RequestKept, Budget, Owes, Rests
<1>13. Rows'
  BY <1>1, <1>2, <1>3, <1>4, <1>5, <1>6, <1>7, <1>8 DEF Inv, AddsStatus, LogGrows, StatusKept, RunningKept, RequestKept, Rows, Rests
<1>14. Marks'
  BY <1>1, <1>2, <1>3, <1>4, <1>5, <1>6, <1>7, <1>8, StatusMarks DEF AddsStatus, LogGrows
<1>15. Entries'
  BY <1>1, <1>2, <1>3, <1>4, <1>5, <1>6, <1>7, <1>8
<1>16. Boots'
  BY <1>1, <1>2, <1>3, <1>4, <1>5, <1>6, <1>7, <1>8 DEF Inv, AddsStatus, LogGrows, StatusKept, RunningKept, RequestKept, Boots, Rests
<1>17. Fresh'
  BY <1>1, <1>2, <1>3, <1>4, <1>5, <1>6, <1>7, <1>8 DEF Inv, AddsStatus, LogGrows, StatusKept, RunningKept, RequestKept, Fresh, Rests
<1>18. Once'
  BY <1>1, <1>2, <1>3, <1>4, <1>5, <1>6, <1>7, <1>8 DEF Inv, AddsStatus, LogGrows, StatusKept, RunningKept, RequestKept, Once, Rests
<1>19. Undo'
  BY <1>1, <1>2, <1>3, <1>4, <1>5, <1>6, <1>7, <1>8, ViewsNext DEF Inv, AddsStatus, LogGrows, StatusKept, RunningKept, RequestKept, HalfOpenBy, PriorBy, CurrentRequestBy, Undo, Reopened, HeldIn, Rests
<1>20. BootEnds'
  BY <1>1, <1>2, <1>3, <1>4, <1>5, <1>6, <1>7, <1>8 DEF Inv, AddsStatus, LogGrows, StatusKept, RunningKept, RequestKept, BootEnds, SomeCarried, Carried, Rests
<1>21. Honest'
  BY <1>1, <1>2, <1>3, <1>4, <1>5, <1>6, <1>7, <1>8 DEF Inv, AddsStatus, LogGrows, StatusKept, RunningKept, RequestKept, Honest, Quiet, Rests
<1>22. Carry'
  BY <1>1, <1>2, <1>3, <1>4, <1>5, <1>6, <1>7, <1>8, ViewsNext DEF Inv, AddsStatus, LogGrows, StatusKept, RunningKept, RequestKept, HalfOpenBy, PriorBy, CurrentRequestBy, Carry, Carried, Rests
<1>23. Reads'
  BY <1>1, <1>2, <1>3, <1>4, <1>5, <1>6, <1>7, <1>8 DEF Inv, AddsStatus, LogGrows, StatusKept, RunningKept, RequestKept, Reads, Rests
<1> QED BY <1>9, <1>10, <1>11, <1>12, <1>13, <1>14, <1>15, <1>16, <1>17, <1>18, <1>19, <1>20, <1>21, <1>22, <1>23 DEF Inv, Shape

LEMMA StepAccept ==
    ASSUME Inv, Accept PROVE Inv'
<1> /\ Types /\ Chains /\ Points /\ Budget /\ Rows /\ LogOK /\ turn \in TurnSet /\ past \in PastSet
    /\ Requests \in Nat /\ past.events \in Nat /\ past.faults \in Nat /\ MaxEvents \in Nat
    /\ Len(log) \in Nat /\ LastStatus \in Nat /\ LastRequest \in Nat /\ LastRunning \in Nat
    /\ Again \subseteq Exec /\ Delivered \subseteq Exec /\ Active \subseteq Exec /\ tosend \subseteq Exec
    /\ \A x \in Exec : x \in Nat /\ x # 0
    /\ LastRequest > LastRunning => Requests \in Exec
  BY InvParts
<1>1. AddsDecision("accepted", Current)
  BY Emissions DEF Inv
<1>2. \E e : LogGrows(e) /\ e.kind = "decision"
  BY <1>1 DEF AddsDecision, Decision
<1>3. /\ HalfOpen("rerun")' <=> HalfOpen("rerun")
      /\ HalfOpen("rework")' <=> HalfOpen("rework")
      /\ Prior' = Prior /\ CurrentRequest' = CurrentRequest
  BY <1>1, DecisionViews DEF AddsDecision
<1>4. turn.call = "none" /\ turn.at = "none"
  BY IdleFacts DEF Accept, Free
<1>5. tosend = {} /\ past.events < MaxEvents /\ PastCounts(past.events + 1, past.faults) /\ Stray' = Stray
  BY CallFacts DEF Accept
<1>6. UNCHANGED <<versions, dispatched, bills, rows, cursor, stash, tosend, flag, place, turn>>
  BY DEF Accept, durable, memory, Call
<1>7. Delivered' = Delivered /\ Active' = Active
  BY <1>6 DEF Delivered, Published, Current, Active, Live
<1>8. Entries' /\ Again' = Again /\ (Clean' => Clean)
  BY <1>2, <1>5, DecisionEffects
<1>9. /\ Len(log') = Len(log) + 1 /\ \A k \in 1..Len(log) : log'[k] = log[k]
      /\ log'[Len(log) + 1].kind = "decision" /\ log'[Len(log) + 1].what = "accepted"
  BY <1>1 DEF AddsDecision, LogGrows, Decision
<1>10. Types'
  BY <1>1, <1>5, <1>6 DEF Inv, AddsDecision, LogGrows, StatusKept, RunningKept, RequestKept, Types, LogOK, PastCounts
<1>11. Chains'
  BY <1>1, <1>2, <1>3, <1>4, <1>5, <1>6, <1>7, <1>8, <1>9 DEF Inv, AddsDecision, LogGrows, StatusKept, RunningKept, RequestKept, Chains, Of, PastCounts
<1>12. Points'
  BY <1>1, <1>2, <1>3, <1>4, <1>5, <1>6, <1>7, <1>8, <1>9, ViewsNext DEF Inv, AddsDecision, LogGrows, StatusKept, RunningKept, RequestKept, HalfOpenBy, PriorBy, CurrentRequestBy, Points, IsRework, PastCounts
<1>13. Budget'
  BY <1>1, <1>2, <1>3, <1>4, <1>5, <1>6, <1>7, <1>8, <1>9 DEF Inv, AddsDecision, LogGrows, StatusKept, RunningKept, RequestKept, Budget, Owes, PastCounts
<1>14. Rows'
  BY <1>1, <1>2, <1>3, <1>4, <1>5, <1>6, <1>7, <1>8, <1>9 DEF Inv, AddsDecision, LogGrows, StatusKept, RunningKept, RequestKept, Rows, PastCounts
<1>15. Marks'
  BY <1>1, <1>2, <1>3, <1>4, <1>5, <1>6, <1>7, <1>8, <1>9 DEF Inv, AddsDecision, LogGrows, StatusKept, RunningKept, RequestKept, Marks, Reopened, PastCounts
<1>16. Entries'
  BY <1>1, <1>2, <1>3, <1>4, <1>5, <1>6, <1>7, <1>8, <1>9
<1>17. Boots'
  BY <1>1, <1>2, <1>3, <1>4, <1>5, <1>6, <1>7, <1>8, <1>9 DEF Inv, AddsDecision, LogGrows, StatusKept, RunningKept, RequestKept, Boots, PastCounts
<1>18. Fresh'
  BY <1>1, <1>2, <1>3, <1>4, <1>5, <1>6, <1>7, <1>8, <1>9 DEF Inv, AddsDecision, LogGrows, StatusKept, RunningKept, RequestKept, Fresh, PastCounts
<1>19. Once'
  BY <1>1, <1>2, <1>3, <1>4, <1>5, <1>6, <1>7, <1>8, <1>9 DEF Inv, AddsDecision, LogGrows, StatusKept, RunningKept, RequestKept, Once, PastCounts
<1>20. Undo'
  BY <1>1, <1>2, <1>3, <1>4, <1>5, <1>6, <1>7, <1>8, <1>9, ViewsNext DEF Inv, AddsDecision, LogGrows, StatusKept, RunningKept, RequestKept, HalfOpenBy, PriorBy, CurrentRequestBy, Undo, Reopened, HeldIn, PastCounts
<1>21. BootEnds'
  BY <1>1, <1>2, <1>3, <1>4, <1>5, <1>6, <1>7, <1>8, <1>9 DEF Inv, AddsDecision, LogGrows, StatusKept, RunningKept, RequestKept, BootEnds, SomeCarried, Carried, PastCounts
<1>22. Honest'
  BY <1>1, <1>2, <1>3, <1>4, <1>5, <1>6, <1>7, <1>8, <1>9 DEF Inv, AddsDecision, LogGrows, StatusKept, RunningKept, RequestKept, Honest, Quiet, PastCounts
<1>23. Carry'
  BY <1>1, <1>2, <1>3, <1>4, <1>5, <1>6, <1>7, <1>8, <1>9, ViewsNext DEF Inv, AddsDecision, LogGrows, StatusKept, RunningKept, RequestKept, HalfOpenBy, PriorBy, CurrentRequestBy, Carry, Carried, PastCounts
<1>24. Reads'
  BY <1>1, <1>2, <1>3, <1>4, <1>5, <1>6, <1>7, <1>8, <1>9 DEF Inv, AddsDecision, LogGrows, StatusKept, RunningKept, RequestKept, Reads, PastCounts
<1> QED BY <1>10, <1>11, <1>12, <1>13, <1>14, <1>15, <1>16, <1>17, <1>18, <1>19, <1>20, <1>21, <1>22, <1>23, <1>24 DEF Inv, Shape

LEMMA StepAskRework ==
    ASSUME Inv, AskRework PROVE Inv'
<1> /\ Types /\ Chains /\ Points /\ Budget /\ Rows /\ LogOK /\ turn \in TurnSet /\ past \in PastSet
    /\ Requests \in Nat /\ past.events \in Nat /\ past.faults \in Nat /\ MaxEvents \in Nat
    /\ Len(log) \in Nat /\ LastStatus \in Nat /\ LastRequest \in Nat /\ LastRunning \in Nat
    /\ Again \subseteq Exec /\ Delivered \subseteq Exec /\ Active \subseteq Exec /\ tosend \subseteq Exec
    /\ \A x \in Exec : x \in Nat /\ x # 0
    /\ LastRequest > LastRunning => Requests \in Exec
  BY InvParts
<1>1. AddsDecision("changes_requested", Current)
  BY Emissions DEF Inv
<1>2. \E e : LogGrows(e) /\ e.kind = "decision"
  BY <1>1 DEF AddsDecision, Decision
<1>3. /\ HalfOpen("rerun")' <=> HalfOpen("rerun")
      /\ HalfOpen("rework")' <=> HalfOpen("rework")
      /\ Prior' = Prior /\ CurrentRequest' = CurrentRequest
  BY <1>1, DecisionViews DEF AddsDecision
<1>4. turn.call = "none" /\ turn.at = "none"
  BY IdleFacts DEF AskRework, Free
<1>5. tosend = {} /\ past.events < MaxEvents /\ PastCounts(past.events + 1, past.faults) /\ Stray' = Stray
  BY CallFacts DEF AskRework
<1>6. UNCHANGED <<versions, dispatched, bills, rows, cursor, stash, tosend, flag, place>>
  BY DEF AskRework, durable, memory, Call
<1>7. Delivered' = Delivered /\ Active' = Active
  BY <1>6 DEF Delivered, Published, Current, Active, Live
<1>8. Entries' /\ Again' = Again /\ (Clean' => Clean)
  BY <1>2, <1>5, DecisionEffects
<1>9. Opens("rework", "settle", Len(log) + 1)
  BY Named, Starts DEF AskRework
<1>10. /\ Len(log') = Len(log) + 1 /\ \A k \in 1..Len(log) : log'[k] = log[k]
       /\ log'[Len(log) + 1].kind = "decision" /\ log'[Len(log) + 1].what = "changes_requested"
       /\ WorkStatus # "running"
  BY <1>1 DEF AddsDecision, LogGrows, Decision, AskRework
<1>11. Types'
  BY <1>1, <1>5, <1>6, <1>9 DEF Inv, AddsDecision, LogGrows, StatusKept, RunningKept, RequestKept, Types, LogOK, PastCounts, Opens
<1>12. Chains'
  BY <1>1, <1>2, <1>3, <1>4, <1>5, <1>6, <1>7, <1>8, <1>9, <1>10 DEF Inv, AddsDecision, LogGrows, StatusKept, RunningKept, RequestKept, Chains, Of, PastCounts, Opens
<1>13. Points'
  BY <1>1, <1>2, <1>3, <1>4, <1>5, <1>6, <1>7, <1>8, <1>9, <1>10, ViewsNext DEF Inv, AddsDecision, LogGrows, StatusKept, RunningKept, RequestKept, HalfOpenBy, PriorBy, CurrentRequestBy, Points, IsRework, PastCounts, Opens
<1>14. Budget'
  BY <1>1, <1>2, <1>3, <1>4, <1>5, <1>6, <1>7, <1>8, <1>9, <1>10 DEF Inv, AddsDecision, LogGrows, StatusKept, RunningKept, RequestKept, Budget, Owes, PastCounts, Opens
<1>15. Rows'
  BY <1>1, <1>2, <1>3, <1>4, <1>5, <1>6, <1>7, <1>8, <1>9, <1>10 DEF Inv, AddsDecision, LogGrows, StatusKept, RunningKept, RequestKept, Rows, PastCounts, Opens
<1>16. Marks'
  BY <1>1, <1>2, <1>3, <1>4, <1>5, <1>6, <1>7, <1>8, <1>9, <1>10 DEF Inv, AddsDecision, LogGrows, StatusKept, RunningKept, RequestKept, Marks, Reopened, PastCounts, Opens
<1>17. Entries'
  BY <1>1, <1>2, <1>3, <1>4, <1>5, <1>6, <1>7, <1>8, <1>9, <1>10
<1>18. Boots'
  BY <1>1, <1>2, <1>3, <1>4, <1>5, <1>6, <1>7, <1>8, <1>9, <1>10 DEF Inv, AddsDecision, LogGrows, StatusKept, RunningKept, RequestKept, Boots, PastCounts, Opens
<1>19. Fresh'
  BY <1>1, <1>2, <1>3, <1>4, <1>5, <1>6, <1>7, <1>8, <1>9, <1>10 DEF Inv, AddsDecision, LogGrows, StatusKept, RunningKept, RequestKept, Fresh, PastCounts, Opens
<1>20. Once'
  BY <1>1, <1>2, <1>3, <1>4, <1>5, <1>6, <1>7, <1>8, <1>9, <1>10 DEF Inv, AddsDecision, LogGrows, StatusKept, RunningKept, RequestKept, Once, PastCounts, Opens
<1>21. Undo'
  BY <1>1, <1>2, <1>3, <1>4, <1>5, <1>6, <1>7, <1>8, <1>9, <1>10, ViewsNext DEF Inv, AddsDecision, LogGrows, StatusKept, RunningKept, RequestKept, HalfOpenBy, PriorBy, CurrentRequestBy, Undo, Reopened, HeldIn, PastCounts, Opens
<1>22. BootEnds'
  BY <1>1, <1>2, <1>3, <1>4, <1>5, <1>6, <1>7, <1>8, <1>9, <1>10 DEF Inv, AddsDecision, LogGrows, StatusKept, RunningKept, RequestKept, BootEnds, SomeCarried, Carried, PastCounts, Opens
<1>23. Honest'
  BY <1>1, <1>2, <1>3, <1>4, <1>5, <1>6, <1>7, <1>8, <1>9, <1>10 DEF Inv, AddsDecision, LogGrows, StatusKept, RunningKept, RequestKept, Honest, Quiet, PastCounts, Opens
<1>24. Carry'
  BY <1>1, <1>2, <1>3, <1>4, <1>5, <1>6, <1>7, <1>8, <1>9, <1>10, ViewsNext DEF Inv, AddsDecision, LogGrows, StatusKept, RunningKept, RequestKept, HalfOpenBy, PriorBy, CurrentRequestBy, Carry, Carried, PastCounts, Opens
<1>25. Reads'
  BY <1>1, <1>2, <1>3, <1>4, <1>5, <1>6, <1>7, <1>8, <1>9, <1>10 DEF Inv, AddsDecision, LogGrows, StatusKept, RunningKept, RequestKept, Reads, PastCounts, Opens
<1> QED BY <1>11, <1>12, <1>13, <1>14, <1>15, <1>16, <1>17, <1>18, <1>19, <1>20, <1>21, <1>22, <1>23, <1>24, <1>25 DEF Inv, Shape

LEMMA StepRequestExecution ==
    ASSUME Inv, RequestExecution PROVE Inv'
<1> /\ Types /\ Chains /\ Points /\ Budget /\ Rows /\ LogOK /\ turn \in TurnSet /\ past \in PastSet
    /\ Requests \in Nat /\ past.events \in Nat /\ past.faults \in Nat /\ MaxEvents \in Nat
    /\ Len(log) \in Nat /\ LastStatus \in Nat /\ LastRequest \in Nat /\ LastRunning \in Nat
    /\ Again \subseteq Exec /\ Delivered \subseteq Exec /\ Active \subseteq Exec /\ tosend \subseteq Exec
    /\ \A x \in Exec : x \in Nat /\ x # 0
    /\ LastRequest > LastRunning => Requests \in Exec
  BY InvParts
<1>1. AddsRequest(turn.call, turn.arg)
  BY Emissions DEF Inv
<1>2. turn.call \in {"execute", "rework", "rerun", "boot"} /\ turn.at = "request"
  BY DEF RequestExecution, At
<1>3. UNCHANGED <<versions, dispatched, bills, rows, cursor, stash, flag, place, past>>
  BY DEF RequestExecution, durable, memory, Return
<1>4. GoesTo("discard")
  BY Named, Goes DEF RequestExecution
<1>5. tosend' = tosend \union {Requests + 1}
  BY DEF RequestExecution
<1>6. Requests + 1 \in Exec
  BY <1>2, ExecFacts DEF Budget, Owes
<1>7. /\ LastRequest' = Len(log) + 1 /\ Requests' = Requests + 1 /\ LastRequest' > LastRunning'
      /\ CurrentRequest' = Requests'
  <2>1. LastRequest' = Len(log) + 1 /\ Requests' = Requests + 1 /\ LastRunning' = LastRunning
    BY <1>1 DEF AddsRequest, RunningKept
  <2>2. LastRunning \in 0..LastStatus /\ LastStatus \in 1..Len(log)
    BY LogFacts
  <2> QED BY <2>1, <2>2, ViewsNext DEF CurrentRequestBy
<1>8. \E e : LogGrows(e) /\ IsRequest(e) /\ e.what = turn.call /\ e.of = turn.arg
  BY <1>1 DEF AddsRequest, Request, IsRequest
<1>9. Delivered' = Delivered /\ Active' = Active \union {Requests'} /\ Stray' = Stray
  BY <1>3, <1>5, <1>6, <1>7 DEF Delivered, Published, Current, Active, Live, Stray
<1>10. /\ Entries' /\ (Clean' => Clean) /\ Again' \subseteq Again \union {Requests'}
       /\ turn.call \notin {"rework", "rerun"} => Again' = Again
  <2>1. PICK e : LogGrows(e) /\ IsRequest(e) /\ e.what = turn.call /\ e.of = turn.arg
    BY <1>8
  <2>2. e.what = "rework" => e.of \in Nat /\ e.of <= Len(log) /\ LastRequest <= e.of
    BY <1>2, <2>1 DEF Points
  <2>3. Entries'
    BY <2>1, <2>2, EntriesGrow DEF Inv, IsReworkRequest
  <2> QED BY <1>9, <2>1, <2>3, AgainGrows, CleanGrows
<1>11. /\ rows[Requests'].status = "none" /\ place[Requests'] = "none" /\ past.source[Requests'] = 0
       /\ Requests' \notin Delivered /\ Requests' \notin Again
  BY <1>6, <1>7 DEF Rows, Inv, Fresh
<1>12. Clean => Active \subseteq Stray
  BY <1>2 DEF Inv, Honest, Quiet
<1>13. WorkStatus = "running" /\ Why \notin {"rework", "rerun"}
  BY <1>2 DEF Points, Inv, Marks
<1>14. Types'
  BY <1>1, <1>2, <1>3, <1>4, <1>5, <1>6, <1>7, <1>8, <1>9, <1>10, <1>11, <1>12, <1>13 DEF Inv, AddsRequest, LogGrows, StatusKept, RunningKept, Types, LogOK, GoesTo
<1>15. Chains'
  BY <1>1, <1>2, <1>3, <1>4, <1>5, <1>6, <1>7, <1>8, <1>9, <1>10, <1>11, <1>12, <1>13 DEF Inv, AddsRequest, LogGrows, StatusKept, RunningKept, Chains, Of, GoesTo
<1>16. Points'
  BY <1>1, <1>2, <1>3, <1>4, <1>5, <1>6, <1>7, <1>8, <1>9, <1>10, <1>11, <1>12, <1>13, ViewsNext DEF Inv, AddsRequest, LogGrows, StatusKept, RunningKept, HalfOpenBy, PriorBy, CurrentRequestBy, Points, IsRework, GoesTo
<1>17. Budget'
  BY <1>1, <1>2, <1>3, <1>4, <1>5, <1>6, <1>7, <1>8, <1>9, <1>10, <1>11, <1>12, <1>13 DEF Inv, AddsRequest, LogGrows, StatusKept, RunningKept, Budget, Owes, GoesTo
<1>18. Rows'
  <2>1. Requests' = Requests + 1 /\ rows' = rows /\ place' = place /\ tosend' = tosend \union {Requests'}
    BY <1>3, <1>5, <1>7
  <2>2. turn.at = "request" /\ turn.call # "handler" /\ turn'.call = turn.call /\ turn'.at = "discard"
    BY <1>2, <1>4 DEF GoesTo
  <2>3. \A e \in Exec : place'[e] # "none" => rows'[e].status = "running"
    BY <2>1 DEF Rows
  <2>4. \A e \in Exec : rows'[e].status = "running" => place'[e] # "none"
    BY <2>1, <2>2 DEF Rows
  <2>5. \A e \in Exec : rows'[e].status = "completed" => rows'[e].answer # "none"
    BY <2>1 DEF Rows
  <2>6. \A e \in Exec : rows'[e].status # "none" \/ e \in tosend' => e <= Requests'
    <3> SUFFICES ASSUME NEW e \in Exec, rows'[e].status # "none" \/ e \in tosend' PROVE e <= Requests'
      OBVIOUS
    <3>1. CASE rows[e].status # "none" \/ e \in tosend
      <4>1. e <= Requests /\ e \in Nat
        BY <3>1 DEF Rows
      <4> QED BY <2>1, <4>1
    <3>2. CASE e = Requests'
      BY <3>2, <2>1
    <3> QED BY <2>1, <3>1, <3>2
  <2>7. \A e \in tosend' : rows'[e].status = "none"
    BY <2>1, <1>11 DEF Rows
  <2> QED BY <2>2, <2>3, <2>4, <2>5, <2>6, <2>7 DEF Rows
<1>19. Marks'
  BY <1>1, <1>2, <1>3, <1>4, <1>5, <1>6, <1>7, <1>8, <1>9, <1>10, <1>11, <1>12, <1>13 DEF Inv, AddsRequest, LogGrows, StatusKept, RunningKept, Marks, Reopened, GoesTo
<1>20. Entries'
  BY <1>1, <1>2, <1>3, <1>4, <1>5, <1>6, <1>7, <1>8, <1>9, <1>10, <1>11, <1>12, <1>13
<1>21. Boots'
  BY <1>1, <1>2, <1>3, <1>4, <1>5, <1>6, <1>7, <1>8, <1>9, <1>10, <1>11, <1>12, <1>13 DEF Inv, AddsRequest, LogGrows, StatusKept, RunningKept, Boots, GoesTo
<1>22. Fresh'
  <2>1. Requests' = Requests + 1 /\ past' = past
    BY <1>3, <1>7
  <2>2. \A e \in Delivered' \union Again' : e <= Requests'
    <3>1. \A e \in Delivered \union Again : e <= Requests
      BY DEF Inv, Fresh
    <3>2. \A e \in Delivered \union Again : e \in Nat
      OBVIOUS
    <3>3. \A e \in Delivered \union Again : e <= Requests'
      BY <2>1, <3>1, <3>2
    <3>4. Requests' <= Requests'
      BY <2>1
    <3> QED BY <3>3, <3>4, <1>9, <1>10
  <2>3. \A e \in Exec : e > Requests' => past'.source[e] = 0
    <3>1. \A e \in Exec : e > Requests => past.source[e] = 0
      BY DEF Inv, Fresh
    <3>2. \A e \in Exec : e > Requests' => e > Requests
      BY <2>1
    <3> QED BY <2>1, <3>1, <3>2
  <2> QED BY <2>2, <2>3 DEF Fresh
<1>23. Once'
  BY <1>1, <1>2, <1>3, <1>4, <1>5, <1>6, <1>7, <1>8, <1>9, <1>10, <1>11, <1>12, <1>13 DEF Inv, AddsRequest, LogGrows, StatusKept, RunningKept, Once, GoesTo
<1>24. Undo'
  BY <1>1, <1>2, <1>3, <1>4, <1>5, <1>6, <1>7, <1>8, <1>9, <1>10, <1>11, <1>12, <1>13, ViewsNext DEF Inv, AddsRequest, LogGrows, StatusKept, RunningKept, HalfOpenBy, PriorBy, CurrentRequestBy, Undo, Reopened, HeldIn, GoesTo
<1>25. BootEnds'
  BY <1>1, <1>2, <1>3, <1>4, <1>5, <1>6, <1>7, <1>8, <1>9, <1>10, <1>11, <1>12, <1>13 DEF Inv, AddsRequest, LogGrows, StatusKept, RunningKept, BootEnds, SomeCarried, Carried, GoesTo
<1>26. Honest'
  BY <1>1, <1>2, <1>3, <1>4, <1>5, <1>6, <1>7, <1>8, <1>9, <1>10, <1>11, <1>12, <1>13 DEF Inv, AddsRequest, LogGrows, StatusKept, RunningKept, Honest, Quiet, GoesTo
<1>27. Carry'
  BY <1>1, <1>2, <1>3, <1>4, <1>5, <1>6, <1>7, <1>8, <1>9, <1>10, <1>11, <1>12, <1>13, ViewsNext DEF Inv, AddsRequest, LogGrows, StatusKept, RunningKept, HalfOpenBy, PriorBy, CurrentRequestBy, Carry, Carried, GoesTo
<1>28. Reads'
  BY <1>1, <1>2, <1>3, <1>4, <1>5, <1>6, <1>7, <1>8, <1>9, <1>10, <1>11, <1>12, <1>13 DEF Inv, AddsRequest, LogGrows, StatusKept, RunningKept, Reads, GoesTo
<1> QED BY <1>14, <1>15, <1>16, <1>17, <1>18, <1>19, <1>20, <1>21, <1>22, <1>23, <1>24, <1>25, <1>26, <1>27, <1>28 DEF Inv, Shape

LEMMA StepEnqueue ==
    ASSUME Inv, NEW e \in Exec, Enqueue(e) PROVE Inv'
<1> /\ Types /\ Chains /\ Points /\ Budget /\ Rows /\ LogOK /\ turn \in TurnSet /\ past \in PastSet
    /\ Requests \in Nat /\ past.events \in Nat /\ past.faults \in Nat /\ MaxEvents \in Nat
    /\ Len(log) \in Nat /\ LastStatus \in Nat /\ LastRequest \in Nat /\ LastRunning \in Nat
    /\ Again \subseteq Exec /\ Delivered \subseteq Exec /\ Active \subseteq Exec /\ tosend \subseteq Exec
    /\ \A x \in Exec : x \in Nat /\ x # 0
    /\ LastRequest > LastRunning => Requests \in Exec
  BY InvParts
<1>1. LogStill
  BY Still DEF Enqueue, durable, memory
<1>2. UNCHANGED <<log, versions, dispatched, bills, cursor, stash, flag, place, turn, past>>
  BY DEF Enqueue, durable, memory, Call, Fault
<1>3. turn.call = "none" /\ turn.at = "none"
  BY IdleFacts DEF Enqueue, Free
<1>4. RowSet(e, "queued")
  <2>1. rows[e] \in Row /\ rows' = [rows EXCEPT ![e].status = "queued"]
    BY DEF Enqueue, Types
  <2> QED BY <2>1 DEF RowSet, Row, Types
<1>5. tosend' = tosend \ {e} /\ e \in tosend
  BY DEF Enqueue
<1>6. Active' = Active
  <2>1. \A d \in Exec : (Live(d) \/ d \in tosend)' <=> Live(d) \/ d \in tosend
    BY <1>4, <1>5 DEF RowSet, Live
  <2> QED BY <2>1 DEF Active
<1>7. Delivered' = Delivered /\ Stray' = Stray
  BY <1>2 DEF Delivered, Published, Current, Stray
<1>8. Clean' => Clean
  BY <1>1, <1>7, CleanKept DEF LogStill
<1>9. Marks' /\ Entries'
  BY <1>1 DEF LogStill
<1>10. Types'
  BY <1>1, <1>2, <1>3, <1>4, <1>5, <1>6, <1>7, <1>8 DEF Inv, LogStill, LogKept, Types, LogOK, RowSet
<1>11. Chains'
  BY <1>1, <1>2, <1>3, <1>4, <1>5, <1>6, <1>7, <1>8 DEF Inv, LogStill, Chains, Of, RowSet
<1>12. Points'
  BY <1>1, <1>2, <1>3, <1>4, <1>5, <1>6, <1>7, <1>8 DEF Inv, LogStill, LogKept, StatusKept, RequestKept, Points, IsRework, RowSet
<1>13. Budget'
  BY <1>1, <1>2, <1>3, <1>4, <1>5, <1>6, <1>7, <1>8 DEF Inv, LogStill, LogKept, RequestKept, Budget, Owes, RowSet
<1>14. Rows'
  BY <1>1, <1>2, <1>3, <1>4, <1>5, <1>6, <1>7, <1>8 DEF Inv, LogStill, LogKept, RequestKept, Rows, RowSet
<1>15. Boots'
  BY <1>1, <1>2, <1>3, <1>4, <1>5, <1>6, <1>7, <1>8 DEF Inv, LogStill, Boots, RowSet
<1>16. Fresh'
  BY <1>1, <1>2, <1>3, <1>4, <1>5, <1>6, <1>7, <1>8 DEF Inv, LogStill, LogKept, RequestKept, Fresh, RowSet
<1>17. Once'
  BY <1>1, <1>2, <1>3, <1>4, <1>5, <1>6, <1>7, <1>8 DEF Inv, LogStill, Once, RowSet
<1>18. Undo'
  BY <1>1, <1>2, <1>3, <1>4, <1>5, <1>6, <1>7, <1>8 DEF Inv, LogStill, LogKept, StatusKept, Undo, Reopened, HeldIn, RowSet
<1>19. BootEnds'
  BY <1>1, <1>2, <1>3, <1>4, <1>5, <1>6, <1>7, <1>8 DEF Inv, LogStill, LogKept, StatusKept, BootEnds, SomeCarried, Carried, RowSet
<1>20. Honest'
  BY <1>1, <1>2, <1>3, <1>4, <1>5, <1>6, <1>7, <1>8 DEF Inv, LogStill, LogKept, StatusKept, RunningKept, RequestKept, Honest, Quiet, RowSet
<1>21. Carry'
  BY <1>1, <1>2, <1>3, <1>4, <1>5, <1>6, <1>7, <1>8 DEF Inv, LogStill, LogKept, StatusKept, RunningKept, RequestKept, Carry, Carried, RowSet
<1>22. Reads'
  BY <1>1, <1>2, <1>3, <1>4, <1>5, <1>6, <1>7, <1>8 DEF Inv, LogStill, Reads, RowSet
<1> QED BY <1>9, <1>10, <1>11, <1>12, <1>13, <1>14, <1>15, <1>16, <1>17, <1>18, <1>19, <1>20, <1>21, <1>22 DEF Inv, Shape

LEMMA StepBegin ==
    ASSUME Inv, NEW e \in Exec, Begin(e) PROVE Inv'
<1> /\ Types /\ Chains /\ Points /\ Budget /\ Rows /\ LogOK /\ turn \in TurnSet /\ past \in PastSet
    /\ Requests \in Nat /\ past.events \in Nat /\ past.faults \in Nat /\ MaxEvents \in Nat
    /\ Len(log) \in Nat /\ LastStatus \in Nat /\ LastRequest \in Nat /\ LastRunning \in Nat
    /\ Again \subseteq Exec /\ Delivered \subseteq Exec /\ Active \subseteq Exec /\ tosend \subseteq Exec
    /\ \A x \in Exec : x \in Nat /\ x # 0
    /\ LastRequest > LastRunning => Requests \in Exec
  BY InvParts
<1>1. LogStill
  BY Still DEF Begin, durable, memory
<1>2. UNCHANGED <<log, versions, dispatched, bills, cursor, stash, tosend, flag, place, past>>
  BY DEF Begin, durable, memory, Call, Fault
<1>3. turn.call = "none" /\ turn.at = "none"
  BY IdleFacts DEF Begin, Free
<1>4. RowSet(e, "running")
  <2>1. rows[e] \in Row /\ rows' = [rows EXCEPT ![e].status = "running"]
    BY DEF Begin, Types
  <2> QED BY <2>1 DEF RowSet, Row, Types
<1>5. /\ rows[e].status = "queued" /\ place[e] = "none" /\ e \notin tosend
      /\ \/ flag /\ Opens("handler", "cancelled", e)
         \/ ~flag /\ WorkStatus # "running" /\ Opens("handler", "stamp", e)
         \/ ~flag /\ WorkStatus = "running" /\ Opens("handler", "load", e)
  BY ExecFacts, Named, Hands DEF Begin, Rows
<1>6. Active' = Active /\ e \in Active
  <2>1. \A d \in Exec : (Live(d) \/ d \in tosend)' <=> Live(d) \/ d \in tosend
    BY <1>2, <1>4, <1>5 DEF RowSet, Live
  <2> QED BY <2>1, <1>5 DEF Active, Live
<1>7. Delivered' = Delivered /\ Stray' = Stray
  BY <1>2 DEF Delivered, Published, Current, Stray
<1>8. Clean' => Clean
  BY <1>1, <1>7, CleanKept DEF LogStill
<1>9. Clean /\ WorkStatus # "running" => e \in Stray
  BY <1>3, <1>6, ActiveFacts
<1>10. Marks' /\ Entries'
  BY <1>1 DEF LogStill
<1>11. Types'
  BY <1>1, <1>2, <1>3, <1>4, <1>5, <1>6, <1>7, <1>8, <1>9 DEF Inv, LogStill, LogKept, Types, LogOK, Opens, RowSet
<1>12. Chains'
  BY <1>1, <1>2, <1>3, <1>4, <1>5, <1>6, <1>7, <1>8, <1>9 DEF Inv, LogStill, Chains, Of, Opens, RowSet
<1>13. Points'
  BY <1>1, <1>2, <1>3, <1>4, <1>5, <1>6, <1>7, <1>8, <1>9 DEF Inv, LogStill, LogKept, StatusKept, RequestKept, Points, IsRework, Opens, RowSet
<1>14. Budget'
  BY <1>1, <1>2, <1>3, <1>4, <1>5, <1>6, <1>7, <1>8, <1>9 DEF Inv, LogStill, LogKept, RequestKept, Budget, Owes, Opens, RowSet
<1>15. Rows'
  BY <1>1, <1>2, <1>3, <1>4, <1>5, <1>6, <1>7, <1>8, <1>9 DEF Inv, LogStill, LogKept, RequestKept, Rows, Opens, RowSet
<1>16. Boots'
  BY <1>1, <1>2, <1>3, <1>4, <1>5, <1>6, <1>7, <1>8, <1>9 DEF Inv, LogStill, Boots, Opens, RowSet
<1>17. Fresh'
  BY <1>1, <1>2, <1>3, <1>4, <1>5, <1>6, <1>7, <1>8, <1>9 DEF Inv, LogStill, LogKept, RequestKept, Fresh, Opens, RowSet
<1>18. Once'
  BY <1>1, <1>2, <1>3, <1>4, <1>5, <1>6, <1>7, <1>8, <1>9 DEF Inv, LogStill, Once, Opens, RowSet
<1>19. Undo'
  BY <1>1, <1>2, <1>3, <1>4, <1>5, <1>6, <1>7, <1>8, <1>9 DEF Inv, LogStill, LogKept, StatusKept, Undo, Reopened, HeldIn, Opens, RowSet
<1>20. BootEnds'
  BY <1>1, <1>2, <1>3, <1>4, <1>5, <1>6, <1>7, <1>8, <1>9 DEF Inv, LogStill, LogKept, StatusKept, BootEnds, SomeCarried, Carried, Opens, RowSet
<1>21. Honest'
  BY <1>1, <1>2, <1>3, <1>4, <1>5, <1>6, <1>7, <1>8, <1>9 DEF Inv, LogStill, LogKept, StatusKept, RunningKept, RequestKept, Honest, Quiet, Opens, RowSet
<1>22. Carry'
  <2>1. /\ WorkStatus' = WorkStatus /\ LastRequest' = LastRequest /\ Requests' = Requests
        /\ LastRunning' = LastRunning /\ flag' = flag /\ tosend' = tosend
    BY <1>1, <1>2 DEF LogStill, LogKept, StatusKept, RunningKept, RequestKept
  <2>2. turn'.call = "handler" /\ turn'.arg = e /\ turn'.at \notin {"running", "request"}
    BY <1>5 DEF Opens
  <2>3. ASSUME Clean', past'.faults = 0, flag' PROVE WorkStatus' # "running"
    BY <2>1, <2>3, <1>2, <1>3, <1>8 DEF Inv, Carry
  <2>4. ASSUME Clean', past'.faults = 0, WorkStatus' = "running"
        PROVE  /\ LastRequest' > LastRunning'
               /\ Carried(Requests)' \/ (turn'.arg = Requests' /\ turn'.at # "cancelled")
    <3>1. LastRequest > LastRunning /\ Carried(Requests) /\ ~flag
      BY <2>1, <2>4, <1>2, <1>3, <1>8 DEF Inv, Carry
    <3>2. turn'.at = "load"
      BY <2>1, <2>4, <3>1, <1>5 DEF Opens
    <3>3. CASE Requests = e
      BY <2>1, <2>2, <3>1, <3>2, <3>3
    <3>4. CASE Requests # e
      <4>1. Requests \in Exec
        BY <3>1
      <4>2. rows'[Requests] = rows[Requests]
        BY <3>4, <4>1, <1>4 DEF RowSet
      <4> QED BY <2>1, <3>1, <4>2, <1>2 DEF Carried
    <3> QED BY <3>3, <3>4
  <2> QED BY <2>2, <2>3, <2>4 DEF Carry
<1>23. Reads'
  BY <1>1, <1>2, <1>3, <1>4, <1>5, <1>6, <1>7, <1>8, <1>9 DEF Inv, LogStill, Reads, Opens, RowSet
<1> QED BY <1>10, <1>11, <1>12, <1>13, <1>14, <1>15, <1>16, <1>17, <1>18, <1>19, <1>20, <1>21, <1>22, <1>23 DEF Inv, Shape

LEMMA StepModelReturns ==
    ASSUME Inv, NEW e \in Exec, ModelReturns(e) PROVE Inv'
<1> /\ Types /\ Chains /\ Points /\ Budget /\ Rows /\ LogOK /\ turn \in TurnSet /\ past \in PastSet
    /\ Requests \in Nat /\ past.events \in Nat /\ past.faults \in Nat /\ MaxEvents \in Nat
    /\ Len(log) \in Nat /\ LastStatus \in Nat /\ LastRequest \in Nat /\ LastRunning \in Nat
    /\ Again \subseteq Exec /\ Delivered \subseteq Exec /\ Active \subseteq Exec /\ tosend \subseteq Exec
    /\ \A x \in Exec : x \in Nat /\ x # 0
    /\ LastRequest > LastRunning => Requests \in Exec
  BY InvParts
<1>1. LogStill
  BY Still DEF ModelReturns, durable, memory
<1>2. UNCHANGED <<log, versions, dispatched, bills, rows, cursor, stash, tosend, flag, past>>
  BY DEF ModelReturns, durable, memory, Call, Fault
<1>3. turn.call = "none" /\ turn.at = "none"
  BY IdleFacts DEF ModelReturns, Free
<1>4. /\ place[e] = "model" /\ rows[e].status = "running"
      /\ \E at \in {"bill", "fail", "publish"} : Opens("handler", at, e)
  BY ExecFacts, Named, Hands DEF ModelReturns, Rows
<1>5. Delivered' = Delivered /\ Active' = Active /\ Stray' = Stray
  BY <1>2 DEF Delivered, Published, Current, Active, Live, Stray
<1>6. Clean' => Clean
  BY <1>1, <1>5, CleanKept DEF LogStill
<1>7. PlaceSet(e, "none")
  <2>1. place' = [place EXCEPT ![e] = "none"]
    BY DEF ModelReturns
  <2> QED BY <2>1 DEF PlaceSet, Types
<1>8. Marks' /\ Entries'
  BY <1>1 DEF LogStill
<1>9. Types'
  BY <1>1, <1>2, <1>3, <1>4, <1>5, <1>6, <1>7 DEF Inv, LogStill, LogKept, Types, LogOK, Opens, PlaceSet
<1>10. Chains'
  BY <1>1, <1>2, <1>3, <1>4, <1>5, <1>6, <1>7 DEF Inv, LogStill, Chains, Of, Opens, PlaceSet
<1>11. Points'
  BY <1>1, <1>2, <1>3, <1>4, <1>5, <1>6, <1>7 DEF Inv, LogStill, LogKept, StatusKept, RequestKept, Points, IsRework, Opens, PlaceSet
<1>12. Budget'
  BY <1>1, <1>2, <1>3, <1>4, <1>5, <1>6, <1>7 DEF Inv, LogStill, LogKept, RequestKept, Budget, Owes, Opens, PlaceSet
<1>13. Rows'
  BY <1>1, <1>2, <1>3, <1>4, <1>5, <1>6, <1>7 DEF Inv, LogStill, LogKept, RequestKept, Rows, Opens, PlaceSet
<1>14. Boots'
  BY <1>1, <1>2, <1>3, <1>4, <1>5, <1>6, <1>7 DEF Inv, LogStill, Boots, Opens, PlaceSet
<1>15. Fresh'
  BY <1>1, <1>2, <1>3, <1>4, <1>5, <1>6, <1>7 DEF Inv, LogStill, LogKept, RequestKept, Fresh, Opens, PlaceSet
<1>16. Once'
  BY <1>1, <1>2, <1>3, <1>4, <1>5, <1>6, <1>7 DEF Inv, LogStill, Once, Opens, PlaceSet
<1>17. Undo'
  BY <1>1, <1>2, <1>3, <1>4, <1>5, <1>6, <1>7 DEF Inv, LogStill, LogKept, StatusKept, Undo, Reopened, HeldIn, Opens, PlaceSet
<1>18. BootEnds'
  BY <1>1, <1>2, <1>3, <1>4, <1>5, <1>6, <1>7 DEF Inv, LogStill, LogKept, StatusKept, BootEnds, SomeCarried, Carried, Opens, PlaceSet
<1>19. Honest'
  BY <1>1, <1>2, <1>3, <1>4, <1>5, <1>6, <1>7 DEF Inv, LogStill, LogKept, StatusKept, RunningKept, RequestKept, Honest, Quiet, Opens, PlaceSet
<1>20. Carry'
  <2>1. /\ WorkStatus' = WorkStatus /\ LastRequest' = LastRequest /\ Requests' = Requests
        /\ LastRunning' = LastRunning /\ flag' = flag /\ tosend' = tosend
    BY <1>1, <1>2 DEF LogStill, LogKept, StatusKept, RunningKept, RequestKept
  <2>2. turn'.call = "handler" /\ turn'.arg = e /\ turn'.at \notin {"running", "request", "cancelled"}
    BY <1>4 DEF Opens
  <2>3. ASSUME Clean', past'.faults = 0, flag' PROVE WorkStatus' # "running"
    BY <2>1, <2>3, <1>2, <1>3, <1>6 DEF Inv, Carry
  <2>4. ASSUME Clean', past'.faults = 0, WorkStatus' = "running"
        PROVE  LastRequest' > LastRunning' /\ (Carried(Requests)' \/ turn'.arg = Requests')
    <3>1. LastRequest > LastRunning /\ Carried(Requests)
      BY <2>1, <2>4, <1>2, <1>3, <1>6 DEF Inv, Carry
    <3>2. CASE Requests = e
      BY <2>1, <2>2, <3>1, <3>2
    <3>3. CASE Requests # e
      <4>1. place'[Requests] = place[Requests]
        BY <3>1, <3>3, <1>7 DEF PlaceSet
      <4> QED BY <2>1, <3>1, <4>1, <1>2 DEF Carried
    <3> QED BY <3>2, <3>3
  <2> QED BY <2>2, <2>3, <2>4 DEF Carry
<1>21. Reads'
  BY <1>1, <1>2, <1>3, <1>4, <1>5, <1>6, <1>7 DEF Inv, LogStill, Reads, Opens, PlaceSet
<1> QED BY <1>8, <1>9, <1>10, <1>11, <1>12, <1>13, <1>14, <1>15, <1>16, <1>17, <1>18, <1>19, <1>20, <1>21 DEF Inv, Shape

LEMMA StepStepReturns ==
    ASSUME Inv, NEW e \in Exec, StepReturns(e) PROVE Inv'
<1> /\ Types /\ Chains /\ Points /\ Budget /\ Rows /\ LogOK /\ turn \in TurnSet /\ past \in PastSet
    /\ Requests \in Nat /\ past.events \in Nat /\ past.faults \in Nat /\ MaxEvents \in Nat
    /\ Len(log) \in Nat /\ LastStatus \in Nat /\ LastRequest \in Nat /\ LastRunning \in Nat
    /\ Again \subseteq Exec /\ Delivered \subseteq Exec /\ Active \subseteq Exec /\ tosend \subseteq Exec
    /\ \A x \in Exec : x \in Nat /\ x # 0
    /\ LastRequest > LastRunning => Requests \in Exec
  BY InvParts
<1>1. LogStill
  BY Still DEF StepReturns, durable, memory
<1>2. UNCHANGED <<log, versions, dispatched, bills, rows, stash, tosend, flag>>
  BY DEF StepReturns, durable, memory, Call, Fault
<1>3. turn.call = "none" /\ turn.at = "none"
  BY IdleFacts DEF StepReturns, Free
<1>4. /\ place[e] = "step" /\ rows[e].status = "running"
      /\ e <= Requests /\ e \in Active
      /\ \/ Opens("handler", "compile", e) /\ cursor' = e /\ past' = [past EXCEPT !.source[e] = e]
         \/ Opens("handler", "fail", e) /\ cursor' = cursor /\ past' = past
  BY ExecFacts, Named, Hands DEF StepReturns, Rows, Active, Live
<1>5. /\ past' \in PastSet /\ past'.events = past.events /\ past'.faults = past.faults
      /\ past'.redone = past.redone /\ past'.unheard = past.unheard /\ past'.held = past.held
      /\ past'.source \in {past.source, [past.source EXCEPT ![e] = e]}
      /\ turn'.at = "compile" => past'.source = [past.source EXCEPT ![e] = e]
  <2>1. ASSUME past' = [past EXCEPT !.source[e] = e]
        PROVE  /\ past' \in PastSet /\ past'.events = past.events /\ past'.faults = past.faults
               /\ past'.redone = past.redone /\ past'.unheard = past.unheard /\ past'.held = past.held
               /\ past'.source = [past.source EXCEPT ![e] = e]
    BY <2>1 DEF PastSet
  <2>2. turn'.at = "compile" => past' = [past EXCEPT !.source[e] = e]
    BY <1>4 DEF Opens
  <2> QED BY <1>4, <2>1, <2>2
<1>6. Delivered' = Delivered /\ Active' = Active /\ Stray' = Stray
  BY <1>2, <1>5 DEF Delivered, Published, Current, Active, Live, Stray
<1>7. Clean' => Clean
  BY <1>1, <1>6, CleanKept DEF LogStill
<1>8. PlaceSet(e, "none")
  <2>1. place' = [place EXCEPT ![e] = "none"]
    BY DEF StepReturns
  <2> QED BY <2>1 DEF PlaceSet, Types
<1>9. Again \subseteq Exec /\ past.source \in [Exec -> Exec \union {0}] /\ 0 \notin Exec
  BY ExecFacts DEF Again, PastSet
<1>10. Clean /\ e \notin Stray => Active \subseteq Stray \union {e}
  BY <1>4, ActiveFacts
<1>11. Marks' /\ Entries'
  BY <1>1 DEF LogStill
<1>12. Types'
  BY <1>1, <1>2, <1>3, <1>4, <1>5, <1>6, <1>7, <1>8, <1>9, <1>10 DEF Inv, LogStill, LogKept, Types, LogOK, Opens, PlaceSet
<1>13. Chains'
  BY <1>1, <1>2, <1>3, <1>4, <1>5, <1>6, <1>7, <1>8, <1>9, <1>10 DEF Inv, LogStill, Chains, Of, Opens, PlaceSet
<1>14. Points'
  BY <1>1, <1>2, <1>3, <1>4, <1>5, <1>6, <1>7, <1>8, <1>9, <1>10 DEF Inv, LogStill, LogKept, StatusKept, RequestKept, Points, IsRework, Opens, PlaceSet
<1>15. Budget'
  BY <1>1, <1>2, <1>3, <1>4, <1>5, <1>6, <1>7, <1>8, <1>9, <1>10 DEF Inv, LogStill, LogKept, RequestKept, Budget, Owes, Opens, PlaceSet
<1>16. Rows'
  BY <1>1, <1>2, <1>3, <1>4, <1>6, <1>8 DEF Inv, LogStill, LogKept, RequestKept, Rows, Opens, PlaceSet
<1>17. Boots'
  BY <1>1, <1>2, <1>3, <1>4, <1>5, <1>6, <1>7, <1>8, <1>9, <1>10 DEF Inv, LogStill, Boots, Opens, PlaceSet
<1>18. Fresh'
  <2>1. Requests' = Requests /\ Again' = Again /\ Delivered' = Delivered
    BY <1>1, <1>6 DEF LogStill, LogKept, RequestKept
  <2>2. \A d \in Exec : d > Requests' => past'.source[d] = past.source[d]
    <3>1. e <= Requests
      BY <1>4
    <3>2. \A d \in Exec : d > Requests => d # e
      <4>1. e \in Nat /\ ~(e > Requests)
        BY <3>1
      <4> QED BY <4>1
    <3> QED BY <2>1, <3>2, <1>5, <1>9
  <2> QED BY <2>1, <2>2 DEF Inv, Fresh
<1>19. Once'
  BY <1>1, <1>2, <1>3, <1>4, <1>5, <1>6, <1>7, <1>8, <1>9, <1>10 DEF Inv, LogStill, Once, Opens, PlaceSet
<1>20. Undo'
  BY <1>1, <1>2, <1>3, <1>4, <1>5, <1>6, <1>7, <1>8, <1>9, <1>10 DEF Inv, LogStill, LogKept, StatusKept, Undo, Reopened, HeldIn, Opens, PlaceSet
<1>21. BootEnds'
  BY <1>1, <1>2, <1>3, <1>4, <1>5, <1>6, <1>7, <1>8, <1>9, <1>10 DEF Inv, LogStill, LogKept, StatusKept, BootEnds, SomeCarried, Carried, Opens, PlaceSet
<1>22. Honest'
  BY <1>1, <1>2, <1>3, <1>4, <1>5, <1>6, <1>7, <1>8, <1>9, <1>10 DEF Inv, LogStill, LogKept, StatusKept, RunningKept, RequestKept, Honest, Quiet, Opens, PlaceSet
<1>23. Carry'
  BY <1>1, <1>2, <1>3, <1>4, <1>5, <1>6, <1>7, <1>8, <1>9, <1>10 DEF Inv, LogStill, LogKept, StatusKept, RunningKept, RequestKept, Carry, Carried, Opens, PlaceSet
<1>24. Reads'
  BY <1>1, <1>2, <1>3, <1>4, <1>5, <1>6, <1>7, <1>8, <1>9, <1>10 DEF Inv, LogStill, Reads, Opens, PlaceSet
<1> QED BY <1>11, <1>12, <1>13, <1>14, <1>15, <1>16, <1>17, <1>18, <1>19, <1>20, <1>21, <1>22, <1>23, <1>24 DEF Inv, Shape

LEMMA StepTimesOut ==
    ASSUME Inv, NEW e \in Exec, TimesOut(e) PROVE Inv'
<1> /\ Types /\ Chains /\ Points /\ Budget /\ Rows /\ LogOK /\ turn \in TurnSet /\ past \in PastSet
    /\ Requests \in Nat /\ past.events \in Nat /\ past.faults \in Nat /\ MaxEvents \in Nat
    /\ Len(log) \in Nat /\ LastStatus \in Nat /\ LastRequest \in Nat /\ LastRunning \in Nat
    /\ Again \subseteq Exec /\ Delivered \subseteq Exec /\ Active \subseteq Exec /\ tosend \subseteq Exec
    /\ \A x \in Exec : x \in Nat /\ x # 0
    /\ LastRequest > LastRunning => Requests \in Exec
  BY InvParts
<1>1. LogStill
  BY Still DEF TimesOut, durable, memory
<1>2. UNCHANGED <<log, versions, dispatched, bills, cursor, stash, tosend, flag>>
  BY DEF TimesOut, durable, memory, Call, Fault
<1>3. turn.call = "none" /\ turn.at = "none"
  BY IdleFacts DEF TimesOut, Free
<1>4. past.events < MaxEvents /\ PastCounts(past.events + 1, past.faults) /\ Stray' = Stray
  <2>1. past.events < MaxEvents /\ past' = [past EXCEPT !.events = @ + 1]
    BY DEF TimesOut
  <2> QED BY <2>1, EventFacts
<1>5. PlaceSet(e, "none")
  <2>1. place' = [place EXCEPT ![e] = "none"]
    BY DEF TimesOut
  <2> QED BY <2>1 DEF PlaceSet, Types
<1>6. place[e] # "none" /\ rows[e].status = "running" /\ e \in Active
  BY DEF TimesOut, Rows, Active, Live
<1>7. \/ RowSet(e, "queued") /\ Rests
      \/ RowSet(e, "failed") /\ Opens("handler", "close", e)
  BY TryAgainFacts DEF TimesOut, Types
<1>8. Delivered' = Delivered /\ Active' \subseteq Active
  BY <1>2, <1>6, <1>7 DEF RowSet, RowDone, Delivered, Published, Current, Active, Live
<1>9. Clean' => Clean
  BY <1>1, <1>4, CleanKept DEF LogStill
<1>10. Carried(Requests) /\ Requests \in Exec => Carried(Requests)' \/ (turn'.call = "handler" /\ turn'.arg = Requests /\ turn'.at = "close")
  <2>1. Requests' = Requests
    BY <1>1 DEF LogStill, LogKept, RequestKept
  <2>2. ASSUME Requests \in Exec, Requests # e, Carried(Requests) PROVE Carried(Requests)'
    <3>1. rows'[Requests] = rows[Requests] /\ place'[Requests] = place[Requests]
      BY <2>2, <1>5, <1>7 DEF RowSet, PlaceSet
    <3> QED BY <2>1, <2>2, <3>1, <1>2 DEF Carried
  <2>3. ASSUME Requests = e PROVE Carried(Requests)' \/ (turn'.call = "handler" /\ turn'.arg = Requests /\ turn'.at = "close")
    BY <2>1, <2>3, <1>7 DEF Carried, RowSet, Opens
  <2> QED BY <2>2, <2>3
<1>11. Marks' /\ Entries'
  BY <1>1 DEF LogStill
<1>12. Types'
  BY <1>1, <1>2, <1>3, <1>4, <1>5, <1>6, <1>7, <1>8, <1>9, <1>10 DEF Inv, LogStill, LogKept, Types, LogOK, PastCounts, Rests, Opens, RowSet, PlaceSet
<1>13. Chains'
  BY <1>1, <1>2, <1>3, <1>4, <1>5, <1>6, <1>7, <1>8, <1>9, <1>10 DEF Inv, LogStill, Chains, Of, PastCounts, Rests, Opens, RowSet, PlaceSet
<1>14. Points'
  BY <1>1, <1>2, <1>3, <1>4, <1>5, <1>6, <1>7, <1>8, <1>9, <1>10 DEF Inv, LogStill, LogKept, StatusKept, RequestKept, Points, IsRework, PastCounts, Rests, Opens, RowSet, PlaceSet
<1>15. Budget'
  BY <1>1, <1>2, <1>3, <1>4, <1>5, <1>6, <1>7, <1>8, <1>9, <1>10 DEF Inv, LogStill, LogKept, RequestKept, Budget, Owes, PastCounts, Rests, Opens, RowSet, PlaceSet
<1>16. Rows'
  <2>1. Requests' = Requests /\ tosend' = tosend
    BY <1>1, <1>2 DEF LogStill, LogKept, RequestKept
  <2>2. /\ rows'[e].status \in {"queued", "failed"} /\ place'[e] = "none"
        /\ \A d \in Exec : d # e => rows'[d] = rows[d] /\ place'[d] = place[d]
    BY <1>5, <1>7 DEF RowSet, PlaceSet
  <2>3. turn'.call = "handler" => turn'.at = "close" /\ turn'.arg = e /\ rows'[e].status = "failed"
    BY <1>7 DEF Opens, Rests, RowSet
  <2>4. turn'.at = "close" => turn'.call = "handler"
    BY <1>7 DEF Opens, Rests
  <2>5. \A d \in Exec : rows'[d].status = "running" => place'[d] # "none"
    BY <2>2, <1>3 DEF Rows
  <2>6. \A d \in Exec : place'[d] # "none" => rows'[d].status = "running"
    BY <2>2 DEF Rows
  <2>7. \A d \in Exec : rows'[d].status = "completed" => rows'[d].answer # "none"
    BY <2>2 DEF Rows
  <2>8. \A d \in Exec : rows'[d].status # "none" \/ d \in tosend' => d <= Requests'
    BY <2>1, <2>2, <1>6 DEF Rows
  <2>9. \A d \in tosend' : rows'[d].status = "none"
    BY <2>1, <2>2, <1>6 DEF Rows
  <2> QED BY <2>3, <2>4, <2>5, <2>6, <2>7, <2>8, <2>9 DEF Rows
<1>17. Boots'
  BY <1>1, <1>2, <1>3, <1>4, <1>5, <1>6, <1>7, <1>8, <1>9, <1>10 DEF Inv, LogStill, Boots, PastCounts, Rests, Opens, RowSet, PlaceSet
<1>18. Fresh'
  BY <1>1, <1>2, <1>3, <1>4, <1>5, <1>6, <1>7, <1>8, <1>9, <1>10 DEF Inv, LogStill, LogKept, RequestKept, Fresh, PastCounts, Rests, Opens, RowSet, PlaceSet
<1>19. Once'
  BY <1>1, <1>2, <1>3, <1>4, <1>5, <1>6, <1>7, <1>8, <1>9, <1>10 DEF Inv, LogStill, Once, PastCounts, Rests, Opens, RowSet, PlaceSet
<1>20. Undo'
  BY <1>1, <1>2, <1>3, <1>4, <1>5, <1>6, <1>7, <1>8, <1>9, <1>10 DEF Inv, LogStill, LogKept, StatusKept, Undo, Reopened, HeldIn, PastCounts, Rests, Opens, RowSet, PlaceSet
<1>21. BootEnds'
  BY <1>1, <1>2, <1>3, <1>4, <1>5, <1>6, <1>7, <1>8, <1>9, <1>10 DEF Inv, LogStill, LogKept, StatusKept, BootEnds, SomeCarried, Carried, PastCounts, Rests, Opens, RowSet, PlaceSet
<1>22. Honest'
  BY <1>1, <1>2, <1>3, <1>4, <1>5, <1>6, <1>7, <1>8, <1>9, <1>10 DEF Inv, LogStill, LogKept, StatusKept, RunningKept, RequestKept, Honest, Quiet, PastCounts, Rests, Opens, RowSet, PlaceSet
<1>23. Carry'
  BY <1>1, <1>2, <1>3, <1>4, <1>5, <1>6, <1>7, <1>8, <1>9, <1>10 DEF Inv, LogStill, LogKept, StatusKept, RunningKept, RequestKept, Carry, Carried, PastCounts, Rests, Opens, RowSet, PlaceSet
<1>24. Reads'
  BY <1>1, <1>2, <1>3, <1>4, <1>5, <1>6, <1>7, <1>8, <1>9, <1>10 DEF Inv, LogStill, Reads, PastCounts, Rests, Opens, RowSet, PlaceSet
<1> QED BY <1>11, <1>12, <1>13, <1>14, <1>15, <1>16, <1>17, <1>18, <1>19, <1>20, <1>21, <1>22, <1>23, <1>24 DEF Inv, Shape

LEMMA StepReportCancelled ==
    ASSUME Inv, ReportCancelled PROVE Inv'
<1> /\ Types /\ Chains /\ Points /\ Budget /\ Rows /\ LogOK /\ turn \in TurnSet /\ past \in PastSet
    /\ Requests \in Nat /\ past.events \in Nat /\ past.faults \in Nat /\ MaxEvents \in Nat
    /\ Len(log) \in Nat /\ LastStatus \in Nat /\ LastRequest \in Nat /\ LastRunning \in Nat
    /\ Again \subseteq Exec /\ Delivered \subseteq Exec /\ Active \subseteq Exec /\ tosend \subseteq Exec
    /\ \A x \in Exec : x \in Nat /\ x # 0
    /\ LastRequest > LastRunning => Requests \in Exec
  BY InvParts
<1>1. LogStill
  BY Still DEF ReportCancelled, durable, memory
<1>2. UNCHANGED <<log, versions, dispatched, bills, cursor, stash, tosend, place, past>>
  BY DEF ReportCancelled, durable, memory, Call, Fault
<1>3. turn.call \in {"handler"} /\ turn.at = "cancelled"
  BY DEF ReportCancelled, At
<1>4. PICK e \in Exec : e = turn.arg /\ rows[e].status = "running" /\ place[e] = "none" /\ e \in Active /\ e <= Requests /\ e \notin tosend
  BY <1>3 DEF Chains, Rows, Active, Live
<1>5. Rests /\ flag' = FALSE
  BY Ends DEF ReportCancelled
<1>6. RowDone(e, "cancelled")
  BY <1>4, ReturnFacts DEF ReportCancelled, Types
<1>7. Stray' = Stray
  BY <1>2 DEF Stray
<1>8. Delivered' = Delivered /\ Active' \subseteq Active
  BY <1>2, <1>4, <1>6 DEF RowSet, RowDone, Delivered, Published, Current, Active, Live
<1>9. Clean' => Clean
  BY <1>1, <1>7, CleanKept DEF LogStill
<1>10. Carried(Requests) /\ Requests \in Exec => Carried(Requests)'
  <2>1. Requests' = Requests
    BY <1>1 DEF LogStill, LogKept, RequestKept
  <2>2. Carried(Requests) => Requests # e
    BY <1>4 DEF Carried
  <2> QED BY <2>1, <2>2, <1>2, <1>6 DEF Carried, RowDone
<1>11. Marks' /\ Entries'
  BY <1>1 DEF LogStill
<1>12. Types'
  BY <1>1, <1>2, <1>3, <1>4, <1>5, <1>6, <1>7, <1>8, <1>9, <1>10 DEF Inv, LogStill, LogKept, Types, LogOK, Rests, RowDone
<1>13. Chains'
  BY <1>1, <1>2, <1>3, <1>4, <1>5, <1>6, <1>7, <1>8, <1>9, <1>10 DEF Inv, LogStill, Chains, Of, Rests, RowDone
<1>14. Points'
  BY <1>1, <1>2, <1>3, <1>4, <1>5, <1>6, <1>7, <1>8, <1>9, <1>10 DEF Inv, LogStill, LogKept, StatusKept, RequestKept, Points, IsRework, Rests, RowDone
<1>15. Budget'
  BY <1>1, <1>2, <1>3, <1>4, <1>5, <1>6, <1>7, <1>8, <1>9, <1>10 DEF Inv, LogStill, LogKept, RequestKept, Budget, Owes, Rests, RowDone
<1>16. Rows'
  BY <1>1, <1>2, <1>3, <1>4, <1>5, <1>6, <1>7, <1>8, <1>9, <1>10 DEF Inv, LogStill, LogKept, RequestKept, Rows, Rests, RowDone
<1>17. Boots'
  BY <1>1, <1>2, <1>3, <1>4, <1>5, <1>6, <1>7, <1>8, <1>9, <1>10 DEF Inv, LogStill, Boots, Rests, RowDone
<1>18. Fresh'
  BY <1>1, <1>2, <1>3, <1>4, <1>5, <1>6, <1>7, <1>8, <1>9, <1>10 DEF Inv, LogStill, LogKept, RequestKept, Fresh, Rests, RowDone
<1>19. Once'
  BY <1>1, <1>2, <1>3, <1>4, <1>5, <1>6, <1>7, <1>8, <1>9, <1>10 DEF Inv, LogStill, Once, Rests, RowDone
<1>20. Undo'
  BY <1>1, <1>2, <1>3, <1>4, <1>5, <1>6, <1>7, <1>8, <1>9, <1>10 DEF Inv, LogStill, LogKept, StatusKept, Undo, Reopened, HeldIn, Rests, RowDone
<1>21. BootEnds'
  BY <1>1, <1>2, <1>3, <1>4, <1>5, <1>6, <1>7, <1>8, <1>9, <1>10 DEF Inv, LogStill, LogKept, StatusKept, BootEnds, SomeCarried, Carried, Rests, RowDone
<1>22. Honest'
  BY <1>1, <1>2, <1>3, <1>4, <1>5, <1>6, <1>7, <1>8, <1>9, <1>10 DEF Inv, LogStill, LogKept, StatusKept, RunningKept, RequestKept, Honest, Quiet, Rests, RowDone
<1>23. Carry'
  BY <1>1, <1>2, <1>3, <1>4, <1>5, <1>6, <1>7, <1>8, <1>9, <1>10 DEF Inv, LogStill, LogKept, StatusKept, RunningKept, RequestKept, Carry, Carried, Rests, RowDone
<1>24. Reads'
  BY <1>1, <1>2, <1>3, <1>4, <1>5, <1>6, <1>7, <1>8, <1>9, <1>10 DEF Inv, LogStill, Reads, Rests, RowDone
<1> QED BY <1>11, <1>12, <1>13, <1>14, <1>15, <1>16, <1>17, <1>18, <1>19, <1>20, <1>21, <1>22, <1>23, <1>24 DEF Inv, Shape

LEMMA StepAnswer ==
    ASSUME Inv, Answer PROVE Inv'
<1> /\ Types /\ Chains /\ Points /\ Budget /\ Rows /\ LogOK /\ turn \in TurnSet /\ past \in PastSet
    /\ Requests \in Nat /\ past.events \in Nat /\ past.faults \in Nat /\ MaxEvents \in Nat
    /\ Len(log) \in Nat /\ LastStatus \in Nat /\ LastRequest \in Nat /\ LastRunning \in Nat
    /\ Again \subseteq Exec /\ Delivered \subseteq Exec /\ Active \subseteq Exec /\ tosend \subseteq Exec
    /\ \A x \in Exec : x \in Nat /\ x # 0
    /\ LastRequest > LastRunning => Requests \in Exec
  BY InvParts
<1>1. LogStill
  BY Still DEF Answer, durable, memory
<1>2. UNCHANGED <<log, versions, dispatched, bills, cursor, stash, tosend, flag, place, past>>
  BY DEF Answer, durable, memory, Call, Fault
<1>3. turn.call \in {"handler"} /\ turn.at = "answer"
  BY DEF Answer, At
<1>4. PICK e \in Exec : e = turn.arg /\ rows[e].status = "running" /\ place[e] = "none" /\ e \in Active /\ e <= Requests /\ e \notin tosend
  BY <1>3 DEF Chains, Rows, Active, Live
<1>5. Rests
  BY Ends DEF Answer
<1>6. turn.prior = WorkStatus /\ WorkStatus \in {"completed", "failed"}
  BY <1>3 DEF Points
<1>7. RowDone(e, WorkStatus)
  <2>1. PICK answer \in {"completed", "failed", "cancelled"} : answer = turn.prior
    BY <1>6
  <2>2. Return(answer)
    BY <2>1 DEF Answer
  <2>3. RowDone(e, answer)
    BY <1>4, <2>2, ReturnFacts DEF Types
  <2> QED BY <1>6, <2>1, <2>3
<1>8. Stray' = Stray
  BY <1>2 DEF Stray
<1>9. Delivered' = Delivered /\ Active' \subseteq Active \ {e}
  BY <1>2, <1>4, <1>7 DEF RowDone, Delivered, Published, Current, Active, Live
<1>10. Clean' => Clean
  BY <1>1, <1>8, CleanKept DEF LogStill
<1>11. Marks' /\ Entries'
  BY <1>1 DEF LogStill
<1>12. Types'
  BY <1>1, <1>2, <1>3, <1>4, <1>5, <1>6, <1>7, <1>8, <1>9, <1>10 DEF Inv, LogStill, LogKept, Types, LogOK, Rests, RowDone
<1>13. Chains'
  BY <1>1, <1>2, <1>3, <1>4, <1>5, <1>6, <1>7, <1>8, <1>9, <1>10 DEF Inv, LogStill, Chains, Of, Rests, RowDone
<1>14. Points'
  BY <1>1, <1>2, <1>3, <1>4, <1>5, <1>6, <1>7, <1>8, <1>9, <1>10 DEF Inv, LogStill, LogKept, StatusKept, RequestKept, Points, IsRework, Rests, RowDone
<1>15. Budget'
  BY <1>1, <1>2, <1>3, <1>4, <1>5, <1>6, <1>7, <1>8, <1>9, <1>10 DEF Inv, LogStill, LogKept, RequestKept, Budget, Owes, Rests, RowDone
<1>16. Rows'
  BY <1>1, <1>2, <1>3, <1>4, <1>5, <1>6, <1>7, <1>8, <1>9, <1>10 DEF Inv, LogStill, LogKept, RequestKept, Rows, Rests, RowDone
<1>17. Boots'
  BY <1>1, <1>2, <1>3, <1>4, <1>5, <1>6, <1>7, <1>8, <1>9, <1>10 DEF Inv, LogStill, Boots, Rests, RowDone
<1>18. Fresh'
  BY <1>1, <1>2, <1>3, <1>4, <1>5, <1>6, <1>7, <1>8, <1>9, <1>10 DEF Inv, LogStill, LogKept, RequestKept, Fresh, Rests, RowDone
<1>19. Once'
  BY <1>1, <1>2, <1>3, <1>4, <1>5, <1>6, <1>7, <1>8, <1>9, <1>10 DEF Inv, LogStill, Once, Rests, RowDone
<1>20. Undo'
  BY <1>1, <1>2, <1>3, <1>4, <1>5, <1>6, <1>7, <1>8, <1>9, <1>10 DEF Inv, LogStill, LogKept, StatusKept, Undo, Reopened, HeldIn, Rests, RowDone
<1>21. BootEnds'
  BY <1>1, <1>2, <1>3, <1>4, <1>5, <1>6, <1>7, <1>8, <1>9, <1>10 DEF Inv, LogStill, LogKept, StatusKept, BootEnds, SomeCarried, Carried, Rests, RowDone
<1>22. Honest'
  BY <1>1, <1>2, <1>3, <1>4, <1>5, <1>6, <1>7, <1>8, <1>9, <1>10 DEF Inv, LogStill, LogKept, StatusKept, RunningKept, RequestKept, Honest, Quiet, Rests, RowDone
<1>23. Carry'
  BY <1>1, <1>2, <1>3, <1>4, <1>5, <1>6, <1>7, <1>8, <1>9, <1>10 DEF Inv, LogStill, LogKept, StatusKept, RunningKept, RequestKept, Carry, Carried, Rests, RowDone
<1>24. Reads'
  BY <1>1, <1>2, <1>3, <1>4, <1>5, <1>6, <1>7, <1>8, <1>9, <1>10 DEF Inv, LogStill, Reads, Rests, RowDone
<1> QED BY <1>11, <1>12, <1>13, <1>14, <1>15, <1>16, <1>17, <1>18, <1>19, <1>20, <1>21, <1>22, <1>23, <1>24 DEF Inv, Shape

LEMMA StepLoadProgress ==
    ASSUME Inv, LoadProgress PROVE Inv'
<1> /\ Types /\ Chains /\ Points /\ Budget /\ Rows /\ LogOK /\ turn \in TurnSet /\ past \in PastSet
    /\ Requests \in Nat /\ past.events \in Nat /\ past.faults \in Nat /\ MaxEvents \in Nat
    /\ Len(log) \in Nat /\ LastStatus \in Nat /\ LastRequest \in Nat /\ LastRunning \in Nat
    /\ Again \subseteq Exec /\ Delivered \subseteq Exec /\ Active \subseteq Exec /\ tosend \subseteq Exec
    /\ \A x \in Exec : x \in Nat /\ x # 0
    /\ LastRequest > LastRunning => Requests \in Exec
  BY InvParts
<1>1. LogStill
  BY Still DEF LoadProgress, durable, memory
<1>2. UNCHANGED <<log, versions, dispatched, bills, rows, cursor, stash, tosend, flag>>
  BY DEF LoadProgress, durable, memory, Call, Fault
<1>3. turn.call \in {"handler"} /\ turn.at = "load"
  BY DEF LoadProgress, At
<1>4. PICK e \in Exec : e = turn.arg /\ rows[e].status = "running" /\ place[e] = "none" /\ e \in Active /\ e <= Requests /\ e \notin tosend
  BY <1>3 DEF Chains, Rows, Active, Live
<1>5. \/ cursor = 0 /\ PlaceSet(e, "step") /\ Rests /\ past' = past
      \/ cursor # 0 /\ GoesTo("compile") /\ place' = place /\ past' = [past EXCEPT !.source[e] = cursor]
  <2>1. ASSUME cursor = 0 PROVE PlaceSet(e, "step") /\ Rests /\ past' = past
    <3>1. place' = [place EXCEPT ![e] = "step"]
      BY <2>1, <1>4 DEF LoadProgress
    <3> QED BY <2>1, <3>1, Ends DEF LoadProgress, PlaceSet, Types
  <2>2. ASSUME cursor # 0 PROVE GoesTo("compile") /\ place' = place /\ past' = [past EXCEPT !.source[e] = cursor]
    BY <2>2, <1>4, Named, Goes DEF LoadProgress
  <2> QED BY <2>1, <2>2
<1>6. /\ past' \in PastSet /\ past'.events = past.events /\ past'.faults = past.faults
      /\ past'.redone = past.redone /\ past'.unheard = past.unheard /\ past'.held = past.held
      /\ past'.source[e] = IF cursor = 0 THEN past.source[e] ELSE cursor
      /\ \A d \in Exec : d # e => past'.source[d] = past.source[d]
  <2>1. cursor \in Exec \union {0} /\ past.source \in [Exec -> Exec \union {0}]
    BY DEF Types, PastSet
  <2>2. CASE cursor = 0
    BY <2>2, <1>5
  <2>3. CASE cursor # 0
    BY <2>1, <2>3, <1>5 DEF PastSet
  <2> QED BY <2>2, <2>3
<1>7. Delivered' = Delivered /\ Active' = Active /\ Stray' = Stray
  BY <1>2, <1>6 DEF Delivered, Published, Current, Active, Live, Stray
<1>8. Clean' => Clean
  BY <1>1, <1>7, CleanKept DEF LogStill
<1>9. WorkStatus = "running" /\ Why \notin {"rework", "rerun"}
  BY <1>3 DEF Points, Inv, Marks
<1>10. Marks' /\ Entries'
  BY <1>1 DEF LogStill
<1>11. Types'
  BY <1>1, <1>2, <1>3, <1>4, <1>5, <1>6, <1>7, <1>8, <1>9 DEF Inv, LogStill, LogKept, Types, LogOK, GoesTo, Rests, PlaceSet
<1>12. Chains'
  BY <1>1, <1>2, <1>3, <1>4, <1>5, <1>6, <1>7, <1>8, <1>9 DEF Inv, LogStill, Chains, Of, GoesTo, Rests, PlaceSet
<1>13. Points'
  BY <1>1, <1>2, <1>3, <1>4, <1>5, <1>6, <1>7, <1>8, <1>9 DEF Inv, LogStill, LogKept, StatusKept, RequestKept, Points, IsRework, GoesTo, Rests, PlaceSet
<1>14. Budget'
  BY <1>1, <1>2, <1>3, <1>4, <1>5, <1>6, <1>7, <1>8, <1>9 DEF Inv, LogStill, LogKept, RequestKept, Budget, Owes, GoesTo, Rests, PlaceSet
<1>15. Rows'
  BY <1>1, <1>2, <1>3, <1>4, <1>5, <1>6, <1>7, <1>8, <1>9 DEF Inv, LogStill, LogKept, RequestKept, Rows, GoesTo, Rests, PlaceSet
<1>16. Boots'
  BY <1>1, <1>2, <1>3, <1>4, <1>5, <1>6, <1>7, <1>8, <1>9 DEF Inv, LogStill, Boots, GoesTo, Rests, PlaceSet
<1>17. Fresh'
  BY <1>1, <1>2, <1>3, <1>4, <1>5, <1>6, <1>7, <1>8, <1>9 DEF Inv, LogStill, LogKept, RequestKept, Fresh, GoesTo, Rests, PlaceSet
<1>18. Once'
  BY <1>1, <1>2, <1>3, <1>4, <1>5, <1>6, <1>7, <1>8, <1>9 DEF Inv, LogStill, Once, GoesTo, Rests, PlaceSet
<1>19. Undo'
  BY <1>1, <1>2, <1>3, <1>4, <1>5, <1>6, <1>7, <1>8, <1>9 DEF Inv, LogStill, LogKept, StatusKept, Undo, Reopened, HeldIn, GoesTo, Rests, PlaceSet
<1>20. BootEnds'
  BY <1>1, <1>2, <1>3, <1>4, <1>5, <1>6, <1>7, <1>8, <1>9 DEF Inv, LogStill, LogKept, StatusKept, BootEnds, SomeCarried, Carried, GoesTo, Rests, PlaceSet
<1>21. Honest'
  BY <1>1, <1>2, <1>3, <1>4, <1>5, <1>6, <1>7, <1>8, <1>9 DEF Inv, LogStill, LogKept, StatusKept, RunningKept, RequestKept, Honest, Quiet, GoesTo, Rests, PlaceSet
<1>22. Carry'
  BY <1>1, <1>2, <1>3, <1>4, <1>5, <1>6, <1>7, <1>8, <1>9 DEF Inv, LogStill, LogKept, StatusKept, RunningKept, RequestKept, Carry, Carried, GoesTo, Rests, PlaceSet
<1>23. Reads'
  BY <1>1, <1>2, <1>3, <1>4, <1>5, <1>6, <1>7, <1>8, <1>9 DEF Inv, LogStill, Reads, GoesTo, Rests, PlaceSet
<1> QED BY <1>10, <1>11, <1>12, <1>13, <1>14, <1>15, <1>16, <1>17, <1>18, <1>19, <1>20, <1>21, <1>22, <1>23 DEF Inv, Shape

LEMMA StepCompile ==
    ASSUME Inv, Compile PROVE Inv'
<1> /\ Types /\ Chains /\ Points /\ Budget /\ Rows /\ LogOK /\ turn \in TurnSet /\ past \in PastSet
    /\ Requests \in Nat /\ past.events \in Nat /\ past.faults \in Nat /\ MaxEvents \in Nat
    /\ Len(log) \in Nat /\ LastStatus \in Nat /\ LastRequest \in Nat /\ LastRunning \in Nat
    /\ Again \subseteq Exec /\ Delivered \subseteq Exec /\ Active \subseteq Exec /\ tosend \subseteq Exec
    /\ \A x \in Exec : x \in Nat /\ x # 0
    /\ LastRequest > LastRunning => Requests \in Exec
  BY InvParts
<1>1. LogStill
  BY Still DEF Compile, durable, memory
<1>2. UNCHANGED <<log, versions, dispatched, bills, rows, cursor, stash, tosend, flag, past>>
  BY DEF Compile, durable, memory, Call, Fault
<1>3. turn.call \in {"handler"} /\ turn.at = "compile"
  BY DEF Compile, At
<1>4. PICK e \in Exec : e = turn.arg /\ rows[e].status = "running" /\ place[e] = "none" /\ e \in Active /\ e <= Requests /\ e \notin tosend
  BY <1>3 DEF Chains, Rows, Active, Live
<1>5. \/ e \in Delivered /\ GoesTo("complete") /\ place' = place
      \/ e \notin Delivered /\ GoesTo("publish") /\ place' = place
      \/ GoesTo("fail") /\ place' = place
      \/ e \notin Delivered /\ bills[e] = 0 /\ PlaceSet(e, "model") /\ Rests
  <2>1. Published(e) <=> e \in Delivered
    BY DEF Delivered
  <2>2. ASSUME ~Paid(e), place' = [place EXCEPT ![e] = "model"] PROVE bills[e] = 0 /\ PlaceSet(e, "model")
    BY <2>2 DEF PlaceSet, Types, Paid
  <2>3. \/ Published(turn.arg) /\ Step("complete") /\ UNCHANGED place
        \/ ~Published(turn.arg) /\ Step("publish") /\ UNCHANGED place
        \/ ~Published(turn.arg) /\ Paid(turn.arg) /\ Step("fail") /\ UNCHANGED place
        \/ ~Published(turn.arg) /\ ~Paid(turn.arg) /\ place' = [place EXCEPT ![turn.arg] = "model"] /\ Done
    BY DEF Compile
  <2>4. /\ Published(turn.arg) <=> Published(e)
        /\ Paid(turn.arg) <=> Paid(e)
        /\ [place EXCEPT ![turn.arg] = "model"] = [place EXCEPT ![e] = "model"]
    BY <1>4 DEF Published, Paid
  <2>5. \/ Published(e) /\ Step("complete") /\ UNCHANGED place
        \/ ~Published(e) /\ Step("publish") /\ UNCHANGED place
        \/ ~Published(e) /\ Paid(e) /\ Step("fail") /\ UNCHANGED place
        \/ ~Published(e) /\ ~Paid(e) /\ place' = [place EXCEPT ![e] = "model"] /\ Done
    BY <2>3, <2>4
  <2> QED BY <2>1, <2>2, <2>5, Named, Goes, Ends
<1>6. Delivered' = Delivered /\ Active' = Active /\ Stray' = Stray
  BY <1>2 DEF Delivered, Published, Current, Active, Live, Stray
<1>7. Clean' => Clean
  BY <1>1, <1>6, CleanKept DEF LogStill
<1>8. Marks' /\ Entries'
  BY <1>1 DEF LogStill
<1>9. Types'
  BY <1>1, <1>2, <1>3, <1>4, <1>5, <1>6, <1>7 DEF Inv, LogStill, LogKept, Types, LogOK, GoesTo, Rests, PlaceSet
<1>10. Chains'
  BY <1>1, <1>2, <1>3, <1>4, <1>5, <1>6, <1>7 DEF Inv, LogStill, Chains, Of, GoesTo, Rests, PlaceSet
<1>11. Points'
  BY <1>1, <1>2, <1>3, <1>4, <1>5, <1>6, <1>7 DEF Inv, LogStill, LogKept, StatusKept, RequestKept, Points, IsRework, GoesTo, Rests, PlaceSet
<1>12. Budget'
  BY <1>1, <1>2, <1>3, <1>4, <1>5, <1>6, <1>7 DEF Inv, LogStill, LogKept, RequestKept, Budget, Owes, GoesTo, Rests, PlaceSet
<1>13. Rows'
  BY <1>1, <1>2, <1>3, <1>4, <1>5, <1>6, <1>7 DEF Inv, LogStill, LogKept, RequestKept, Rows, GoesTo, Rests, PlaceSet
<1>14. Boots'
  BY <1>1, <1>2, <1>3, <1>4, <1>5, <1>6, <1>7 DEF Inv, LogStill, Boots, GoesTo, Rests, PlaceSet
<1>15. Fresh'
  BY <1>1, <1>2, <1>3, <1>4, <1>5, <1>6, <1>7 DEF Inv, LogStill, LogKept, RequestKept, Fresh, GoesTo, Rests, PlaceSet
<1>16. Once'
  BY <1>1, <1>2, <1>3, <1>4, <1>5, <1>6, <1>7 DEF Inv, LogStill, Once, GoesTo, Rests, PlaceSet
<1>17. Undo'
  BY <1>1, <1>2, <1>3, <1>4, <1>5, <1>6, <1>7 DEF Inv, LogStill, LogKept, StatusKept, Undo, Reopened, HeldIn, GoesTo, Rests, PlaceSet
<1>18. BootEnds'
  BY <1>1, <1>2, <1>3, <1>4, <1>5, <1>6, <1>7 DEF Inv, LogStill, LogKept, StatusKept, BootEnds, SomeCarried, Carried, GoesTo, Rests, PlaceSet
<1>19. Honest'
  BY <1>1, <1>2, <1>3, <1>4, <1>5, <1>6, <1>7 DEF Inv, LogStill, LogKept, StatusKept, RunningKept, RequestKept, Honest, Quiet, GoesTo, Rests, PlaceSet
<1>20. Carry'
  BY <1>1, <1>2, <1>3, <1>4, <1>5, <1>6, <1>7 DEF Inv, LogStill, LogKept, StatusKept, RunningKept, RequestKept, Carry, Carried, GoesTo, Rests, PlaceSet
<1>21. Reads'
  BY <1>1, <1>2, <1>3, <1>4, <1>5, <1>6, <1>7 DEF Inv, LogStill, Reads, GoesTo, Rests, PlaceSet
<1> QED BY <1>8, <1>9, <1>10, <1>11, <1>12, <1>13, <1>14, <1>15, <1>16, <1>17, <1>18, <1>19, <1>20, <1>21 DEF Inv, Shape

LEMMA StepBill ==
    ASSUME Inv, Bill PROVE Inv'
<1> /\ Types /\ Chains /\ Points /\ Budget /\ Rows /\ LogOK /\ turn \in TurnSet /\ past \in PastSet
    /\ Requests \in Nat /\ past.events \in Nat /\ past.faults \in Nat /\ MaxEvents \in Nat
    /\ Len(log) \in Nat /\ LastStatus \in Nat /\ LastRequest \in Nat /\ LastRunning \in Nat
    /\ Again \subseteq Exec /\ Delivered \subseteq Exec /\ Active \subseteq Exec /\ tosend \subseteq Exec
    /\ \A x \in Exec : x \in Nat /\ x # 0
    /\ LastRequest > LastRunning => Requests \in Exec
  BY InvParts
<1>1. LogStill
  BY Still DEF Bill, durable, memory
<1>2. UNCHANGED <<log, versions, dispatched, rows, cursor, stash, tosend, flag, place, past>>
  BY DEF Bill, durable, memory, Call, Fault
<1>3. turn.call \in {"handler"} /\ turn.at = "bill"
  BY DEF Bill, At
<1>4. PICK e \in Exec : e = turn.arg /\ rows[e].status = "running" /\ place[e] = "none" /\ e \in Active /\ e <= Requests /\ e \notin tosend
  BY <1>3 DEF Chains, Rows, Active, Live
<1>5. GoesTo("publish") \/ GoesTo("fail")
  BY Named, Goes DEF Bill
<1>6. bills' \in [Exec -> Nat] /\ bills'[e] = 1 /\ \A d \in Exec : d # e => bills'[d] = bills[d]
  <2>1. bills[e] = 0
    BY <1>3, <1>4 DEF Inv, Once
  <2>2. bills' = [bills EXCEPT ![e] = @ + 1]
    BY <1>4 DEF Bill
  <2> QED BY <2>1, <2>2 DEF Types
<1>7. Delivered' = Delivered /\ Active' = Active /\ Stray' = Stray
  BY <1>2 DEF Delivered, Published, Current, Active, Live, Stray
<1>8. Clean' => Clean
  BY <1>1, <1>7, CleanKept DEF LogStill
<1>9. Marks' /\ Entries'
  BY <1>1 DEF LogStill
<1>10. Types'
  BY <1>1, <1>2, <1>3, <1>4, <1>5, <1>6, <1>7, <1>8 DEF Inv, LogStill, LogKept, Types, LogOK, GoesTo
<1>11. Chains'
  BY <1>1, <1>2, <1>3, <1>4, <1>5, <1>6, <1>7, <1>8 DEF Inv, LogStill, Chains, Of, GoesTo
<1>12. Points'
  BY <1>1, <1>2, <1>3, <1>4, <1>5, <1>6, <1>7, <1>8 DEF Inv, LogStill, LogKept, StatusKept, RequestKept, Points, IsRework, GoesTo
<1>13. Budget'
  BY <1>1, <1>2, <1>3, <1>4, <1>5, <1>6, <1>7, <1>8 DEF Inv, LogStill, LogKept, RequestKept, Budget, Owes, GoesTo
<1>14. Rows'
  BY <1>1, <1>2, <1>3, <1>4, <1>5, <1>6, <1>7, <1>8 DEF Inv, LogStill, LogKept, RequestKept, Rows, GoesTo
<1>15. Boots'
  BY <1>1, <1>2, <1>3, <1>4, <1>5, <1>6, <1>7, <1>8 DEF Inv, LogStill, Boots, GoesTo
<1>16. Fresh'
  BY <1>1, <1>2, <1>3, <1>4, <1>5, <1>6, <1>7, <1>8 DEF Inv, LogStill, LogKept, RequestKept, Fresh, GoesTo
<1>17. Once'
  <2>1. place' = place /\ versions' = versions /\ Delivered' = Delivered /\ bills[e] = 0 /\ e \notin Delivered
    BY <1>2, <1>3, <1>4, <1>7 DEF Inv, Once
  <2>2. \A d \in Exec : bills'[d] <= 1
    BY <1>6 DEF Inv, Once
  <2>3. \A d \in Exec : place'[d] = "model" => bills'[d] = 0 /\ d \notin Delivered'
    BY <2>1, <1>4, <1>6 DEF Inv, Once
  <2>4. turn'.at # "bill" /\ turn'.arg \notin Delivered'
    BY <2>1, <1>4, <1>5 DEF GoesTo
  <2>5. \A v, w \in 1..Len(versions') : versions'[v] = versions'[w] => v = w
    BY <2>1 DEF Inv, Once
  <2> QED BY <2>2, <2>3, <2>4, <2>5 DEF Once
<1>18. Undo'
  BY <1>1, <1>2, <1>3, <1>4, <1>5, <1>6, <1>7, <1>8 DEF Inv, LogStill, LogKept, StatusKept, Undo, Reopened, HeldIn, GoesTo
<1>19. BootEnds'
  BY <1>1, <1>2, <1>3, <1>4, <1>5, <1>6, <1>7, <1>8 DEF Inv, LogStill, LogKept, StatusKept, BootEnds, SomeCarried, Carried, GoesTo
<1>20. Honest'
  BY <1>1, <1>2, <1>3, <1>4, <1>5, <1>6, <1>7, <1>8 DEF Inv, LogStill, LogKept, StatusKept, RunningKept, RequestKept, Honest, Quiet, GoesTo
<1>21. Carry'
  BY <1>1, <1>2, <1>3, <1>4, <1>5, <1>6, <1>7, <1>8 DEF Inv, LogStill, LogKept, StatusKept, RunningKept, RequestKept, Carry, Carried, GoesTo
<1>22. Reads'
  BY <1>1, <1>2, <1>3, <1>4, <1>5, <1>6, <1>7, <1>8 DEF Inv, LogStill, Reads, GoesTo
<1> QED BY <1>9, <1>10, <1>11, <1>12, <1>13, <1>14, <1>15, <1>16, <1>17, <1>18, <1>19, <1>20, <1>21, <1>22 DEF Inv, Shape

LEMMA StepPublish ==
    ASSUME Inv, Publish PROVE Inv'
<1> /\ Types /\ Chains /\ Points /\ Budget /\ Rows /\ LogOK /\ turn \in TurnSet /\ past \in PastSet
    /\ Requests \in Nat /\ past.events \in Nat /\ past.faults \in Nat /\ MaxEvents \in Nat
    /\ Len(log) \in Nat /\ LastStatus \in Nat /\ LastRequest \in Nat /\ LastRunning \in Nat
    /\ Again \subseteq Exec /\ Delivered \subseteq Exec /\ Active \subseteq Exec /\ tosend \subseteq Exec
    /\ \A x \in Exec : x \in Nat /\ x # 0
    /\ LastRequest > LastRunning => Requests \in Exec
  BY InvParts
<1>1. LogStill
  BY Still DEF Publish, durable, memory
<1>2. UNCHANGED <<log, dispatched, bills, rows, cursor, stash, tosend, flag, place, past>>
  BY DEF Publish, durable, memory, Call, Fault
<1>3. turn.call \in {"handler"} /\ turn.at = "publish"
  BY DEF Publish, At
<1>4. PICK e \in Exec : e = turn.arg /\ rows[e].status = "running" /\ place[e] = "none" /\ e \in Active /\ e <= Requests /\ e \notin tosend
  BY <1>3 DEF Chains, Rows, Active, Live
<1>5. GoesTo("complete")
  BY Named, Goes DEF Publish
<1>6. /\ versions' \in Seq(Exec) /\ Len(versions) \in Nat /\ Len(versions') = Len(versions) + 1
      /\ versions'[Len(versions) + 1] = e
      /\ \A v \in 1..Len(versions) : versions'[v] = versions[v]
  BY <1>4 DEF Publish, Types
<1>7. Active' = Active /\ Stray' = Stray
  BY <1>2 DEF Active, Live, Stray
<1>8. Delivered' = Delivered \union {e} /\ e \notin Delivered
  <2>1. e \notin Delivered
    BY <1>3, <1>4 DEF Inv, Once
  <2>2. ASSUME NEW d \in Exec PROVE Published(d)' <=> Published(d) \/ d = e
    <3>1. Published(d)' <=> \E v \in 1..(Len(versions) + 1) : versions'[v] = d
      BY <1>6 DEF Published, Current
    <3>2. Published(d) <=> \E v \in 1..Len(versions) : versions[v] = d
      BY DEF Published, Current
    <3>3. \A v : v \in 1..(Len(versions) + 1) <=> v \in 1..Len(versions) \/ v = Len(versions) + 1
      BY <1>6
    <3> QED BY <1>6, <3>1, <3>2, <3>3
  <2> QED BY <2>1, <2>2 DEF Delivered
<1>9. Clean' => Clean
  BY <1>1, <1>7, CleanKept DEF LogStill
<1>10. Marks' /\ Entries'
  BY <1>1 DEF LogStill
<1>11. Types'
  BY <1>1, <1>2, <1>3, <1>4, <1>5, <1>6, <1>7, <1>8, <1>9 DEF Inv, LogStill, LogKept, Types, LogOK, GoesTo
<1>12. Chains'
  BY <1>1, <1>2, <1>3, <1>4, <1>5, <1>6, <1>7, <1>8, <1>9 DEF Inv, LogStill, Chains, Of, GoesTo
<1>13. Points'
  BY <1>1, <1>2, <1>3, <1>4, <1>5, <1>6, <1>7, <1>8, <1>9 DEF Inv, LogStill, LogKept, StatusKept, RequestKept, Points, IsRework, GoesTo
<1>14. Budget'
  BY <1>1, <1>2, <1>3, <1>4, <1>5, <1>6, <1>7, <1>8, <1>9 DEF Inv, LogStill, LogKept, RequestKept, Budget, Owes, GoesTo
<1>15. Rows'
  BY <1>1, <1>2, <1>3, <1>4, <1>5, <1>6, <1>7, <1>8, <1>9 DEF Inv, LogStill, LogKept, RequestKept, Rows, GoesTo
<1>16. Boots'
  BY <1>1, <1>2, <1>3, <1>4, <1>5, <1>6, <1>7, <1>8, <1>9 DEF Inv, LogStill, Boots, GoesTo
<1>17. Fresh'
  BY <1>1, <1>2, <1>3, <1>4, <1>5, <1>6, <1>7, <1>8, <1>9 DEF Inv, LogStill, LogKept, RequestKept, Fresh, GoesTo
<1>18. Once'
  <2>1. place' = place /\ bills' = bills
    BY <1>2
  <2>2. \A d \in Exec : bills'[d] <= 1
    BY <2>1 DEF Inv, Once
  <2>3. \A d \in Exec : place'[d] = "model" => bills'[d] = 0 /\ d \notin Delivered'
    BY <2>1, <1>4, <1>8 DEF Inv, Once
  <2>4. turn'.at \notin {"bill", "publish"}
    BY <1>5 DEF GoesTo
  <2>5. \A v, w \in 1..Len(versions') : versions'[v] = versions'[w] => v = w
    <3>1. \A v \in 1..Len(versions) : versions[v] # e
      BY <1>4, <1>8 DEF Delivered, Published, Current
    <3>2. \A v \in 1..Len(versions') : v \in 1..Len(versions) \/ v = Len(versions) + 1
      BY <1>6
    <3>3. \A v, w \in 1..Len(versions) : versions[v] = versions[w] => v = w
      BY DEF Inv, Once
    <3> QED BY <3>1, <3>2, <3>3, <1>6
  <2> QED BY <2>2, <2>3, <2>4, <2>5 DEF Once
<1>19. Undo'
  BY <1>1, <1>2, <1>3, <1>4, <1>5, <1>6, <1>7, <1>8, <1>9 DEF Inv, LogStill, LogKept, StatusKept, Undo, Reopened, HeldIn, GoesTo
<1>20. BootEnds'
  BY <1>1, <1>2, <1>3, <1>4, <1>5, <1>6, <1>7, <1>8, <1>9 DEF Inv, LogStill, LogKept, StatusKept, BootEnds, SomeCarried, Carried, GoesTo
<1>21. Honest'
  BY <1>1, <1>2, <1>3, <1>4, <1>5, <1>6, <1>7, <1>8, <1>9 DEF Inv, LogStill, LogKept, StatusKept, RunningKept, RequestKept, Honest, Quiet, GoesTo
<1>22. Carry'
  BY <1>1, <1>2, <1>3, <1>4, <1>5, <1>6, <1>7, <1>8, <1>9 DEF Inv, LogStill, LogKept, StatusKept, RunningKept, RequestKept, Carry, Carried, GoesTo
<1>23. Reads'
  BY <1>1, <1>2, <1>3, <1>4, <1>5, <1>6, <1>7, <1>8, <1>9 DEF Inv, LogStill, Reads, GoesTo
<1> QED BY <1>10, <1>11, <1>12, <1>13, <1>14, <1>15, <1>16, <1>17, <1>18, <1>19, <1>20, <1>21, <1>22, <1>23 DEF Inv, Shape

LEMMA StepBootRows ==
    ASSUME Inv, BootRows PROVE Inv'
<1> /\ Types /\ Chains /\ Points /\ Budget /\ Rows /\ LogOK /\ turn \in TurnSet /\ past \in PastSet
    /\ Requests \in Nat /\ past.events \in Nat /\ past.faults \in Nat /\ MaxEvents \in Nat
    /\ Len(log) \in Nat /\ LastStatus \in Nat /\ LastRequest \in Nat /\ LastRunning \in Nat
    /\ Again \subseteq Exec /\ Delivered \subseteq Exec /\ Active \subseteq Exec /\ tosend \subseteq Exec
    /\ \A x \in Exec : x \in Nat /\ x # 0
    /\ LastRequest > LastRunning => Requests \in Exec
  BY InvParts
<1>1. LogStill
  BY Still DEF BootRows, durable, memory
<1>2. UNCHANGED <<log, versions, dispatched, bills, cursor, stash, tosend, flag, place, past>>
  BY DEF BootRows, durable, memory, Call, Fault
<1>3. turn.call \in {"boot"} /\ turn.at = "rows"
  BY DEF BootRows, At
<1>4. GoesTo("work")
  BY Named, Goes DEF BootRows
<1>5. \A d \in Exec :
                     /\ rows'[d] \in Row /\ rows'[d].answer = rows[d].answer /\ rows'[d].status # "running"
                     /\ rows'[d].status = "queued" => rows[d].status \in {"queued", "running"}
                     /\ rows[d].status = "queued" => rows'[d].status = "queued"
                     /\ rows'[d].status = "completed" <=> rows[d].status = "completed"
                     /\ rows'[d].status = "none" <=> rows[d].status = "none"
  <2>1. SUFFICES ASSUME NEW d \in Exec
                 PROVE  /\ rows'[d] \in Row /\ rows'[d].answer = rows[d].answer /\ rows'[d].status # "running"
                        /\ rows'[d].status = "queued" => rows[d].status \in {"queued", "running"}
                        /\ rows[d].status = "queued" => rows'[d].status = "queued"
                        /\ rows'[d].status = "completed" <=> rows[d].status = "completed"
                        /\ rows'[d].status = "none" <=> rows[d].status = "none"
    OBVIOUS
  <2>2. rows[d] \in Row /\ MaxRetries \in Nat
    BY BriefDeliveryAssumption DEF Types
  <2>3. rows'[d] = IF ~Interrupted(d) THEN rows[d]
                   ELSE IF CanRetry(d)
                        THEN [rows[d] EXCEPT !.status = "queued", !.tries = @ + 1]
                        ELSE [rows[d] EXCEPT !.status = "failed"]
    BY DEF BootRows
  <2>4. CASE ~Interrupted(d)
    BY <2>2, <2>3, <2>4 DEF Interrupted
  <2>5. CASE Interrupted(d) /\ CanRetry(d)
    <3>1. rows'[d] = [status |-> "queued", tries |-> rows[d].tries + 1, answer |-> rows[d].answer]
      BY <2>2, <2>3, <2>5 DEF Row
    <3>2. rows[d].tries + 1 \in 0..MaxRetries
      BY <2>2, <2>5 DEF Row, CanRetry
    <3>3. rows'[d] \in Row
      BY <2>2, <3>1, <3>2 DEF Row
    <3> QED BY <2>5, <3>1, <3>3 DEF Interrupted
  <2>6. CASE Interrupted(d) /\ ~CanRetry(d)
    <3>1. rows'[d] = [rows[d] EXCEPT !.status = "failed"]
      BY <2>3, <2>6
    <3> QED BY <2>2, <2>6, <3>1 DEF Row, Interrupted
  <2> QED BY <2>4, <2>5, <2>6
<1>6. rows' = [d \in Exec |-> rows'[d]]
  BY DEF BootRows
<1>7. Stray' = Stray
  BY <1>2 DEF Stray
<1>8. Delivered' = Delivered /\ Active' \subseteq Active
  BY <1>2, <1>5 DEF Delivered, Published, Current, Active, Live
<1>9. Clean' => Clean
  BY <1>1, <1>7, CleanKept DEF LogStill
<1>10. Marks' /\ Entries'
  BY <1>1 DEF LogStill
<1>11. Types'
  BY <1>1, <1>2, <1>3, <1>4, <1>5, <1>6, <1>7, <1>8, <1>9 DEF Inv, LogStill, LogKept, Types, LogOK, GoesTo
<1>12. Chains'
  BY <1>1, <1>2, <1>3, <1>4, <1>5, <1>6, <1>7, <1>8, <1>9 DEF Inv, LogStill, Chains, Of, GoesTo
<1>13. Points'
  BY <1>1, <1>2, <1>3, <1>4, <1>5, <1>6, <1>7, <1>8, <1>9 DEF Inv, LogStill, LogKept, StatusKept, RequestKept, Points, IsRework, GoesTo
<1>14. Budget'
  BY <1>1, <1>2, <1>3, <1>4, <1>5, <1>6, <1>7, <1>8, <1>9 DEF Inv, LogStill, LogKept, RequestKept, Budget, Owes, GoesTo
<1>15. Rows'
  <2>1. Requests' = Requests /\ tosend' = tosend /\ place' = place
    BY <1>1, <1>2 DEF LogStill, LogKept, RequestKept
  <2>2. turn'.call = "boot" /\ turn'.at = "work"
    BY <1>3, <1>4 DEF GoesTo
  <2>3. \A d \in Exec : place'[d] = "none" /\ rows'[d].status # "running"
    BY <2>1, <1>3, <1>5 DEF Inv, Boots
  <2>4. \A d \in Exec : rows'[d].status = "completed" => rows'[d].answer # "none"
    BY <1>5 DEF Rows
  <2>5. \A d \in Exec : rows'[d].status # "none" \/ d \in tosend' => d <= Requests'
    BY <2>1, <1>5 DEF Rows
  <2>6. \A d \in tosend' : rows'[d].status = "none"
    BY <2>1, <1>5 DEF Rows
  <2> QED BY <2>2, <2>3, <2>4, <2>5, <2>6 DEF Rows
<1>16. Boots'
  BY <1>1, <1>2, <1>3, <1>4, <1>5, <1>6, <1>7, <1>8, <1>9 DEF Inv, LogStill, Boots, GoesTo
<1>17. Fresh'
  BY <1>1, <1>2, <1>3, <1>4, <1>5, <1>6, <1>7, <1>8, <1>9 DEF Inv, LogStill, LogKept, RequestKept, Fresh, GoesTo
<1>18. Once'
  BY <1>1, <1>2, <1>3, <1>4, <1>5, <1>6, <1>7, <1>8, <1>9 DEF Inv, LogStill, Once, GoesTo
<1>19. Undo'
  BY <1>1, <1>2, <1>3, <1>4, <1>5, <1>6, <1>7, <1>8, <1>9 DEF Inv, LogStill, LogKept, StatusKept, Undo, Reopened, HeldIn, GoesTo
<1>20. BootEnds'
  BY <1>1, <1>2, <1>3, <1>4, <1>5, <1>6, <1>7, <1>8, <1>9 DEF Inv, LogStill, LogKept, StatusKept, BootEnds, SomeCarried, Carried, GoesTo
<1>21. Honest'
  BY <1>1, <1>2, <1>3, <1>4, <1>5, <1>6, <1>7, <1>8, <1>9 DEF Inv, LogStill, LogKept, StatusKept, RunningKept, RequestKept, Honest, Quiet, GoesTo
<1>22. Carry'
  BY <1>1, <1>2, <1>3, <1>4, <1>5, <1>6, <1>7, <1>8, <1>9 DEF Inv, LogStill, LogKept, StatusKept, RunningKept, RequestKept, Carry, Carried, GoesTo
<1>23. Reads'
  BY <1>1, <1>2, <1>3, <1>4, <1>5, <1>6, <1>7, <1>8, <1>9 DEF Inv, LogStill, Reads, GoesTo
<1> QED BY <1>10, <1>11, <1>12, <1>13, <1>14, <1>15, <1>16, <1>17, <1>18, <1>19, <1>20, <1>21, <1>22, <1>23 DEF Inv, Shape

LEMMA StepBootRelease ==
    ASSUME Inv, BootRelease PROVE Inv'
<1> /\ Types /\ Chains /\ Points /\ Budget /\ Rows /\ LogOK /\ turn \in TurnSet /\ past \in PastSet
    /\ Requests \in Nat /\ past.events \in Nat /\ past.faults \in Nat /\ MaxEvents \in Nat
    /\ Len(log) \in Nat /\ LastStatus \in Nat /\ LastRequest \in Nat /\ LastRunning \in Nat
    /\ Again \subseteq Exec /\ Delivered \subseteq Exec /\ Active \subseteq Exec /\ tosend \subseteq Exec
    /\ \A x \in Exec : x \in Nat /\ x # 0
    /\ LastRequest > LastRunning => Requests \in Exec
  BY InvParts
<1>1. LogStill
  BY Still DEF BootRelease, durable, memory
<1>2. UNCHANGED <<log, versions, dispatched, bills, rows, cursor, tosend, flag, place, past>>
  BY DEF BootRelease, durable, memory, Call, Fault
<1>3. turn.call \in {"boot"} /\ turn.at = "release"
  BY DEF BootRelease, At
<1>4. Rests
  BY Ends DEF BootRelease
<1>5. /\ stash' \in Exec \union {0}
      /\ stash' # 0 => Reopened
  BY Views DEF BootRelease, Types, HalfOpenBy, Reopened
<1>6. Delivered' = Delivered /\ Active' = Active /\ Stray' = Stray
  BY <1>2 DEF Delivered, Published, Current, Active, Live, Stray
<1>7. Clean' => Clean
  BY <1>1, <1>6, CleanKept DEF LogStill
<1>8. Marks' /\ Entries'
  BY <1>1 DEF LogStill
<1>9. Types'
  BY <1>1, <1>2, <1>3, <1>4, <1>5, <1>6, <1>7 DEF Inv, LogStill, LogKept, Types, LogOK, Rests
<1>10. Chains'
  BY <1>1, <1>2, <1>3, <1>4, <1>5, <1>6, <1>7 DEF Inv, LogStill, Chains, Of, Rests
<1>11. Points'
  BY <1>1, <1>2, <1>3, <1>4, <1>5, <1>6, <1>7 DEF Inv, LogStill, LogKept, StatusKept, RequestKept, Points, IsRework, Rests
<1>12. Budget'
  BY <1>1, <1>2, <1>3, <1>4, <1>5, <1>6, <1>7 DEF Inv, LogStill, LogKept, RequestKept, Budget, Owes, Rests
<1>13. Rows'
  BY <1>1, <1>2, <1>3, <1>4, <1>5, <1>6, <1>7 DEF Inv, LogStill, LogKept, RequestKept, Rows, Rests
<1>14. Boots'
  BY <1>1, <1>2, <1>3, <1>4, <1>5, <1>6, <1>7 DEF Inv, LogStill, Boots, Rests
<1>15. Fresh'
  BY <1>1, <1>2, <1>3, <1>4, <1>5, <1>6, <1>7 DEF Inv, LogStill, LogKept, RequestKept, Fresh, Rests
<1>16. Once'
  BY <1>1, <1>2, <1>3, <1>4, <1>5, <1>6, <1>7 DEF Inv, LogStill, Once, Rests
<1>17. Undo'
  BY <1>1, <1>2, <1>3, <1>4, <1>5, <1>6, <1>7 DEF Inv, LogStill, LogKept, StatusKept, Undo, Reopened, HeldIn, Rests
<1>18. BootEnds'
  BY <1>1, <1>2, <1>3, <1>4, <1>5, <1>6, <1>7 DEF Inv, LogStill, LogKept, StatusKept, BootEnds, SomeCarried, Carried, Rests
<1>19. Honest'
  BY <1>1, <1>2, <1>3, <1>4, <1>5, <1>6, <1>7 DEF Inv, LogStill, LogKept, StatusKept, RunningKept, RequestKept, Honest, Quiet, Rests
<1>20. Carry'
  BY <1>1, <1>2, <1>3, <1>4, <1>5, <1>6, <1>7 DEF Inv, LogStill, LogKept, StatusKept, RunningKept, RequestKept, Carry, Carried, Rests
<1>21. Reads'
  BY <1>1, <1>2, <1>3, <1>4, <1>5, <1>6, <1>7 DEF Inv, LogStill, Reads, Rests
<1> QED BY <1>8, <1>9, <1>10, <1>11, <1>12, <1>13, <1>14, <1>15, <1>16, <1>17, <1>18, <1>19, <1>20, <1>21 DEF Inv, Shape

LEMMA StepBootWork ==
    ASSUME Inv, BootWork PROVE Inv'
<1> /\ Types /\ Chains /\ Points /\ Budget /\ Rows /\ LogOK /\ turn \in TurnSet /\ past \in PastSet
    /\ Requests \in Nat /\ past.events \in Nat /\ past.faults \in Nat /\ MaxEvents \in Nat
    /\ Len(log) \in Nat /\ LastStatus \in Nat /\ LastRequest \in Nat /\ LastRunning \in Nat
    /\ Again \subseteq Exec /\ Delivered \subseteq Exec /\ Active \subseteq Exec /\ tosend \subseteq Exec
    /\ \A x \in Exec : x \in Nat /\ x # 0
    /\ LastRequest > LastRunning => Requests \in Exec
  BY InvParts
<1>1. LogStill
  BY Still DEF BootWork, durable, memory
<1>2. UNCHANGED <<log, versions, dispatched, bills, rows, cursor, stash, tosend, flag, place, past>>
  BY DEF BootWork, durable, memory, Call, Fault
<1>3. turn.call \in {"boot"} /\ turn.at = "work"
  BY DEF BootWork, At
<1>4. \/ WorkStatus = "running" /\ GoesTo("request") /\ (CurrentRequest # 0 => rows[CurrentRequest].status = "none")
      \/ /\ WorkStatus = "running" /\ GoesTo("release")
         /\ CurrentRequest # 0 /\ rows[CurrentRequest].status \in {"queued", "running"}
      \/ /\ WorkStatus = "running" /\ GoesTo("sync")
         /\ CurrentRequest # 0 /\ rows[CurrentRequest].status \in {"completed", "failed"}
      \/ WorkStatus # "running" /\ Halfway /\ GoesTo("restore")
      \/ WorkStatus # "running" /\ ~Halfway /\ GoesTo("release")
  <2>1. NoRow.status = "none"
    BY DEF NoRow
  <2> QED BY <2>1, Named, Goes DEF BootWork
<1>5. Delivered' = Delivered /\ Active' = Active /\ Stray' = Stray
  BY <1>2 DEF Delivered, Published, Current, Active, Live, Stray
<1>6. Clean' => Clean
  BY <1>1, <1>5, CleanKept DEF LogStill
<1>7. /\ CurrentRequest # 0 => CurrentRequest \in Exec /\ CurrentRequest = Requests
      /\ \A e \in Exec : place[e] = "none" /\ rows[e].status # "running"
      /\ tosend = {} /\ ~flag
  BY <1>3, CurrentRequestFacts DEF Inv, Boots, Rows
<1>8. Clean => \A e \in Active \ Stray : WorkStatus = "running" /\ CurrentRequest = e /\ rows[e].status = "queued"
  BY <1>3, <1>7, ActiveFacts DEF Active, Live
<1>9. Clean /\ turn'.at # "release" => Active \subseteq Stray
  BY <1>4, <1>8, ExecFacts DEF GoesTo
<1>10. WorkStatus = "running" /\ turn'.at = "release" => SomeCarried
  BY <1>4, <1>7 DEF GoesTo, SomeCarried, Carried
<1>11. Clean /\ WorkStatus = "running" /\ turn'.at = "release" => LastRequest > LastRunning /\ Carried(Requests)
  <2>1. Clean /\ LastRunning # 0 => StampedBy = 0
    BY DEF Inv, Honest
  <2>2. CurrentRequest # 0 /\ Clean => LastRequest > LastRunning
    BY <2>1, <1>7, Views DEF CurrentRequestBy
  <2> QED BY <2>2, <1>4, <1>7 DEF GoesTo, Carried
<1>12. /\ turn'.at = "restore" => HalfOpen("rerun") \/ Prior # "none"
       /\ Reopened => turn'.at = "restore"
  <2>1. Halfway <=> HalfOpen("rerun") \/ Prior # "none"
    BY DEF Halfway
  <2>2. Reopened => Halfway /\ WorkStatus # "running"
    <3>1. SUFFICES ASSUME Reopened PROVE Halfway
      BY DEF Reopened
    <3>2. WorkStatus = "pending" /\ Why \in {"rework", "rerun"} /\ ~(LastRequest > LastStatus)
          /\ Before # 0 /\ BeforeWhat \in {"completed", "failed"}
      BY <3>1 DEF Reopened, Inv, Marks
    <3> QED BY <2>1, <3>2, Views DEF HalfOpenBy, PriorBy
  <2> QED BY <2>1, <2>2, <1>4 DEF GoesTo
<1>13. Marks' /\ Entries'
  BY <1>1 DEF LogStill
<1>14. Types'
  BY <1>1, <1>2, <1>3, <1>4, <1>5, <1>6, <1>7, <1>8, <1>9, <1>10, <1>11, <1>12 DEF Inv, LogStill, LogKept, Types, LogOK, GoesTo
<1>15. Chains'
  BY <1>1, <1>2, <1>3, <1>4, <1>5, <1>6, <1>7, <1>8, <1>9, <1>10, <1>11, <1>12 DEF Inv, LogStill, Chains, Of, GoesTo
<1>16. Points'
  BY <1>1, <1>2, <1>3, <1>4, <1>5, <1>6, <1>7, <1>8, <1>9, <1>10, <1>11, <1>12 DEF Inv, LogStill, LogKept, StatusKept, RequestKept, Points, IsRework, GoesTo
<1>17. Budget'
  BY <1>1, <1>2, <1>3, <1>4, <1>5, <1>6, <1>7, <1>8, <1>9, <1>10, <1>11, <1>12 DEF Inv, LogStill, LogKept, RequestKept, Budget, Owes, GoesTo
<1>18. Rows'
  BY <1>1, <1>2, <1>3, <1>4, <1>5, <1>6, <1>7, <1>8, <1>9, <1>10, <1>11, <1>12 DEF Inv, LogStill, LogKept, RequestKept, Rows, GoesTo
<1>19. Boots'
  BY <1>1, <1>2, <1>3, <1>4, <1>5, <1>6, <1>7, <1>8, <1>9, <1>10, <1>11, <1>12 DEF Inv, LogStill, Boots, GoesTo
<1>20. Fresh'
  BY <1>1, <1>2, <1>3, <1>4, <1>5, <1>6, <1>7, <1>8, <1>9, <1>10, <1>11, <1>12 DEF Inv, LogStill, LogKept, RequestKept, Fresh, GoesTo
<1>21. Once'
  BY <1>1, <1>2, <1>3, <1>4, <1>5, <1>6, <1>7, <1>8, <1>9, <1>10, <1>11, <1>12 DEF Inv, LogStill, Once, GoesTo
<1>22. Undo'
  BY <1>1, <1>2, <1>3, <1>4, <1>5, <1>6, <1>7, <1>8, <1>9, <1>10, <1>11, <1>12 DEF Inv, LogStill, LogKept, StatusKept, Undo, Reopened, HeldIn, GoesTo
<1>23. BootEnds'
  BY <1>1, <1>2, <1>3, <1>4, <1>5, <1>6, <1>7, <1>8, <1>9, <1>10, <1>11, <1>12 DEF Inv, LogStill, LogKept, StatusKept, BootEnds, SomeCarried, Carried, GoesTo
<1>24. Honest'
  BY <1>1, <1>2, <1>3, <1>4, <1>5, <1>6, <1>7, <1>8, <1>9, <1>10, <1>11, <1>12 DEF Inv, LogStill, LogKept, StatusKept, RunningKept, RequestKept, Honest, Quiet, GoesTo
<1>25. Carry'
  BY <1>1, <1>2, <1>3, <1>4, <1>5, <1>6, <1>7, <1>8, <1>9, <1>10, <1>11, <1>12 DEF Inv, LogStill, LogKept, StatusKept, RunningKept, RequestKept, Carry, Carried, GoesTo
<1>26. Reads'
  BY <1>1, <1>2, <1>3, <1>4, <1>5, <1>6, <1>7, <1>8, <1>9, <1>10, <1>11, <1>12 DEF Inv, LogStill, Reads, GoesTo
<1> QED BY <1>13, <1>14, <1>15, <1>16, <1>17, <1>18, <1>19, <1>20, <1>21, <1>22, <1>23, <1>24, <1>25, <1>26 DEF Inv, Shape

LEMMA StepCallFails ==
    ASSUME Inv, CallFails PROVE Inv'
<1> /\ Types /\ Chains /\ Points /\ Budget /\ Rows /\ LogOK /\ turn \in TurnSet /\ past \in PastSet
    /\ Requests \in Nat /\ past.events \in Nat /\ past.faults \in Nat /\ MaxEvents \in Nat
    /\ Len(log) \in Nat /\ LastStatus \in Nat /\ LastRequest \in Nat /\ LastRunning \in Nat
    /\ Again \subseteq Exec /\ Delivered \subseteq Exec /\ Active \subseteq Exec /\ tosend \subseteq Exec
    /\ \A x \in Exec : x \in Nat /\ x # 0
    /\ LastRequest > LastRunning => Requests \in Exec
  BY InvParts
<1>1. LogStill
  BY Still DEF CallFails, durable, memory
<1>2. UNCHANGED <<log, versions, dispatched, bills, rows, cursor, stash, tosend, flag, place>>
  BY DEF CallFails, durable, memory, Call, Fault
<1>3. turn.call \in {"execute", "rework", "rerun", "cancel"} /\ turn.at # "settle"
  BY DEF CallFails
<1>4. past.events < MaxEvents /\ PastCounts(past.events + 1, past.faults + 1) /\ Stray' = Stray
  BY FaultFacts DEF CallFails
<1>5. \/ turn.call = "rerun" /\ turn.at \in {"take", "running", "request"} /\ GoesTo("undo")
      \/ turn.call = "rework" /\ turn.at = "running" /\ turn.prior # "none" /\ GoesTo("restore")
      \/ Rests
  BY Named, Goes, Ends DEF CallFails
<1>6. Delivered' = Delivered /\ Active' = Active
  BY <1>2 DEF Delivered, Published, Current, Active, Live
<1>7. Clean' => Clean
  BY <1>1, <1>4, CleanKept DEF LogStill
<1>8. turn'.at \in {"undo", "restore"} /\ Clean => Active \subseteq Stray
  BY <1>5, IdleFacts DEF Rests, Inv, Honest, Quiet
<1>9. Marks' /\ Entries'
  BY <1>1 DEF LogStill
<1>10. Types'
  BY <1>1, <1>2, <1>3, <1>4, <1>5, <1>6, <1>7, <1>8 DEF Inv, LogStill, LogKept, Types, LogOK, PastCounts, GoesTo, Rests
<1>11. Chains'
  BY <1>1, <1>2, <1>3, <1>4, <1>5, <1>6, <1>7, <1>8 DEF Inv, LogStill, Chains, Of, PastCounts, GoesTo, Rests
<1>12. Points'
  BY <1>1, <1>2, <1>3, <1>4, <1>5, <1>6, <1>7, <1>8 DEF Inv, LogStill, LogKept, StatusKept, RequestKept, Points, IsRework, PastCounts, GoesTo, Rests
<1>13. Budget'
  BY <1>1, <1>2, <1>3, <1>4, <1>5, <1>6, <1>7, <1>8 DEF Inv, LogStill, LogKept, RequestKept, Budget, Owes, PastCounts, GoesTo, Rests
<1>14. Rows'
  <2>1. turn.call # "handler" /\ turn.at # "rows"
    BY <1>3 DEF Chains, Of
  <2> QED BY <1>1, <1>2, <1>5, <2>1 DEF LogStill, LogKept, RequestKept, Rows, GoesTo, Rests
<1>15. Boots'
  BY <1>1, <1>2, <1>3, <1>4, <1>5, <1>6, <1>7, <1>8 DEF Inv, LogStill, Boots, PastCounts, GoesTo, Rests
<1>16. Fresh'
  BY <1>1, <1>2, <1>3, <1>4, <1>5, <1>6, <1>7, <1>8 DEF Inv, LogStill, LogKept, RequestKept, Fresh, PastCounts, GoesTo, Rests
<1>17. Once'
  BY <1>1, <1>2, <1>3, <1>4, <1>5, <1>6, <1>7, <1>8 DEF Inv, LogStill, Once, PastCounts, GoesTo, Rests
<1>18. Undo'
  BY <1>1, <1>2, <1>3, <1>4, <1>5, <1>6, <1>7, <1>8 DEF Inv, LogStill, LogKept, StatusKept, Undo, Reopened, HeldIn, PastCounts, GoesTo, Rests
<1>19. BootEnds'
  BY <1>1, <1>2, <1>3, <1>4, <1>5, <1>6, <1>7, <1>8 DEF Inv, LogStill, LogKept, StatusKept, BootEnds, SomeCarried, Carried, PastCounts, GoesTo, Rests
<1>20. Honest'
  BY <1>1, <1>2, <1>3, <1>4, <1>5, <1>6, <1>7, <1>8 DEF Inv, LogStill, LogKept, StatusKept, RunningKept, RequestKept, Honest, Quiet, PastCounts, GoesTo, Rests
<1>21. Carry'
  BY <1>1, <1>2, <1>3, <1>4, <1>5, <1>6, <1>7, <1>8 DEF Inv, LogStill, LogKept, StatusKept, RunningKept, RequestKept, Carry, Carried, PastCounts, GoesTo, Rests
<1>22. Reads'
  BY <1>1, <1>2, <1>3, <1>4, <1>5, <1>6, <1>7, <1>8 DEF Inv, LogStill, Reads, PastCounts, GoesTo, Rests
<1> QED BY <1>9, <1>10, <1>11, <1>12, <1>13, <1>14, <1>15, <1>16, <1>17, <1>18, <1>19, <1>20, <1>21, <1>22 DEF Inv, Shape

LEMMA StepBootFails ==
    ASSUME Inv, BootFails PROVE Inv'
<1> /\ Types /\ Chains /\ Points /\ Budget /\ Rows /\ LogOK /\ turn \in TurnSet /\ past \in PastSet
    /\ Requests \in Nat /\ past.events \in Nat /\ past.faults \in Nat /\ MaxEvents \in Nat
    /\ Len(log) \in Nat /\ LastStatus \in Nat /\ LastRequest \in Nat /\ LastRunning \in Nat
    /\ Again \subseteq Exec /\ Delivered \subseteq Exec /\ Active \subseteq Exec /\ tosend \subseteq Exec
    /\ \A x \in Exec : x \in Nat /\ x # 0
    /\ LastRequest > LastRunning => Requests \in Exec
  BY InvParts
<1>1. LogStill
  BY Still DEF BootFails, durable, memory
<1>2. UNCHANGED <<log, versions, dispatched, bills, rows, cursor, stash, tosend, flag, place>>
  BY DEF BootFails, durable, memory, Call, Fault
<1>3. turn.call = "boot" /\ turn.at \notin {"rows", "work"}
  BY DEF BootFails
<1>4. past.events < MaxEvents /\ PastCounts(past.events + 1, past.faults + 1) /\ Stray' = Stray
  BY FaultFacts DEF BootFails
<1>5. GoesTo("release") \/ Rests
  BY Named, Goes, Ends DEF BootFails
<1>6. Delivered' = Delivered /\ Active' = Active
  BY <1>2 DEF Delivered, Published, Current, Active, Live
<1>7. Clean' => Clean
  BY <1>1, <1>4, CleanKept DEF LogStill
<1>8. Marks' /\ Entries'
  BY <1>1 DEF LogStill
<1>9. Types'
  BY <1>1, <1>2, <1>3, <1>4, <1>5, <1>6, <1>7 DEF Inv, LogStill, LogKept, Types, LogOK, PastCounts, GoesTo, Rests
<1>10. Chains'
  BY <1>1, <1>2, <1>3, <1>4, <1>5, <1>6, <1>7 DEF Inv, LogStill, Chains, Of, PastCounts, GoesTo, Rests
<1>11. Points'
  BY <1>1, <1>2, <1>3, <1>4, <1>5, <1>6, <1>7 DEF Inv, LogStill, LogKept, StatusKept, RequestKept, Points, IsRework, PastCounts, GoesTo, Rests
<1>12. Budget'
  BY <1>1, <1>2, <1>3, <1>4, <1>5, <1>6, <1>7 DEF Inv, LogStill, LogKept, RequestKept, Budget, Owes, PastCounts, GoesTo, Rests
<1>13. Rows'
  BY <1>1, <1>2, <1>3, <1>4, <1>5, <1>6, <1>7 DEF Inv, LogStill, LogKept, RequestKept, Rows, PastCounts, GoesTo, Rests
<1>14. Boots'
  BY <1>1, <1>2, <1>3, <1>4, <1>5, <1>6, <1>7 DEF Inv, LogStill, Boots, PastCounts, GoesTo, Rests
<1>15. Fresh'
  BY <1>1, <1>2, <1>3, <1>4, <1>5, <1>6, <1>7 DEF Inv, LogStill, LogKept, RequestKept, Fresh, PastCounts, GoesTo, Rests
<1>16. Once'
  BY <1>1, <1>2, <1>3, <1>4, <1>5, <1>6, <1>7 DEF Inv, LogStill, Once, PastCounts, GoesTo, Rests
<1>17. Undo'
  BY <1>1, <1>2, <1>3, <1>4, <1>5, <1>6, <1>7 DEF Inv, LogStill, LogKept, StatusKept, Undo, Reopened, HeldIn, PastCounts, GoesTo, Rests
<1>18. BootEnds'
  BY <1>1, <1>2, <1>3, <1>4, <1>5, <1>6, <1>7 DEF Inv, LogStill, LogKept, StatusKept, BootEnds, SomeCarried, Carried, PastCounts, GoesTo, Rests
<1>19. Honest'
  BY <1>1, <1>2, <1>3, <1>4, <1>5, <1>6, <1>7 DEF Inv, LogStill, LogKept, StatusKept, RunningKept, RequestKept, Honest, Quiet, PastCounts, GoesTo, Rests
<1>20. Carry'
  BY <1>1, <1>2, <1>3, <1>4, <1>5, <1>6, <1>7 DEF Inv, LogStill, LogKept, StatusKept, RunningKept, RequestKept, Carry, Carried, PastCounts, GoesTo, Rests
<1>21. Reads'
  BY <1>1, <1>2, <1>3, <1>4, <1>5, <1>6, <1>7 DEF Inv, LogStill, Reads, PastCounts, GoesTo, Rests
<1> QED BY <1>8, <1>9, <1>10, <1>11, <1>12, <1>13, <1>14, <1>15, <1>16, <1>17, <1>18, <1>19, <1>20, <1>21 DEF Inv, Shape

LEMMA StepHandlerFails ==
    ASSUME Inv, HandlerFails PROVE Inv'
<1> /\ Types /\ Chains /\ Points /\ Budget /\ Rows /\ LogOK /\ turn \in TurnSet /\ past \in PastSet
    /\ Requests \in Nat /\ past.events \in Nat /\ past.faults \in Nat /\ MaxEvents \in Nat
    /\ Len(log) \in Nat /\ LastStatus \in Nat /\ LastRequest \in Nat /\ LastRunning \in Nat
    /\ Again \subseteq Exec /\ Delivered \subseteq Exec /\ Active \subseteq Exec /\ tosend \subseteq Exec
    /\ \A x \in Exec : x \in Nat /\ x # 0
    /\ LastRequest > LastRunning => Requests \in Exec
  BY InvParts
<1>1. LogStill
  BY Still DEF HandlerFails, durable, memory
<1>2. UNCHANGED <<log, versions, dispatched, bills, cursor, stash, tosend, place>>
  BY DEF HandlerFails, durable, memory, Call, Fault
<1>3. turn.call = "handler" /\ turn.at \notin {"load", "compile"}
  BY DEF HandlerFails, At
<1>4. PICK e \in Exec : e = turn.arg /\ e \notin tosend /\ e <= Requests /\ (turn.at # "close" => rows[e].status = "running" /\ place[e] = "none" /\ e \in Active)
  BY <1>3 DEF Chains, Rows, Active, Live
<1>5. /\ past.events < MaxEvents /\ past' \in PastSet
      /\ past'.events = past.events + 1 /\ past'.faults = past.faults + 1
      /\ past'.redone = past.redone \union {e} /\ past'.unheard = past.unheard
      /\ past'.held = past.held /\ past'.source = past.source
  <2>1. past.events < MaxEvents
    BY DEF HandlerFails
  <2>2. past' = [past EXCEPT !.events = @ + 1, !.faults = @ + 1, !.redone = @ \union {e}]
    BY <1>4 DEF HandlerFails
  <2>3. past' = [events |-> past.events + 1, faults |-> past.faults + 1, redone |-> past.redone \union {e},
                 unheard |-> past.unheard, held |-> past.held, source |-> past.source]
    BY <2>2 DEF PastSet
  <2>4. past.events + 1 \in Nat /\ past.faults + 1 \in Nat /\ past.redone \union {e} \subseteq Exec
    BY DEF PastSet
  <2> QED BY <2>1, <2>3, <2>4 DEF PastSet
<1>6. \/ turn.at = "bill" /\ GoesTo("publish") /\ rows' = rows
      \/ turn.at = "close" /\ Rests /\ rows' = rows
      \/ turn.at \notin {"bill", "close"} /\ RowSet(e, "queued") /\ Rests
      \/ turn.at \notin {"bill", "close"} /\ RowSet(e, "failed") /\ Opens("handler", "close", e)
  <2>1. CASE turn.at = "bill" /\ Step("publish") /\ UNCHANGED rows
    BY <2>1, Named, Goes
  <2>2. CASE turn.at = "close" /\ Done /\ UNCHANGED rows
    BY <2>2, Ends
  <2>3. CASE turn.at \notin {"bill", "close"} /\ TryAgain(turn.arg)
    <3>1. TryAgain(e)
      BY <2>3, <1>4 DEF TryAgain, CanRetry, Handle
    <3> QED BY <2>3, <3>1, TryAgainFacts DEF Types
  <2> QED BY <2>1, <2>2, <2>3 DEF HandlerFails
<1>7. flag' \in BOOLEAN /\ (flag' => flag)
  BY DEF HandlerFails, Types
<1>8. Delivered' = Delivered /\ Active' \subseteq Active /\ Stray' = Stray \union {e}
  BY <1>2, <1>4, <1>5, <1>6 DEF RowSet, Delivered, Published, Current, Active, Live, Stray
<1>9. Clean' => Clean
  BY <1>1, <1>8, CleanKept DEF LogStill
<1>10. Marks' /\ Entries'
  BY <1>1 DEF LogStill
<1>11. Types'
  BY <1>1, <1>2, <1>3, <1>4, <1>5, <1>6, <1>7, <1>8, <1>9 DEF Inv, LogStill, LogKept, Types, LogOK, GoesTo, Rests, Opens, RowSet
<1>12. Chains'
  BY <1>1, <1>2, <1>3, <1>4, <1>5, <1>6, <1>7, <1>8, <1>9 DEF Inv, LogStill, Chains, Of, GoesTo, Rests, Opens, RowSet
<1>13. Points'
  BY <1>1, <1>2, <1>3, <1>4, <1>5, <1>6, <1>7, <1>8, <1>9 DEF Inv, LogStill, LogKept, StatusKept, RequestKept, Points, IsRework, GoesTo, Rests, Opens, RowSet
<1>14. Budget'
  BY <1>1, <1>2, <1>3, <1>4, <1>5, <1>6, <1>7, <1>8, <1>9 DEF Inv, LogStill, LogKept, RequestKept, Budget, Owes, GoesTo, Rests, Opens, RowSet
<1>15. Rows'
  <2>1. Requests' = Requests /\ tosend' = tosend /\ place' = place
    BY <1>1, <1>2 DEF LogStill, LogKept, RequestKept
  <2>2. CASE rows' = rows /\ turn.at = "bill"
    BY <1>3, <1>6, <2>1, <2>2 DEF GoesTo, Rests, Opens, Rows
  <2>3. CASE rows' = rows /\ turn.at = "close"
    <3>1. Rests
      BY <1>6, <2>3
    <3>2. \A d \in Exec : rows[d].status = "running" => place[d] # "none"
      BY <1>3, <1>4, <2>3 DEF Rows
    <3> QED BY <2>1, <2>3, <3>1, <3>2 DEF Rests, Rows
  <2>4. CASE turn.at \notin {"bill", "close"}
    <3>1. /\ rows'[e].status \in {"queued", "failed"} /\ place'[e] = "none"
          /\ \A d \in Exec : d # e => rows'[d] = rows[d]
      BY <1>4, <1>6, <2>1, <2>4 DEF RowSet
    <3>2. turn'.call = "handler" => turn'.at = "close" /\ turn'.arg = e /\ rows'[e].status = "failed"
      BY <1>6, <2>4 DEF Opens, Rests, RowSet
    <3>3. turn'.at = "close" => turn'.call = "handler"
      BY <1>6, <2>4 DEF Opens, Rests
    <3>4. \A d \in Exec : rows'[d].status = "running" => place'[d] # "none"
      <4>1. turn.at # "rows"
        BY <1>3 DEF Chains, Of
      <4> QED BY <2>1, <3>1, <4>1, <1>3, <1>4 DEF Rows
    <3>5. \A d \in Exec : place'[d] # "none" => rows'[d].status = "running"
      BY <2>1, <3>1 DEF Rows
    <3>6. \A d \in Exec : rows'[d].status = "completed" => rows'[d].answer # "none"
      BY <3>1 DEF Rows
    <3>7. \A d \in Exec : rows'[d].status # "none" \/ d \in tosend' => d <= Requests'
      BY <2>1, <3>1, <1>4 DEF Rows
    <3>8. \A d \in tosend' : rows'[d].status = "none"
      BY <2>1, <3>1, <1>4 DEF Rows
    <3> QED BY <3>2, <3>3, <3>4, <3>5, <3>6, <3>7, <3>8 DEF Rows
  <2> QED BY <1>6, <2>2, <2>3, <2>4
<1>16. Boots'
  BY <1>1, <1>2, <1>3, <1>4, <1>5, <1>6, <1>7, <1>8, <1>9 DEF Inv, LogStill, Boots, GoesTo, Rests, Opens, RowSet
<1>17. Fresh'
  BY <1>1, <1>2, <1>3, <1>4, <1>5, <1>6, <1>7, <1>8, <1>9 DEF Inv, LogStill, LogKept, RequestKept, Fresh, GoesTo, Rests, Opens, RowSet
<1>18. Once'
  BY <1>1, <1>2, <1>3, <1>4, <1>5, <1>6, <1>7, <1>8, <1>9 DEF Inv, LogStill, Once, GoesTo, Rests, Opens, RowSet
<1>19. Undo'
  BY <1>1, <1>2, <1>3, <1>4, <1>5, <1>6, <1>7, <1>8, <1>9 DEF Inv, LogStill, LogKept, StatusKept, Undo, Reopened, HeldIn, GoesTo, Rests, Opens, RowSet
<1>20. BootEnds'
  BY <1>1, <1>2, <1>3, <1>4, <1>5, <1>6, <1>7, <1>8, <1>9 DEF Inv, LogStill, LogKept, StatusKept, BootEnds, SomeCarried, Carried, GoesTo, Rests, Opens, RowSet
<1>21. Honest'
  BY <1>1, <1>2, <1>3, <1>4, <1>5, <1>6, <1>7, <1>8, <1>9 DEF Inv, LogStill, LogKept, StatusKept, RunningKept, RequestKept, Honest, Quiet, GoesTo, Rests, Opens, RowSet
<1>22. Carry'
  BY <1>1, <1>2, <1>3, <1>4, <1>5, <1>6, <1>7, <1>8, <1>9 DEF Inv, LogStill, LogKept, StatusKept, RunningKept, RequestKept, Carry, Carried, GoesTo, Rests, Opens, RowSet
<1>23. Reads'
  BY <1>1, <1>2, <1>3, <1>4, <1>5, <1>6, <1>7, <1>8, <1>9 DEF Inv, LogStill, Reads, GoesTo, Rests, Opens, RowSet
<1> QED BY <1>10, <1>11, <1>12, <1>13, <1>14, <1>15, <1>16, <1>17, <1>18, <1>19, <1>20, <1>21, <1>22, <1>23 DEF Inv, Shape

LEMMA StepCrash ==
    ASSUME Inv, Crash PROVE Inv'
<1> /\ Types /\ Chains /\ Points /\ Budget /\ Rows /\ LogOK /\ turn \in TurnSet /\ past \in PastSet
    /\ Requests \in Nat /\ past.events \in Nat /\ past.faults \in Nat /\ MaxEvents \in Nat
    /\ Len(log) \in Nat /\ LastStatus \in Nat /\ LastRequest \in Nat /\ LastRunning \in Nat
    /\ Again \subseteq Exec /\ Delivered \subseteq Exec /\ Active \subseteq Exec /\ tosend \subseteq Exec
    /\ \A x \in Exec : x \in Nat /\ x # 0
    /\ LastRequest > LastRunning => Requests \in Exec
  BY InvParts
<1>1. LogStill
  BY Still DEF Crash, durable, memory
<1>2. UNCHANGED <<log, versions, dispatched, bills, rows, cursor, stash>>
  BY DEF Crash, durable, memory, Call, Fault
<1>3. Opens("boot", "rows", 0)
  BY Named, Starts DEF Crash
<1>4. /\ past.events < MaxEvents /\ past' \in PastSet
      /\ past'.events = past.events + 1 /\ past'.faults = past.faults
      /\ past'.redone = past.redone \union {d \in Exec : rows[d].status = "running"} /\ past'.unheard = past.unheard
      /\ past'.held = past.held /\ past'.source = past.source
  <2>1. past.events < MaxEvents
    BY DEF Crash
  <2>2. past' = [past EXCEPT !.events = @ + 1, !.redone = @ \union {d \in Exec : rows[d].status = "running"}]
    BY DEF Crash
  <2>3. past' = [events |-> past.events + 1, faults |-> past.faults,
                 redone |-> past.redone \union {d \in Exec : rows[d].status = "running"},
                 unheard |-> past.unheard, held |-> past.held, source |-> past.source]
    BY <2>2 DEF PastSet
  <2>4. past.events + 1 \in Nat /\ past.redone \union {d \in Exec : rows[d].status = "running"} \subseteq Exec
    BY DEF PastSet
  <2> QED BY <2>1, <2>3, <2>4 DEF PastSet
<1>5. tosend' = {} /\ flag' = FALSE /\ place' = [d \in Exec |-> "none"]
  BY DEF Crash
<1>6. /\ Delivered' = Delivered /\ Active' \subseteq Active /\ Stray \subseteq Stray'
      /\ \A d \in Active' \ Stray' : d \in Active \ Stray /\ rows[d].status = "queued"
  BY <1>2, <1>4, <1>5 DEF Delivered, Published, Current, Active, Live, Stray
<1>7. Clean' => Clean
  BY <1>1, <1>6, CleanKept DEF LogStill
<1>8. Marks' /\ Entries'
  BY <1>1 DEF LogStill
<1>9. Types'
  BY <1>1, <1>2, <1>3, <1>4, <1>5, <1>6, <1>7 DEF Inv, LogStill, LogKept, Types, LogOK, Opens
<1>10. Chains'
  BY <1>1, <1>2, <1>3, <1>4, <1>5, <1>6, <1>7 DEF Inv, LogStill, Chains, Of, Opens
<1>11. Points'
  BY <1>1, <1>2, <1>3, <1>4, <1>5, <1>6, <1>7 DEF Inv, LogStill, LogKept, StatusKept, RequestKept, Points, IsRework, Opens
<1>12. Budget'
  BY <1>1, <1>2, <1>3, <1>4, <1>5, <1>6, <1>7 DEF Inv, LogStill, LogKept, RequestKept, Budget, Owes, Opens
<1>13. Rows'
  BY <1>1, <1>2, <1>3, <1>4, <1>5, <1>6, <1>7 DEF Inv, LogStill, LogKept, RequestKept, Rows, Opens
<1>14. Boots'
  BY <1>1, <1>2, <1>3, <1>4, <1>5, <1>6, <1>7 DEF Inv, LogStill, Boots, Opens
<1>15. Fresh'
  BY <1>1, <1>2, <1>3, <1>4, <1>5, <1>6, <1>7 DEF Inv, LogStill, LogKept, RequestKept, Fresh, Opens
<1>16. Once'
  BY <1>1, <1>2, <1>3, <1>4, <1>5, <1>6, <1>7 DEF Inv, LogStill, Once, Opens
<1>17. Undo'
  BY <1>1, <1>2, <1>3, <1>4, <1>5, <1>6, <1>7 DEF Inv, LogStill, LogKept, StatusKept, Undo, Reopened, HeldIn, Opens
<1>18. BootEnds'
  BY <1>1, <1>2, <1>3, <1>4, <1>5, <1>6, <1>7 DEF Inv, LogStill, LogKept, StatusKept, BootEnds, SomeCarried, Carried, Opens
<1>19. Honest'
  <2>1. ASSUME Clean', NEW d \in Active' \ Stray'
        PROVE  d = Requests /\ WorkStatus = "running" /\ LastRequest > LastRunning
    <3>1. d \in Active \ Stray /\ rows[d].status = "queued"
      BY <2>1, <1>6
    <3>2. ~(turn.call = "handler" /\ turn.at = "answer" /\ turn.arg = d)
      BY <3>1 DEF Rows
    <3> QED BY <2>1, <3>1, <3>2, <1>7, ActiveFacts
  <2>2. turn'.call = "boot" /\ turn'.at = "rows"
    BY <1>3 DEF Opens
  <2>3. ~Quiet'
    BY <2>2 DEF Quiet
  <2>4. ASSUME Clean' PROVE LastRunning # 0 => StampedBy = 0
    BY <2>4, <1>7 DEF Inv, Honest
  <2>5. /\ Requests' = Requests /\ WorkStatus' = WorkStatus /\ LastRequest' = LastRequest
        /\ LastRunning' = LastRunning /\ (LastRunning # 0 => StampedBy' = StampedBy)
    BY <1>1 DEF LogStill, LogKept, StatusKept, RunningKept, RequestKept
  <2> QED BY <2>1, <2>2, <2>3, <2>4, <2>5 DEF Honest
<1>20. Carry'
  BY <1>1, <1>2, <1>3, <1>4, <1>5, <1>6, <1>7 DEF Inv, LogStill, LogKept, StatusKept, RunningKept, RequestKept, Carry, Carried, Opens
<1>21. Reads'
  BY <1>1, <1>2, <1>3, <1>4, <1>5, <1>6, <1>7 DEF Inv, LogStill, Reads, Opens
<1> QED BY <1>8, <1>9, <1>10, <1>11, <1>12, <1>13, <1>14, <1>15, <1>16, <1>17, <1>18, <1>19, <1>20, <1>21 DEF Inv, Shape

LEMMA StepStutters ==
    ASSUME Inv, UNCHANGED vars PROVE Inv'
<1> /\ Types /\ Chains /\ Points /\ Budget /\ Rows /\ LogOK /\ turn \in TurnSet /\ past \in PastSet
    /\ Requests \in Nat /\ past.events \in Nat /\ past.faults \in Nat /\ MaxEvents \in Nat
    /\ Len(log) \in Nat /\ LastStatus \in Nat /\ LastRequest \in Nat /\ LastRunning \in Nat
    /\ Again \subseteq Exec /\ Delivered \subseteq Exec /\ Active \subseteq Exec /\ tosend \subseteq Exec
    /\ \A x \in Exec : x \in Nat /\ x # 0
    /\ LastRequest > LastRunning => Requests \in Exec
  BY InvParts
<1>1. LogStill
  BY Still DEF vars, durable
<1>2. UNCHANGED <<log, versions, dispatched, bills, rows, cursor, stash, tosend, flag, place, turn, past>>
  BY DEF vars, durable, memory
<1>3. Delivered' = Delivered /\ Active' = Active /\ Stray' = Stray
  BY <1>2 DEF Delivered, Published, Current, Active, Live, Stray
<1>4. Clean' => Clean
  BY <1>1, <1>3, CleanKept DEF LogStill
<1>5. Marks' /\ Entries'
  BY <1>1 DEF LogStill
<1>6. Types'
  BY <1>1, <1>2, <1>3, <1>4 DEF Inv, LogStill, LogKept, Types, LogOK
<1>7. Chains'
  BY <1>1, <1>2, <1>3, <1>4 DEF Inv, LogStill, Chains, Of
<1>8. Points'
  BY <1>1, <1>2, <1>3, <1>4 DEF Inv, LogStill, LogKept, StatusKept, RequestKept, Points, IsRework
<1>9. Budget'
  BY <1>1, <1>2, <1>3, <1>4 DEF Inv, LogStill, LogKept, RequestKept, Budget, Owes
<1>10. Rows'
  BY <1>1, <1>2, <1>3, <1>4 DEF Inv, LogStill, LogKept, RequestKept, Rows
<1>11. Boots'
  BY <1>1, <1>2, <1>3, <1>4 DEF Inv, LogStill, Boots
<1>12. Fresh'
  BY <1>1, <1>2, <1>3, <1>4 DEF Inv, LogStill, LogKept, RequestKept, Fresh
<1>13. Once'
  BY <1>1, <1>2, <1>3, <1>4 DEF Inv, LogStill, Once
<1>14. Undo'
  BY <1>1, <1>2, <1>3, <1>4 DEF Inv, LogStill, LogKept, StatusKept, Undo, Reopened, HeldIn
<1>15. BootEnds'
  BY <1>1, <1>2, <1>3, <1>4 DEF Inv, LogStill, LogKept, StatusKept, BootEnds, SomeCarried, Carried
<1>16. Honest'
  BY <1>1, <1>2, <1>3, <1>4 DEF Inv, LogStill, LogKept, StatusKept, RunningKept, RequestKept, Honest, Quiet
<1>17. Carry'
  BY <1>1, <1>2, <1>3, <1>4 DEF Inv, LogStill, LogKept, StatusKept, RunningKept, RequestKept, Carry, Carried
<1>18. Reads'
  BY <1>1, <1>2, <1>3, <1>4 DEF Inv, LogStill, Reads
<1> QED BY <1>5, <1>6, <1>7, <1>8, <1>9, <1>10, <1>11, <1>12, <1>13, <1>14, <1>15, <1>16, <1>17, <1>18 DEF Inv, Shape
----------------------------------------------------------------------------
(* The invariant holds at the start and is kept.                           *)

\* A new brief.
LEMMA InitInv == Init => Inv
<1> SUFFICES ASSUME Init PROVE Inv
  OBVIOUS
<1>1. PICK s \in StatusEntry : s = Status("pending", "none", 0) /\ s.what = "pending" /\ s.why = "none" /\ s.of = 0
  <2>1. Status("pending", "none", 0) = [kind |-> "status", what |-> "pending", why |-> "none", of |-> 0]
    BY DEF Status
  <2>2. "pending" \in Statuses /\ "none" \in Whys
    BY DEF Statuses, Whys
  <2>3. [kind |-> "status", what |-> "pending", why |-> "none", of |-> 0] \in StatusEntry
    BY <2>2 DEF StatusEntry
  <2> QED BY <2>1, <2>3
<1>2. log = <<s>>
  BY <1>1 DEF Init
<1>3. s \in Entry /\ s \notin RequestEntry /\ s \notin RunningEntry /\ ~IsRequest(s) /\ IsStatus(s) /\ s.kind = "status"
  BY <1>1 DEF Entry, StatusEntry, RequestEntry, RunningEntry, IsRequest, IsStatus
<1>4. log \in Seq(Entry) /\ Len(log) = 1 /\ log[1] = s /\ \A k \in 1..Len(log) : k = 1
  BY <1>2, <1>3
<1>5. LastStatus = 1 /\ LastRequest = 0 /\ LastRunning = 0
  <2>1. LastIn(log, StatusEntry) \in 0..1 /\ 1 <= LastIn(log, StatusEntry)
    BY <1>1, <1>4, LastInFacts
  <2>2. LastIn(log, RequestEntry) \in 0..1 /\ (LastIn(log, RequestEntry) # 0 => log[LastIn(log, RequestEntry)] \in RequestEntry)
    BY <1>4, LastInFacts
  <2>3. LastIn(log, RunningEntry) \in 0..1 /\ (LastIn(log, RunningEntry) # 0 => log[LastIn(log, RunningEntry)] \in RunningEntry)
    BY <1>4, LastInFacts
  <2>4. LastStatus = LastIn(log, StatusEntry) /\ LastRequest = LastIn(log, RequestEntry) /\ LastRunning = LastIn(log, RunningEntry)
    BY <1>4, Folds
  <2> QED BY <1>3, <1>4, <2>1, <2>2, <2>3, <2>4
<1>6. LogOK
  BY <1>4, <1>5 DEF LogOK
<1>7. Requests = 0 /\ WorkStatus = "pending" /\ Why = "none"
  <2>1. Requests = 0
    BY <1>5, <1>6, LogFacts
  <2> QED BY <1>1, <1>4, <1>5, <2>1 DEF WorkStatus, Why
<1>8. turn = Idle /\ turn \in TurnSet /\ turn.call = "none" /\ turn.at = "none"
  BY IdleFacts DEF Init
<1>9. MaxEvents \in Nat /\ MaxRetries \in Nat /\ 0 \notin Exec
  BY BriefDeliveryAssumption, ExecFacts
<1>10. past = [events |-> 0, faults |-> 0, redone |-> {}, unheard |-> {}, held |-> 0, source |-> [e \in Exec |-> 0]]
  BY DEF Init
<1>11. past \in PastSet /\ past.events = 0 /\ past.faults = 0 /\ past.held = 0 /\ past.source = [e \in Exec |-> 0]
  BY <1>10 DEF PastSet
<1>12. rows = [e \in Exec |-> NoRow] /\ NoRow \in Row /\ NoRow.status = "none"
  BY <1>9 DEF Init, NoRow, Row
<1>13. /\ versions = <<>> /\ Len(versions) = 0 /\ dispatched = {} /\ bills = [e \in Exec |-> 0]
       /\ cursor = 0 /\ stash = 0 /\ tosend = {} /\ flag = FALSE /\ place = [e \in Exec |-> "none"]
  BY DEF Init
<1>14. Delivered = {} /\ Active = {} /\ Again = {}
  <2>1. Delivered = {}
    BY <1>13 DEF Delivered, Published, Current
  <2>2. Active = {}
    BY <1>12, <1>13 DEF Active, Live
  <2>3. Again = {}
    BY <1>3, <1>4 DEF Again
  <2> QED BY <2>1, <2>2, <2>3
<1>15. Types
  <2>1. versions \in Seq(Exec)
    BY <1>13
  <2> QED BY <1>6, <1>8, <1>11, <1>12, <1>13, <2>1 DEF Types
<1>16. Chains /\ Points /\ Budget
  BY <1>7, <1>8, <1>9, <1>11 DEF Chains, Of, Points, Budget, Owes
<1>17. Rows
  BY <1>8, <1>12, <1>13 DEF Rows
<1>18. Marks
  BY <1>4, <1>5, <1>7 DEF Marks, Reopened
<1>19. Entries
  BY <1>3, <1>4 DEF Entries, IsReworkRequest
<1>20. Boots /\ Fresh /\ BootEnds
  BY <1>8, <1>11, <1>14 DEF Boots, Fresh, BootEnds
<1>21. Once
  BY <1>8, <1>13 DEF Once
<1>22. Undo
  BY <1>7, <1>8, <1>13 DEF Undo, Reopened
<1>23. Honest /\ Carry /\ Reads
  BY <1>5, <1>7, <1>8, <1>13, <1>14 DEF Honest, Quiet, Carry, Reads
<1> QED BY <1>15, <1>16, <1>17, <1>18, <1>19, <1>20, <1>21, <1>22, <1>23 DEF Inv, Shape

\* The invariant is inductive.
LEMMA NextInv == Inv /\ [Next]_vars => Inv'
<1> SUFFICES ASSUME Inv, [Next]_vars PROVE Inv'
  OBVIOUS
<1>1. CASE CallStarts
  BY <1>1, StepExecute, StepAccept, StepAskRework, StepRerun, StepCancel, StepRetryRework DEF CallStarts
<1>2. CASE CallStep
  BY <1>2, StepSetRunning, StepRequestExecution, StepDiscardStash, StepSettle, StepNoteRework, StepReopen,
     StepTakeCursor, StepMarkDispatched, StepRestoreStash, StepPutBack, StepUndoRerun, StepReturnCursor,
     StepCancelStatus DEF CallStep
<1>3. CASE \E e \in Exec : LaneA(e)
  BY <1>3, StepEnqueue, StepBegin, StepStepReturns, StepModelReturns, StepTimesOut DEF LaneA
<1>4. CASE HandlerStep
  BY <1>4, StepReportCancelled, StepStampRunning, StepLoadProgress, StepCompile, StepBill, StepPublish,
     StepCompletes, StepFails, StepAnswer, StepCloses, StepCloseSkips DEF HandlerStep
<1>5. CASE BootStep
  BY <1>5, StepBootRows, StepBootWork, StepBootSync, StepBootRelease DEF BootStep
<1>6. CASE CallFails \/ HandlerFails \/ BootFails \/ Crash
  BY <1>6, StepCallFails, StepHandlerFails, StepBootFails, StepCrash
<1>7. CASE UNCHANGED vars
  BY <1>7, StepStutters
<1> QED BY <1>1, <1>2, <1>3, <1>4, <1>5, <1>6, <1>7 DEF Next

\* In every state of the program, between any two commits and after any death or
\* failed write, all of this holds together; the theorems below are read off it
\* (work_delivery.py, project_brief.py, runtime_loop.py).
THEOREM Invariant == Spec => []Inv
BY InitInv, NextInv, PTL DEF Spec
----------------------------------------------------------------------------
(* What it gives.                                                          *)

\* The types of the model follow from Shape.
LEMMA TypeFollows == Inv => TypeOK
<1> SUFFICES ASSUME Inv PROVE TypeOK
  OBVIOUS
<1>1. Types /\ Chains /\ Rows /\ LogOK /\ turn \in TurnSet
  BY InvParts
<1>2. \A i \in 1..Len(log) :
          /\ log[i].of \in Nat /\ log[i].why \in Whys
          /\ \/ log[i].kind = "status"   /\ log[i].what \in Statuses
             \/ log[i].kind = "request"  /\ log[i].what \in Callers
             \/ log[i].kind = "decision" /\ log[i].what \in Reviews
  BY <1>1, LogFacts, EntryFacts
<1>3. turn.call \in Callers \union {"none", "cancel", "handler"}
  BY <1>1 DEF TurnSet
<1>4. turn.call = "none" <=> turn.at = "none"
  <2>1. turn.call = "none" => turn.at = "none"
    BY <1>1, IdleFacts DEF Chains
  <2>2. turn.call # "none" => turn.at # "none"
    BY <1>1, <1>3 DEF Chains, Of, Callers
  <2> QED BY <2>1, <2>2
<1> QED BY <1>1, <1>2, <1>3, <1>4 DEF TypeOK, Types, Rows

\* A set whose members are all equal has one at most.
LEMMA AtMostOne ==
    ASSUME NEW S, \A x, y \in S : x = y
    PROVE  Cardinality(S) <= 1
<1>1. CASE S = {}
  BY <1>1, FS_EmptySet
<1>2. CASE S # {}
  <2>1. PICK x : x \in S
    BY <1>2
  <2>2. S = {x}
    BY <2>1
  <2> QED BY <2>2, FS_Singleton
<1> QED BY <1>1, <1>2

\* Bills and versions by Once, requests of a rework by Entries.
LEMMA NothingTwiceFollows == Inv => NothingTwice
<1> SUFFICES ASSUME Inv PROVE NothingTwice
  OBVIOUS
<1>1. ASSUME NEW e \in Exec PROVE bills[e] <= 1 /\ Cardinality({v \in 1..Current : versions[v] = e}) <= 1
  <2>1. \A v, w \in {x \in 1..Current : versions[x] = e} : v = w
    BY DEF Inv, Once, Current
  <2> QED BY <2>1, AtMostOne DEF Inv, Once
<1>2. ASSUME NEW d \in 1..Len(log)
      PROVE  Cardinality({i \in 1..Len(log) : IsRequest(log[i]) /\ log[i].what = "rework" /\ log[i].of = d}) <= 1
  <2>1. \A i, j \in {k \in 1..Len(log) : IsRequest(log[k]) /\ log[k].what = "rework" /\ log[k].of = d} : i = j
    BY DEF Inv, Entries, IsReworkRequest
  <2> QED BY <2>1, AtMostOne
<1> QED BY <1>1, <1>2 DEF NothingTwice, PaidAndPublishedOnce, ReworkStartsOnce

\* Where the cursor is, by Undo.
LEMMA UndoKeepsCursorFollows == Inv => UndoKeepsCursor
<1> SUFFICES ASSUME Inv PROVE UndoKeepsCursor
  OBVIOUS
<1>1. past.faults = 0 \/ past.faults > 0
  BY InvParts
<1> QED BY <1>1 DEF Inv, Undo, UndoKeepsCursor, Why

\* A quiet brief by Honest, a running one by Carry.
LEMMA StatusIsTrueFollows == Inv => StatusIsTrue
<1> SUFFICES ASSUME Inv PROVE StatusIsTrue
  OBVIOUS
<1>1. Free => turn.call = "none" /\ turn.at = "none"
  BY IdleFacts DEF Free
<1>2. QuietMeansIdle
  <2>1. SUFFICES ASSUME Free, WorkStatus # "running", NEW e \in Exec, Live(e), e \notin Stray, ~StrayWrote PROVE FALSE
    BY DEF QuietMeansIdle
  <2> QED BY <1>1, <2>1, ActiveFacts DEF Active, Clean
<1>3. RunningIsCarried
  <2>1. SUFFICES ASSUME Free, WorkStatus = "running", past.faults = 0, ~StrayWrote PROVE \E e \in Exec : Carried(e)
    BY DEF RunningIsCarried
  <2>2. LastRequest > LastRunning /\ Carried(Requests)
    BY <1>1, <2>1 DEF Inv, Carry, Clean
  <2> QED BY <2>2, InvParts
<1> QED BY <1>2, <1>3 DEF StatusIsTrue

\* What an execution compiles from, by Reads.
LEMMA SourcesReadAgainFollows == Inv => SourcesReadAgain
<1> SUFFICES ASSUME Inv, NEW e \in Exec, NEW i \in 1..Len(log), Published(e),
                    IsRequest(log[i]), log[i].what \in {"rework", "rerun"},
                    Cardinality({j \in 1..i : IsRequest(log[j])}) = e
             PROVE  past.source[e] = e \/ {e, past.source[e]} \intersect Stray # {} \/ StrayWrote
  BY DEF SourcesReadAgain
<1>1. e \in Again /\ e \in Delivered
  BY DEF Again, RequestsTo, Delivered
<1>2. Clean /\ e \notin Stray => past.source[e] # 0 /\ past.source[e] \in {0, e} \union Stray
  BY <1>1 DEF Inv, Reads
<1> QED BY <1>2 DEF Clean

\* A boot ends with its release, or with a write that fails there.
LEMMA BootEndsHow ==
    ASSUME Inv, [Next]_vars, turn.call = "boot", turn'.call = "none"
    PROVE  BootRelease \/ BootFails
<1> turn \in TurnSet
  BY InvParts
<1> ~Free
  BY IdleFacts DEF Free
<1>1. ~CallStarts /\ \A e \in Exec : ~LaneA(e)
  BY DEF CallStarts, LaneA, Execute, Accept, AskRework, Rerun, Cancel, RetryRework,
         Enqueue, Begin, StepReturns, ModelReturns, TimesOut
<1>2. \A at \in Commits : ~Step(at)
  <2>1. SUFFICES ASSUME NEW at \in Commits, Step(at) PROVE FALSE
    OBVIOUS
  <2>2. turn'.call = turn.call
    BY <2>1, StepFacts
  <2> QED BY <2>2
<1>3. ~CallStep
  <2>1. ~SetRunning /\ ~Settle /\ ~NoteRework /\ ~Reopen /\ ~TakeCursor /\ ~MarkDispatched
        /\ ~UndoRerun /\ ~ReturnCursor /\ ~CancelStatus
    BY DEF At, SetRunning, Settle, NoteRework, Reopen, TakeCursor, MarkDispatched, UndoRerun,
           ReturnCursor, CancelStatus
  <2>2. ~RequestExecution /\ ~DiscardStash /\ ~RestoreStash /\ ~PutBack
    BY <1>2, Named DEF RequestExecution, DiscardStash, RestoreStash, PutBack
  <2> QED BY <2>1, <2>2 DEF CallStep
<1>4. ~HandlerStep /\ ~HandlerFails /\ ~CallFails
  BY DEF HandlerStep, At, ReportCancelled, StampRunning, LoadProgress, Compile, Bill, Publish, Finish,
         Answer, CloseDeadLettered, HandlerFails, CallFails
<1>5. ~BootRows /\ ~BootWork /\ ~BootSync
  BY <1>2, Named DEF BootRows, BootWork, BootSync
<1>6. ~Crash
  <2>1. Crash => Opens("boot", "rows", 0)
    BY Named, Starts DEF Crash
  <2> QED BY <2>1 DEF Opens
<1>7. ~UNCHANGED vars
  BY DEF vars
<1> QED BY <1>1, <1>3, <1>4, <1>5, <1>6, <1>7 DEF Next, BootStep

\* The step that ends a boot without a fault leaves nothing half done.
LEMMA BootSettlesStep ==
    ASSUME Inv, Inv', [Next]_vars, turn.call = "boot", turn'.call = "none", past'.faults = 0
    PROVE  /\ ~HalfOpen("rerun")' /\ (Prior = "none")'
           /\ stash' = 0
           /\ (WorkStatus = "running")' => \E e \in Exec : Carried(e)'
<1>1. stash' = 0 /\ ~Reopened'
  BY DEF Inv, Undo
<1>2. ~HalfOpen("rerun")' /\ (Prior = "none")'
  BY <1>1, ViewsNext DEF HalfOpenBy, PriorBy, Reopened
<1>3. BootRelease
  <2>1. BootFails => past'.faults # 0
    BY InvParts, FaultFacts DEF BootFails, PastCounts
  <2> QED BY <2>1, BootEndsHow
<1>4. (WorkStatus = "running")' => \E e \in Exec : Carried(e)'
  <2>1. WorkStatus' = WorkStatus
    BY <1>3, Still DEF BootRelease, LogStill, LogKept, StatusKept
  <2>2. WorkStatus = "running" => SomeCarried
    BY <1>3 DEF BootRelease, At, Inv, BootEnds
  <2>3. \A e \in Exec : Carried(e)' <=> Carried(e)
    BY <1>3 DEF BootRelease, Carried, memory
  <2> QED BY <2>1, <2>2, <2>3 DEF SomeCarried
<1> QED BY <1>1, <1>2, <1>4

\* A step adds a decision only where the current version has none that counts.
LEMMA DecidesOnlyUndecided ==
    ASSUME Inv, [Next]_vars
    PROVE  log' = log \/ (\E e : Emit(e) /\ e.kind # "decision") \/ Undecided
<1> DEFINE Other == \E e : Emit(e) /\ e.kind # "decision"
<1>1. ASSUME NEW e, Emit(e), e.kind # "decision" PROVE Other
  BY <1>1
<1>2. \A what, why, of : Status(what, why, of).kind # "decision" /\ Request(what, of).kind # "decision"
  BY DEF Status, Request
<1> HIDE DEF Other
<1>3. CASE CallStarts
  BY <1>3 DEF CallStarts, Execute, Accept, AskRework, Rerun, Cancel, RetryRework, durable
<1>4. CASE CallStep
  <2>1. CASE SetRunning \/ Reopen \/ UndoRerun \/ CancelStatus \/ PutBack
    BY <1>2, <2>1 DEF SetRunning, Reopen, UndoRerun, CancelStatus, PutBack, Emit, Other
  <2>2. CASE RequestExecution
    BY <1>2, <2>2 DEF RequestExecution, Emit, Other
  <2>3. CASE DiscardStash \/ Settle \/ NoteRework \/ TakeCursor \/ MarkDispatched \/ RestoreStash \/ ReturnCursor
    BY <2>3 DEF DiscardStash, Settle, NoteRework, TakeCursor, MarkDispatched, RestoreStash, ReturnCursor, durable
  <2> QED BY <1>4, <2>1, <2>2, <2>3 DEF CallStep, Other
<1>5. CASE \E e \in Exec : LaneA(e)
  BY <1>5 DEF LaneA, Enqueue, Begin, StepReturns, ModelReturns, TimesOut, durable
<1>6. CASE HandlerStep
  <2>1. CASE StampRunning \/ Finish("complete", "completed") \/ Finish("fail", "failed")
    BY <1>2, <2>1 DEF StampRunning, Finish, Emit, Other
  <2>2. CASE CloseDeadLettered
    BY <1>2, <2>2 DEF CloseDeadLettered, Emit, Other
  <2>3. CASE ReportCancelled \/ LoadProgress \/ Compile \/ Bill \/ Publish \/ Answer
    BY <2>3 DEF ReportCancelled, LoadProgress, Compile, Bill, Publish, Answer, durable
  <2> QED BY <1>6, <2>1, <2>2, <2>3 DEF HandlerStep, Other
<1>7. CASE BootStep
  <2>1. CASE BootSync
    BY <1>2, <2>1 DEF BootSync, Emit, Other
  <2>2. CASE BootRows \/ BootWork \/ BootRelease
    BY <2>2 DEF BootRows, BootWork, BootRelease, durable
  <2> QED BY <1>7, <2>1, <2>2 DEF BootStep, Other
<1>8. CASE CallFails \/ HandlerFails \/ BootFails \/ Crash \/ UNCHANGED vars
  BY <1>8 DEF CallFails, HandlerFails, BootFails, Crash, durable, vars
<1> QED BY <1>3, <1>4, <1>5, <1>6, <1>7, <1>8 DEF Next, Other

\* No step takes back the review of the current version once it is accepted.
LEMMA AcceptedStep ==
    ASSUME Inv, Inv', [Next]_vars, Shown = "accepted", Current' = Current
    PROVE  Shown' = "accepted"
<1>1. LogOK /\ LogOK' /\ Len(log) \in Nat
  BY InvParts DEF Inv, Shape, Types
<1>2. Latest # 0 /\ log[Latest].what = "accepted" /\ ~Undecided
  BY DEF Shown, Undecided
<1>3. /\ Latest = LastIn(log, ReviewOf(Current)) /\ Latest' = LastIn(log', ReviewOf(Current))
      /\ Latest \in 1..Len(log) /\ log[Latest] \in ReviewOf(Current)
      /\ \A k \in 1..Len(log) : log[k] \in ReviewOf(Current) => k <= Latest
      /\ Latest' \in 0..Len(log') /\ (Latest' # 0 => log'[Latest'] \in ReviewOf(Current))
      /\ \A k \in 1..Len(log') : log'[k] \in ReviewOf(Current) => k <= Latest'
  BY <1>1, <1>2, Folds, FoldsNext, LastInFacts DEF LogOK
<1>4. Latest' = Latest /\ log'[Latest] = log[Latest]
  <2>1. CASE log' = log
    BY <1>3, <2>1
  <2>2. CASE \E e : Emit(e) /\ e.kind # "decision"
    <3>1. PICK e : log' = Append(log, e) /\ e.kind # "decision"
      BY <2>2 DEF Emit
    <3>2. Len(log') = Len(log) + 1 /\ log'[Len(log) + 1] = e /\ \A k \in 1..Len(log) : log'[k] = log[k]
      BY <1>1, <3>1 DEF LogOK
    <3>3. e \notin ReviewOf(Current)
      BY <3>1 DEF ReviewOf, DecisionEntry
    <3> QED BY <1>1, <1>3, <3>2, <3>3
  <2> QED BY <1>2, <2>1, <2>2, DecidesOnlyUndecided
<1>5. Shown' = IF Latest' = 0 \/ Withdrawn' THEN "unreviewed" ELSE log'[Latest'].what
  BY DEF Shown
<1>6. ~Withdrawn'
  BY <1>2, <1>4 DEF Withdrawn, IsRework
<1> QED BY <1>2, <1>4, <1>5, <1>6
----------------------------------------------------------------------------
(* The theorems.                                                           *)

\* In every state the log holds statuses, requests and decisions of the kinds
\* the code appends, a handler awaits only for a row that is running, and a
\* turn is at a commit exactly when a call, a handler or a boot has the loop.
THEOREM TypeCorrect == Spec => []TypeOK
BY Invariant, TypeFollows, PTL

\* However often Lane A repeats an execution and a caller its call, no
\* execution is billed twice or publishes two versions, and a decision to
\* rework requests one execution at most (work_delivery.py:732, :783, :1466).
THEOREM NothingIsDoneTwice == Spec => []NothingTwice
BY Invariant, NothingTwiceFollows, PTL

\* A brief that is not running has no execution at work but one that outlived
\* the end of its run, and a running brief has one that will end it, unless a
\* write failed or such an execution has set the status (runtime_loop.py:418).
THEOREM StatusStaysTrue == Spec => []StatusIsTrue
BY Invariant, StatusIsTrueFollows, PTL

\* A rework or a rerun compiles from the cursor its own execution wrote, unless
\* an execution that outlived the end of its run is involved
\* (work_delivery.py:1752).
THEOREM SourcesAreReadAgain == Spec => []SourcesReadAgain
BY Invariant, SourcesReadAgainFollows, PTL

\* A reopen that is undone leaves the plan cursor it took where it was, as long
\* as no write fails (work_delivery.py:1662, plan_resume.py:423).
THEOREM CursorSurvivesUndo == Spec => []UndoKeepsCursor
BY Invariant, UndoKeepsCursorFollows, PTL

\* The review of a version that was accepted is never reopened while the
\* version is the current one (work_delivery.py:1278).
THEOREM AcceptedStays == Spec => AcceptedIsFinal
<1>1. Inv /\ Inv' /\ [Next]_vars => [Shown = "accepted" /\ Current' = Current => Shown' = "accepted"]_vars
  BY AcceptedStep
<1> QED BY <1>1, Invariant, PTL DEF Spec, AcceptedIsFinal

\* A boot that ends leaves no reopen half done, no stash behind, and a running
\* brief with an execution to carry it, as long as no write fails
\* (runtime_loop.py:517).
THEOREM BootLeavesOrder == Spec => BootSettles
<1>1. Inv /\ Inv' /\ [Next]_vars =>
          [turn.call = "boot" /\ turn'.call = "none" /\ past'.faults = 0 =>
              /\ ~HalfOpen("rerun")' /\ (Prior = "none")'
              /\ stash' = 0
              /\ (WorkStatus = "running")' => \E e \in Exec : Carried(e)']_vars
  BY BootSettlesStep
<1> QED BY <1>1, Invariant, PTL DEF Spec, BootSettles
=============================================================================
