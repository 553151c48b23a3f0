------------------------- MODULE MemoryIndexProofs -------------------------
(***************************************************************************)
(* Proofs about the memories and their index, for every set of memories,   *)
(* texts and worker threads and every bound on batches, retries, faults,   *)
(* deaths, imports and requeues: the types, and that MemoryIndex           *)
(* implements LaggingCopy.                                                 *)
(*                                                                         *)
(* The queue is a sequence of rows, but all that the argument needs of it  *)
(* is the set of debts the rows stand for and that a key names one row.    *)
(* So the lemmas about sequences come first, then the invariant in three   *)
(* layers, each inductive given the ones before it:                        *)
(*   Shape   types, the lock, the roles of the threads, the ledger;        *)
(*   Order   what seqs, late marks and the snapshot of a reconcile mean;   *)
(*   Cover   every memory whose entry is wrong is covered.                 *)
(***************************************************************************)
EXTENDS MemoryIndex, SequenceTheorems, FunctionTheorems, FiniteSetTheorems, TLAPS

(* Repair rows as debts, and what the operators on the queue do to them.   *)

\* What a row stands for, its retry state aside.
Debt(row) == [mem |-> row.mem, kind |-> row.kind, seq |-> row.seq, late |-> row.late]
Debts(rows) == {Debt(rows[i]) : i \in 1..Len(rows)}
Unique(rows) == \A i, j \in 1..Len(rows) : SameRow(rows[i], rows[j]) => i = j

DebtSet == [mem : Mem \union {All}, kind : Kinds, seq : Nat, late : BOOLEAN]

LEMMA DebtFields ==
    ASSUME NEW row \in Row
    PROVE  /\ Debt(row) \in DebtSet
           /\ Debt(row).mem = row.mem /\ Debt(row).kind = row.kind
           /\ Debt(row).seq = row.seq /\ Debt(row).late = row.late
BY DEF Debt, DebtSet, Row

LEMMA DebtsType ==
    ASSUME NEW rows \in Seq(Row)
    PROVE  Debts(rows) \subseteq DebtSet
<1>1. \A i \in 1..Len(rows) : rows[i] \in Row
  BY ElementOfSeq
<1> QED BY <1>1, DebtFields DEF Debts

\* INSERT OR IGNORE adds the row, or finds one with its key.
LEMMA PersistFacts ==
    ASSUME NEW rows \in Seq(Row), Unique(rows), NEW row \in Row
    PROVE  /\ Persist(rows, row) \in Seq(Row)
           /\ Unique(Persist(rows, row))
           /\ \/ /\ Persist(rows, row) = rows
                 /\ \E d \in Debts(rows) : d.mem = row.mem /\ d.seq = row.seq
              \/ /\ Debts(Persist(rows, row)) = Debts(rows) \union {Debt(row)}
                 /\ \A d \in Debts(rows) : ~(d.mem = row.mem /\ d.seq = row.seq)
<1> DEFINE there == \E i \in 1..Len(rows) : rows[i].mem = row.mem /\ rows[i].seq = row.seq
<1>0. \A i \in 1..Len(rows) : rows[i] \in Row /\ Debt(rows[i]).mem = rows[i].mem /\ Debt(rows[i]).seq = rows[i].seq
  BY ElementOfSeq, DebtFields
<1>1. CASE there
  <2>1. Persist(rows, row) = rows
    BY <1>1 DEF Persist
  <2>2. \E d \in Debts(rows) : d.mem = row.mem /\ d.seq = row.seq
    BY <1>0, <1>1 DEF Debts
  <2> QED BY <2>1, <2>2
<1>2. CASE ~there
  <2> DEFINE new == Append(rows, row)
  <2>1. Persist(rows, row) = new
    BY <1>2 DEF Persist
  <2>2. /\ new \in Seq(Row)
        /\ Len(new) = Len(rows) + 1
        /\ \A i \in 1..Len(rows) : new[i] = rows[i]
        /\ new[Len(rows) + 1] = row
    BY AppendProperties
  <2>3. Len(rows) \in Nat
    BY LenProperties
  <2>4. 1..Len(new) = (1..Len(rows)) \union {Len(rows) + 1}
    BY <2>2, <2>3
  <2> HIDE DEF new
  <2>5. Unique(new)
    <3> SUFFICES ASSUME NEW i \in 1..Len(new), NEW j \in 1..Len(new),
                        SameRow(new[i], new[j])
                 PROVE  i = j
      BY DEF Unique
    <3>1. CASE i \in 1..Len(rows) /\ j \in 1..Len(rows)
      BY <2>2, <3>1 DEF Unique
    <3>2. CASE i \notin 1..Len(rows) /\ j \notin 1..Len(rows)
      BY <2>4, <3>2
    <3>3. CASE i \in 1..Len(rows) /\ j \notin 1..Len(rows)
      BY <1>2, <2>2, <2>4, <3>3 DEF SameRow
    <3>4. CASE i \notin 1..Len(rows) /\ j \in 1..Len(rows)
      BY <1>2, <2>2, <2>4, <3>4 DEF SameRow
    <3> QED BY <3>1, <3>2, <3>3, <3>4
  <2>6. Debts(new) = Debts(rows) \union {Debt(row)}
    BY <2>2, <2>4 DEF Debts
  <2>7. \A d \in Debts(rows) : ~(d.mem = row.mem /\ d.seq = row.seq)
    BY <1>0, <1>2 DEF Debts
  <2> QED BY <2>1, <2>2, <2>5, <2>6, <2>7
<1> QED BY <1>1, <1>2

\* A set of naturals that is not empty has a least member.
LEMMA LeastOf ==
    ASSUME NEW S \in SUBSET Nat, S # {}
    PROVE  \E x \in S : \A y \in S : x <= y
<1>1. IsWellFoundedOn({p \in Nat \X Nat : p[1] < p[2]}, Nat)
  BY NatLessThanWellFounded, Zenon DEF OpToRel
<1>2. PICK x \in S : \A y \in S : ~(<<y, x>> \in {p \in Nat \X Nat : p[1] < p[2]})
  BY <1>1, WFMin
<1>3. \A y \in S : ~(y < x)
  BY <1>2
<1> QED BY <1>3

\* DELETE by the unique key takes one row out, and no other.
Delete(rows, row) == RemoveFirstMatch(rows, LAMBDA r : SameRow(r, row))

LEMMA DeleteFacts ==
    ASSUME NEW rows \in Seq(Row), Unique(rows), NEW row,
           NEW new, new = Delete(rows, row)
    PROVE  /\ new \in Seq(Row)
           /\ Unique(new)
           /\ Debts(new) \subseteq Debts(rows)
           /\ \A d \in Debts(rows) : d \in Debts(new) \/ (d.mem = row.mem /\ d.seq = row.seq)
<1> DEFINE same == {i \in 1..Len(rows) : SameRow(rows[i], row)}
<1>0. Len(rows) \in Nat /\ \A i \in 1..Len(rows) : rows[i] \in Row
  BY LenProperties, ElementOfSeq
<1>1. CASE same = {}
  <2>1. new = rows
    BY <1>1 DEF Delete, RemoveFirstMatch
  <2> QED BY <2>1
<1>2. CASE same # {}
  <2>0. same \in SUBSET Nat
    BY <1>0
  <2>1. PICK k \in same : \A y \in same : k <= y
    <3> HIDE DEF same
    <3> QED BY <1>2, <2>0, LeastOf
  <2>2. k = Min(same)
    BY <2>1, <1>0 DEF Min
  <2>3. new = SubSeq(rows, 1, k - 1) \o SubSeq(rows, k + 1, Len(rows))
    BY <1>2, <2>2 DEF Delete, RemoveFirstMatch, SelectInSeq, RemoveAt
  <2>4. k \in 1..Len(rows) /\ SameRow(rows[k], row)
    BY <2>1
  <2> HIDE DEF same
  <2>5. /\ new \in Seq(Row)
        /\ Len(new) = Len(rows) - 1
        /\ \A i \in 1..(Len(rows) - 1) : new[i] = IF i < k THEN rows[i] ELSE rows[i + 1]
    <3> DEFINE before == SubSeq(rows, 1, k - 1)
               after  == SubSeq(rows, k + 1, Len(rows))
    <3>1. /\ before \in Seq(Row) /\ Len(before) = k - 1
          /\ \A i \in 1..(k - 1) : before[i] = rows[i]
      BY <1>0, <2>4, SubSeqProperties
    <3>2. /\ after \in Seq(Row) /\ Len(after) = Len(rows) - k
          /\ \A i \in 1..(Len(rows) - k) : after[i] = rows[k + i]
      BY <1>0, <2>4, SubSeqProperties
    <3>3. new = before \o after
      BY <2>3
    <3> HIDE DEF before, after
    <3>4. /\ new \in Seq(Row) /\ Len(new) = Len(before) + Len(after)
          /\ \A i \in 1..Len(before) + Len(after) :
                new[i] = IF i <= Len(before) THEN before[i] ELSE after[i - Len(before)]
      <4>1. before \in Seq(Row) /\ after \in Seq(Row)
        BY <3>1, <3>2
      <4> QED BY <3>3, <4>1, ConcatProperties, ZenonT(60)
    <3>5. Len(before) + Len(after) = Len(rows) - 1
      BY <1>0, <2>4, <3>1, <3>2
    <3>7. \A i \in 1..(Len(rows) - 1) :
             new[i] = IF i <= k - 1 THEN before[i] ELSE after[i - (k - 1)]
      <4>1. Len(before) = k - 1
        BY <3>1
      <4>2. \A i \in 1..Len(before) + Len(after) :
               new[i] = IF i <= Len(before) THEN before[i] ELSE after[i - Len(before)]
        BY <3>4
      <4> QED BY <3>5, <4>1, <4>2, Zenon
    <3>8. k \in Nat \ {0} /\ Len(rows) \in Nat
      BY <1>0, <2>4
    <3>6. ASSUME NEW i \in 1..(Len(rows) - 1)
          PROVE  new[i] = IF i < k THEN rows[i] ELSE rows[i + 1]
      <4>1. CASE i < k
        <5>1. i \in 1..(k - 1)
          BY <1>0, <2>4, <4>1
        <5>2. new[i] = before[i]
          <6>1. i <= k - 1
            BY <3>8, <5>1
          <6> QED BY <3>7, <6>1
        <5> QED BY <3>1, <4>1, <5>1, <5>2
      <4>2. CASE i >= k
        <5>1. i - (k - 1) \in 1..(Len(rows) - k) /\ k + (i - (k - 1)) = i + 1
          BY <1>0, <2>4, <4>2
        <5>2. new[i] = after[i - (k - 1)]
          <6>1. ~(i <= k - 1)
            BY <3>8, <4>2
          <6> QED BY <3>7, <6>1
        <5>3. after[i - (k - 1)] = rows[k + (i - (k - 1))]
          BY <3>2, <5>1
        <5> QED BY <1>0, <2>4, <4>2, <5>1, <5>2, <5>3
      <4> QED BY <1>0, <2>4, <4>1, <4>2
    <3> QED BY <3>4, <3>5, <3>6
  <2> DEFINE from(i) == IF i < k THEN i ELSE i + 1
  <2>6. ASSUME NEW i \in 1..Len(new)
        PROVE  from(i) \in 1..Len(rows) /\ new[i] = rows[from(i)]
    <3>1. i \in 1..(Len(rows) - 1) /\ i \in Int /\ k \in Int
      BY <1>0, <2>4, <2>5
    <3>2. from(i) \in 1..Len(rows)
      BY <1>0, <2>4, <3>1
    <3>3. new[i] = rows[from(i)]
      BY <2>5, <3>1
    <3> QED BY <3>2, <3>3
  <2>7. Unique(new)
    <3>1. \A i, j \in 1..Len(new) : from(i) = from(j) => i = j
      BY <1>0, <2>4, <2>5
    <3> HIDE DEF from
    <3>2. \A i, j \in 1..Len(new) : SameRow(new[i], new[j]) => from(i) = from(j)
      BY <2>6 DEF Unique
    <3> QED BY <3>1, <3>2 DEF Unique
  <2>8. Debts(new) \subseteq Debts(rows)
    <3> HIDE DEF from
    <3> QED BY <2>6 DEF Debts
  <2>9. ASSUME NEW i \in 1..Len(rows), i # k
        PROVE  Debt(rows[i]) \in Debts(new)
    <3>1. CASE i < k
      <4>1. i \in 1..Len(new) /\ new[i] = rows[i]
        <5>1. i \in 1..(Len(rows) - 1) /\ 1..Len(new) = 1..(Len(rows) - 1)
          BY <1>0, <2>4, <2>5, <3>1
        <5> QED BY <2>5, <3>1, <5>1
      <4> QED BY <4>1 DEF Debts
    <3>2. CASE i > k
      <4>1. i - 1 \in 1..Len(new) /\ new[i - 1] = rows[i]
        <5>1. i - 1 \in 1..(Len(rows) - 1) /\ 1..Len(new) = 1..(Len(rows) - 1)
          BY <1>0, <2>4, <2>5, <3>2
        <5>2. ~(i - 1 < k) /\ (i - 1) + 1 = i
          BY <1>0, <2>4, <3>2
        <5> QED BY <2>5, <5>1, <5>2
      <4> QED BY <4>1 DEF Debts
    <3> QED BY <2>4, <2>9, <3>1, <3>2
  <2>10. Debt(rows[k]).mem = row.mem /\ Debt(rows[k]).seq = row.seq
    BY <2>4 DEF SameRow, Debt
  <2> QED BY <2>5, <2>7, <2>8, <2>9, <2>10 DEF Debts
<1> QED BY <1>1, <1>2

\* Rows whose retry state alone was written: the same debts at the same places.
LEMMA RewriteFacts ==
    ASSUME NEW rows \in Seq(Row), Unique(rows),
           NEW new, new \in [1..Len(rows) -> Row],
           \A i \in 1..Len(rows) : Debt(new[i]) = Debt(rows[i])
    PROVE  /\ new \in Seq(Row)
           /\ Unique(new)
           /\ Debts(new) = Debts(rows)
<1>1. Len(rows) \in Nat
  BY LenProperties
<1>2. new \in Seq(Row)
  BY <1>1, SeqDef
<1>3. Len(new) = Len(rows)
  BY <1>1, <1>2, LenProperties
<1>4. \A i \in 1..Len(rows) : new[i].mem = rows[i].mem /\ new[i].seq = rows[i].seq
  BY DEF Debt
<1>5. Unique(new)
  BY <1>3, <1>4 DEF Unique, SameRow
<1> QED BY <1>2, <1>3, <1>5 DEF Debts

\* A finite set as a sequence without repetitions.
LEMMA SetToSeqFacts ==
    ASSUME NEW S, IsFiniteSet(S)
    PROVE  /\ SetToSeq(S) \in Seq(S)
           /\ \A i, j \in 1..Len(SetToSeq(S)) : SetToSeq(S)[i] = SetToSeq(S)[j] => i = j
<1> DEFINE n == Cardinality(S)
           s == SetToSeq(S)
<1>1. n \in Nat /\ ExistsBijection(1..n, S)
  BY FS_CardinalityType
<1>2. \E f \in [1..n -> S] : IsInjective(f)
  BY <1>1, Zenon DEF ExistsBijection, Bijection, Injection
<1>3. s \in [1..n -> S] /\ IsInjective(s)
  BY <1>2, Zenon DEF SetToSeq
<1> HIDE DEF n, s
<1>4. s \in Seq(S)
  BY <1>1, <1>3, SeqDef
<1>5. Len(s) = n
  BY <1>1, <1>3, <1>4, LenProperties
<1>6. \A i, j \in 1..n : s[i] = s[j] => i = j
  BY <1>3 DEF IsInjective
<1>7. s \in Seq(S) /\ \A i, j \in 1..Len(s) : s[i] = s[j] => i = j
  BY <1>4, <1>5, <1>6
<1> QED BY <1>7 DEF s

\* The rows a failed listing adds are about memories without such a row.
LEMMA PersistAllFacts ==
    ASSUME NEW rows \in Seq(Row), Unique(rows),
           NEW mems \in SUBSET Mem, IsFiniteSet(mems),
           NEW new, new = PersistAll(rows, mems)
    PROVE  /\ new \in Seq(Row)
           /\ Unique(new)
           /\ Debts(rows) \subseteq Debts(new)
           /\ \A d \in Debts(new) :
                 d \in Debts(rows) \/ /\ d.mem \in mems /\ d.kind = "MemoryDerived"
                                      /\ d.seq = 0 /\ ~d.late
<1> DEFINE picked == {m \in mems : ~\E i \in 1..Len(rows) : rows[i].mem = m /\ rows[i].seq = 0}
           row(m) == NewRow(m, "MemoryDerived", 0, FALSE)
           more   == {row(m) : m \in picked}
           tail   == SetToSeq(more)
<1>1. \A m \in mems : /\ row(m) \in Row /\ row(m).mem = m /\ row(m).seq = 0
                      /\ row(m).kind = "MemoryDerived" /\ row(m).late = FALSE
  BY DEF NewRow, Row, Kinds
<1>2. IsFiniteSet(more)
  <2>1. IsFiniteSet(picked)
    BY FS_Subset
  <2> DEFINE f == [m \in picked |-> row(m)]
  <2>2. f \in Surjection(picked, more)
    BY DEF Surjection
  <2> HIDE DEF f, picked, more, row
  <2> QED BY <2>1, <2>2, FS_Surjection
<1>3. /\ tail \in Seq(more)
      /\ \A i, j \in 1..Len(tail) : tail[i] = tail[j] => i = j
  BY <1>2, SetToSeqFacts
<1>4. new = rows \o tail
  BY DEF PersistAll
<1>5. more \subseteq Row
  BY <1>1
<1>6. ASSUME NEW r \in more
      PROVE  /\ r.mem \in mems /\ r.seq = 0 /\ r.kind = "MemoryDerived" /\ ~r.late
             /\ ~\E i \in 1..Len(rows) : rows[i].mem = r.mem /\ rows[i].seq = r.seq
             /\ r = row(r.mem)
  <2>1. PICK m \in picked : r = row(m)
    OBVIOUS
  <2>2. m \in mems /\ ~\E i \in 1..Len(rows) : rows[i].mem = m /\ rows[i].seq = 0
    OBVIOUS
  <2> HIDE DEF row
  <2> QED BY <1>1, <2>1, <2>2
<1>7. \A r, q \in more : r.mem = q.mem => r = q
  <2> HIDE DEF more, row
  <2> QED BY <1>6
<1> HIDE DEF more, tail
<1>8. tail \in Seq(Row)
  BY <1>3, <1>5, SeqMonotonic
<1>9. /\ new \in Seq(Row) /\ Len(new) = Len(rows) + Len(tail)
      /\ \A i \in 1..Len(rows) + Len(tail) :
            new[i] = IF i <= Len(rows) THEN rows[i] ELSE tail[i - Len(rows)]
  BY <1>4, <1>8, ConcatProperties
<1>10. Len(rows) \in Nat /\ Len(tail) \in Nat
  BY <1>8, LenProperties
<1>11. \A i \in 1..Len(rows) : i \in 1..Len(new) /\ new[i] = rows[i]
  BY <1>9, <1>10
<1>12. \A i \in 1..Len(new) :
         i \notin 1..Len(rows) => /\ i - Len(rows) \in 1..Len(tail)
                                  /\ new[i] = tail[i - Len(rows)]
  BY <1>9, <1>10
<1>13. \A i \in 1..Len(tail) : tail[i] \in more
  BY <1>3, ElementOfSeq
<1>17. \A i \in 1..Len(new) : i \notin 1..Len(rows) => new[i] \in more
  BY <1>12, <1>13
<1>14. Unique(new)
  <2> SUFFICES ASSUME NEW i \in 1..Len(new), NEW j \in 1..Len(new),
                      SameRow(new[i], new[j])
               PROVE  i = j
    BY DEF Unique
  <2>1. CASE i \in 1..Len(rows) /\ j \in 1..Len(rows)
    BY <1>11, <2>1 DEF Unique
  <2>2. CASE i \notin 1..Len(rows) /\ j \notin 1..Len(rows)
    <3>1. tail[i - Len(rows)] = tail[j - Len(rows)]
      BY <1>7, <1>12, <1>13, <2>2 DEF SameRow
    <3>2. i - Len(rows) = j - Len(rows)
      BY <1>3, <1>12, <2>2, <3>1
    <3> QED BY <1>10, <3>2
  <2>3. CASE i \in 1..Len(rows) /\ j \notin 1..Len(rows)
    <3>1. new[j] \in more /\ new[i] = rows[i]
      BY <1>11, <1>17, <2>3, Zenon
    <3>2. ~\E k \in 1..Len(rows) : rows[k].mem = new[j].mem /\ rows[k].seq = new[j].seq
      BY <1>6, <3>1
    <3>3. rows[i].mem = new[j].mem /\ rows[i].seq = new[j].seq
      BY <3>1 DEF SameRow
    <3> QED BY <2>3, <3>2, <3>3
  <2>4. CASE i \notin 1..Len(rows) /\ j \in 1..Len(rows)
    <3>1. new[i] \in more /\ new[j] = rows[j]
      BY <1>11, <1>17, <2>4, Zenon
    <3>2. ~\E k \in 1..Len(rows) : rows[k].mem = new[i].mem /\ rows[k].seq = new[i].seq
      BY <1>6, <3>1
    <3>3. rows[j].mem = new[i].mem /\ rows[j].seq = new[i].seq
      BY <3>1 DEF SameRow
    <3> QED BY <2>4, <3>2, <3>3
  <2> QED BY <2>1, <2>2, <2>3, <2>4
<1>15. Debts(rows) \subseteq Debts(new)
  BY <1>11 DEF Debts
<1>16. ASSUME NEW d \in Debts(new)
       PROVE  d \in Debts(rows) \/ /\ d.mem \in mems /\ d.kind = "MemoryDerived"
                                   /\ d.seq = 0 /\ ~d.late
  <2>1. PICK i \in 1..Len(new) : d = Debt(new[i])
    BY DEF Debts
  <2>2. CASE i \in 1..Len(rows)
    BY <1>11, <2>1, <2>2 DEF Debts
  <2>3. CASE i \notin 1..Len(rows)
    <3>2. new[i] \in more
      BY <1>17, <2>3
    <3>3. /\ d.mem = new[i].mem /\ d.kind = new[i].kind
          /\ d.seq = new[i].seq /\ d.late = new[i].late
      BY <2>1 DEF Debt
    <3> QED BY <1>6, <3>2, <3>3
  <2> QED BY <2>2, <2>3
<1> QED BY <1>9, <1>14, <1>15, <1>16

\* A batch read from the rows, each at a place of its own.
LEMMA BatchFacts ==
    ASSUME NEW rows \in Seq(Row), Unique(rows),
           NEW n \in Nat \ {0}, NEW order \in [1..n -> 1..Len(rows)],
           \A j, k \in 1..n : j < k => order[j] < order[k],
           NEW new, new = [k \in 1..n |-> rows[order[k]]]
    PROVE  /\ new \in Seq(Row) /\ new # <<>>
           /\ Unique(new)
           /\ Debts(new) \subseteq Debts(rows)
<1>1. Len(rows) \in Nat /\ \A i \in 1..Len(rows) : rows[i] \in Row
  BY LenProperties, ElementOfSeq
<1>2. new \in [1..n -> Row]
  BY <1>1
<1>3. new \in Seq(Row)
  BY <1>2, SeqDef
<1>4. Len(new) = n
  BY <1>2, <1>3, LenProperties
<1>5. \A j, k \in 1..n : order[j] = order[k] => j = k
  <2> SUFFICES ASSUME NEW j \in 1..n, NEW k \in 1..n, order[j] = order[k] PROVE j = k
    OBVIOUS
  <2>1. order[j] \in Int
    BY <1>1
  <2>2. ~(j < k) /\ ~(k < j)
    BY <2>1
  <2> QED BY <2>2
<1>6. Unique(new)
  BY <1>4, <1>5, SMTT(30) DEF Unique
<1>7. Debts(new) \subseteq Debts(rows)
  BY <1>4 DEF Debts
<1>8. new # <<>>
  BY <1>4, EmptySeq
<1> QED BY <1>3, <1>6, <1>7, <1>8

\* The first row of a batch, and the rest of it.
LEMMA HeadFacts ==
    ASSUME NEW rows \in Seq(Row), Unique(rows), rows # <<>>
    PROVE  /\ Head(rows) \in Row
           /\ Debt(Head(rows)) \in Debts(rows)
           /\ Tail(rows) \in Seq(Row)
           /\ Unique(Tail(rows))
           /\ Debts(Tail(rows)) \subseteq Debts(rows)
           /\ \A d \in Debts(Tail(rows)) :
                 ~(d.mem = Head(rows).mem /\ d.seq = Head(rows).seq)
<1> DEFINE h == Head(rows)
           new == Tail(rows)
<1>1. /\ h \in Row /\ h = rows[1] /\ new \in Seq(Row)
      /\ Len(new) = Len(rows) - 1
      /\ \A i \in 1..Len(new) : new[i] = rows[i + 1]
  BY HeadTailProperties
<1>2. Len(rows) \in Nat \ {0}
  BY EmptySeq
<1> HIDE DEF h, new
<1>3. 1 \in 1..Len(rows) /\ \A i \in 1..Len(new) : i + 1 \in 1..Len(rows) /\ i + 1 # 1
  BY <1>1, <1>2
<1>4. Unique(new)
  <2> SUFFICES ASSUME NEW i \in 1..Len(new), NEW j \in 1..Len(new),
                      SameRow(new[i], new[j])
               PROVE  i = j
    BY DEF Unique
  <2>1. i + 1 = j + 1
    BY <1>1, <1>3 DEF Unique
  <2> QED BY <2>1
<1>5. Debts(new) \subseteq Debts(rows)
  BY <1>1, <1>3 DEF Debts
<1>6. Debt(h) \in Debts(rows)
  BY <1>1, <1>3 DEF Debts
<1>7. ASSUME NEW d \in Debts(new)
      PROVE  ~(d.mem = h.mem /\ d.seq = h.seq)
  <2>1. PICK i \in 1..Len(new) : d = Debt(new[i])
    BY DEF Debts
  <2>2. d.mem = rows[i + 1].mem /\ d.seq = rows[i + 1].seq
    BY <1>1, <2>1 DEF Debt
  <2>3. ~SameRow(rows[i + 1], rows[1])
    BY <1>3 DEF Unique
  <2> QED BY <1>1, <2>2, <2>3 DEF SameRow
<1> QED BY <1>1, <1>4, <1>5, <1>6, <1>7 DEF h, new
----------------------------------------------------------------------------
(* Shape: the writers and their syncs.                                     *)

\* The thread has committed and has yet to sync or to queue.
Live(t) == pc[t] \in {"sync", "queue"}
HasEvent(t) == Live(t) \/ pc[t] = "checked"
Draining == {"drain", "done", "failed", "list", "reconcile"}

\* memory_index_operation_lock.
Mutex == \A t, u \in Thread : pc[t] \in Locked /\ pc[u] \in Locked => t = u
\* Who does what: the loop writes, workers drain and import.
Roles ==
    /\ pc[Loop] \in {"idle", "checked", "sync", "queue"}
    /\ \A w \in Worker : pc[w] # "checked"
    /\ batch # <<>> => \E w \in Worker : pc[w] \in Draining
    /\ \A w \in Worker : pc[w] \in {"done", "failed"} => batch # <<>>
    /\ todo # {} => \E w \in Worker : pc[w] = "reconcile"
    /\ \A t \in Thread : HasEvent(t) => ev[t].mem \in Mem
\* The full reconcile is the one row that is about no memory in particular.
ProperKind(kind, m) == (kind = "MemoryIndexReconcile") = (m = All)

\* A key names one row, and what a batch holds is still in the queue.
Ledger ==
    /\ Unique(repairs) /\ Unique(batch)
    /\ Debts(batch) \subseteq Debts(repairs)
    /\ \A d \in Debts(repairs) : ProperKind(d.kind, d.mem)
\* Only finitely many memories exist at a time: SetToSeq needs it.
Stored(content) == IsFiniteSet({m \in Mem : content[m] # Gone})
Finite == Stored(table) /\ Stored(backup.table)

Shape == TypeOK /\ Mutex /\ Roles /\ Ledger /\ Finite

LEMMA Values ==
    /\ Thread = Worker \union {Loop} /\ Loop \notin Worker
    /\ All \notin Mem /\ Gone \notin Text
    /\ Entry = Text \union {Gone}
    /\ NoEvent.mem = All
    /\ NoEvent \in Event
BY MemoryIndexAssumption DEF Thread, Entry, NoEvent, Event

LEMMA InitShape == Init => Shape
<1> SUFFICES ASSUME Init PROVE Shape
  OBVIOUS
<1>1. TypeOK
  BY Values DEF Init, TypeOK, Nothing, NoBackup, Places, Event, Spent
<1>2. Mutex /\ Roles
  BY Values DEF Init, Mutex, Roles, Locked, Draining, HasEvent, Live
<1>3. Ledger
  BY DEF Init, Ledger, Unique, Debts
<1>4. Finite
  <2>1. {m \in Mem : Nothing[m] # Gone} = {}
    BY DEF Nothing
  <2>2. table = Nothing /\ backup.table = Nothing
    BY DEF Init, NoBackup
  <2> QED BY <2>1, <2>2, FS_EmptySet DEF Finite, Stored
<1> QED BY <1>1, <1>2, <1>3, <1>4 DEF Shape

\* A thread that moves into the lock finds it free or holds it already.
LEMMA MutexKept ==
    ASSUME TypeOK, Mutex, NEW t \in Thread, NEW place, Goto(t, place),
           pc[t] \in Locked \/ place \notin Locked \/ LockFree
    PROVE  Mutex'
<1>1. \A u \in Thread : u # t => pc'[u] = pc[u]
  BY DEF TypeOK, Goto
<1>2. pc'[t] = place
  BY DEF TypeOK, Goto
<1> SUFFICES ASSUME NEW u \in Thread, NEW v \in Thread,
                    pc'[u] \in Locked, pc'[v] \in Locked
             PROVE  u = v
  BY DEF Mutex
<1>3. CASE u # t /\ v # t
  BY <1>1, <1>3 DEF Mutex
<1>4. CASE u = t \/ v = t
  BY <1>1, <1>2, <1>4 DEF Mutex, LockFree
<1> QED BY <1>3, <1>4

LEMMA StoredKept ==
    ASSUME NEW old, NEW new, Stored(old), NEW m \in Mem,
           \A other \in Mem \ {m} : new[other] = old[other]
    PROVE  Stored(new)
<1> DEFINE before == {k \in Mem : old[k] # Gone}
           after  == {k \in Mem : new[k] # Gone}
<1>1. IsFiniteSet(before \union {m})
  BY FS_AddElement DEF Stored
<1>2. after \subseteq before \union {m}
  OBVIOUS
<1> QED BY <1>1, <1>2, FS_Subset DEF Stored

LEMMA Moved ==
    ASSUME TypeOK, NEW t \in Thread, NEW place \in Places, Goto(t, place)
    PROVE  /\ pc' \in [Thread -> Places]
           /\ pc'[t] = place
           /\ \A u \in Thread : u # t => pc'[u] = pc[u]
BY DEF TypeOK, Goto

LEMMA DeriveShape ==
    ASSUME Shape, NEW w \in Worker, NEW m \in Mem, NEW text \in Text, Derive(w, m, text)
    PROVE  Shape'
<1> DEFINE e == [mem |-> m, text |-> text, seq |-> seq + 1, late |-> FALSE]
<1>1. TypeOK
  BY DEF Shape
<1>2. /\ pc' \in [Thread -> Places] /\ pc'[w] = "sync" /\ pc[w] = "idle"
      /\ \A u \in Thread : u # w => pc'[u] = pc[u]
  BY <1>1, Values, Moved DEF Derive, Places
<1>3. e \in Event /\ e.mem = m
  BY <1>1, Values DEF Event, TypeOK
<1>4. ev' = [ev EXCEPT ![w] = e]
  BY DEF Derive
<1> HIDE DEF e
<1>5. ev' \in [Thread -> Event] /\ ev'[w] = e /\ \A u \in Thread : u # w => ev'[u] = ev[u]
  BY <1>1, <1>3, <1>4, Values DEF TypeOK
<1>6. TypeOK'
  BY <1>1, <1>2, <1>5, Values DEF TypeOK, Derive
<1>7. Mutex'
  BY <1>1, Values, MutexKept DEF Shape, Derive, Locked
<1>8. Roles'
  BY <1>2, <1>3, <1>5, Values DEF Shape, Roles, Derive, HasEvent, Live, Draining
<1>9. Ledger'
  BY DEF Shape, Ledger, Derive
<1>10. Finite'
  <2>1. \A other \in Mem \ {m} : table'[other] = table[other]
    BY <1>1 DEF Derive, TypeOK
  <2>2. Stored(table')
    BY <2>1, StoredKept DEF Shape, Finite
  <2>3. backup' = backup
    BY DEF Derive
  <2> QED BY <2>2, <2>3 DEF Shape, Finite
<1> QED BY <1>6, <1>7, <1>8, <1>9, <1>10 DEF Shape

LEMMA CheckShape ==
    ASSUME Shape, NEW m \in Mem, NEW text \in Entry, Check(m, text)
    PROVE  Shape'
<1> DEFINE e == [mem |-> m, text |-> text, seq |-> 0, late |-> FALSE]
<1>1. TypeOK
  BY DEF Shape
<1>2. /\ pc' \in [Thread -> Places] /\ pc'[Loop] = "checked" /\ pc[Loop] = "idle"
      /\ \A u \in Thread : u # Loop => pc'[u] = pc[u]
  BY <1>1, Values, Moved DEF Check, Places
<1>3. e \in Event /\ e.mem = m
  BY <1>1, Values DEF Event, TypeOK
<1>4. ev' = [ev EXCEPT ![Loop] = e]
  BY DEF Check
<1> HIDE DEF e
<1>5. ev' \in [Thread -> Event] /\ ev'[Loop] = e /\ \A u \in Thread : u # Loop => ev'[u] = ev[u]
  BY <1>1, <1>3, <1>4, Values DEF TypeOK
<1>6. TypeOK'
  BY <1>1, <1>2, <1>5, Values DEF TypeOK, Check, durable
<1>7. Mutex'
  BY <1>1, Values, MutexKept DEF Shape, Check, Locked
<1>8. Roles'
  BY <1>2, <1>3, <1>5, Values DEF Shape, Roles, Check, HasEvent, Live, Draining
<1>9. Ledger' /\ Finite'
  BY DEF Shape, Ledger, Finite, Check, durable
<1> QED BY <1>6, <1>7, <1>8, <1>9 DEF Shape

\* The event of a thread that has one is a proper record.
LEMMA EventOf ==
    ASSUME Shape, NEW t \in Thread, HasEvent(t)
    PROVE  /\ ev[t] \in [mem : Mem, text : Entry, seq : Nat, late : BOOLEAN]
           /\ ev[t].mem \in Mem /\ ev[t].text \in Entry
           /\ ev[t].seq \in Nat /\ ev[t].late \in BOOLEAN
<1>1. ev[t] \in Event /\ ev[t].mem \in Mem
  BY DEF Shape, TypeOK, Roles
<1>2. ev[t] # NoEvent
  BY <1>1, Values
<1> QED BY <1>1, <1>2 DEF Event

LEMMA EventUpdate ==
    ASSUME NEW e \in [mem : Mem, text : Entry, seq : Nat, late : BOOLEAN],
           NEW s \in Nat, NEW b \in BOOLEAN
    PROVE  /\ [e EXCEPT !.seq = s, !.late = b] \in [mem : Mem, text : Entry, seq : Nat, late : BOOLEAN]
           /\ [e EXCEPT !.seq = s, !.late = b].mem = e.mem
           /\ [e EXCEPT !.seq = s, !.late = b].text = e.text
           /\ [e EXCEPT !.seq = s, !.late = b].seq = s
           /\ [e EXCEPT !.seq = s, !.late = b].late = b
OBVIOUS

\* What the loop's event becomes when it is committed.
LEMMA CommitEvent ==
    ASSUME Shape, Commit
    PROVE  LET e == ev'[Loop] IN
           /\ ev' \in [Thread -> Event]
           /\ e.mem = ev[Loop].mem /\ e.text = ev[Loop].text
           /\ e.seq = seq + 1 /\ e.late = (table[ev[Loop].mem] = Gone)
           /\ \A u \in Thread : u # Loop => ev'[u] = ev[u]
<1> DEFINE old  == ev[Loop]
           gone == table[ev[Loop].mem] = Gone
           new  == [old EXCEPT !.seq = seq + 1, !.late = gone]
<1>1. old \in [mem : Mem, text : Entry, seq : Nat, late : BOOLEAN]
  BY EventOf, Values DEF Commit, HasEvent
<1>2. seq \in Nat /\ ev \in [Thread -> Event] /\ Loop \in Thread
  BY Values DEF Shape, TypeOK
<1>3. gone \in BOOLEAN
  OBVIOUS
<1>4. ev' = [ev EXCEPT ![Loop] = new]
  BY <1>2 DEF Commit
<1> HIDE DEF gone, old
<1>5. /\ new \in [mem : Mem, text : Entry, seq : Nat, late : BOOLEAN]
      /\ new.mem = old.mem /\ new.text = old.text /\ new.seq = seq + 1 /\ new.late = gone
  <2>1. seq + 1 \in Nat
    BY <1>2
  <2> QED BY <1>1, <1>3, <2>1, EventUpdate, Zenon
<1> HIDE DEF new
<1>6. new \in Event
  BY <1>5 DEF Event
<1> QED BY <1>2, <1>4, <1>5, <1>6 DEF old, gone

LEMMA CommitShape == Shape /\ Commit => Shape'
<1> SUFFICES ASSUME Shape, Commit PROVE Shape'
  OBVIOUS
<1> DEFINE m == ev[Loop].mem
<1>1. TypeOK
  BY DEF Shape
<1>2. /\ pc' \in [Thread -> Places] /\ pc'[Loop] = "sync" /\ pc[Loop] = "checked"
      /\ \A u \in Thread : u # Loop => pc'[u] = pc[u]
  BY <1>1, Values, Moved DEF Commit, Places
<1>3. m \in Mem /\ ev[Loop].text \in Entry
  BY <1>2, EventOf, Values DEF HasEvent
<1>4. /\ ev' \in [Thread -> Event] /\ ev'[Loop].mem = m
      /\ \A u \in Thread : u # Loop => ev'[u] = ev[u]
  BY CommitEvent
<1>5. /\ table' \in [Mem -> Entry]
      /\ \A other \in Mem \ {m} : table'[other] = table[other]
  BY <1>1, <1>3, Values DEF Commit, TypeOK
<1>6. TypeOK'
  BY <1>1, <1>2, <1>4, <1>5, Values DEF TypeOK, Commit
<1>7. Mutex'
  BY <1>1, Values, MutexKept DEF Shape, Commit, Locked
<1>8. Roles'
  BY <1>2, <1>3, <1>4, Values DEF Shape, Roles, Commit, HasEvent, Live, Draining
<1>9. Ledger'
  BY DEF Shape, Ledger, Commit
<1>10. Finite'
  <2>1. Stored(table')
    BY <1>3, <1>5, StoredKept DEF Shape, Finite
  <2>2. backup' = backup
    BY DEF Commit
  <2> QED BY <2>1, <2>2 DEF Shape, Finite
<1> QED BY <1>6, <1>7, <1>8, <1>9, <1>10 DEF Shape

\* Overtaken changes no more than the late mark of threads at sync.
LEMMA OvertakenFacts ==
    ASSUME Shape, NEW t \in Thread
    PROVE  /\ Overtaken(t) \in [Thread -> Event]
           /\ \A u \in Thread :
                 LET new == Overtaken(t)[u] IN
                 /\ new.mem = ev[u].mem /\ new.text = ev[u].text /\ new.seq = ev[u].seq
                 /\ ~new.late => ~ev[u].late
                 /\ u = t \/ pc[u] # "sync" => new = ev[u]
                 /\ /\ u # t /\ pc[u] = "sync" /\ ~ev[t].late
                    /\ ev[u].mem = ev[t].mem /\ ev[u].seq < ev[t].seq
                    => new.late
                 /\ new.late => \/ ev[u].late
                                \/ /\ ~ev[t].late
                                   /\ ev[u].mem = ev[t].mem /\ ev[u].seq < ev[t].seq
<1> DEFINE late(u) == /\ u # t /\ pc[u] = "sync"
                      /\ ~ev[t].late
                      /\ ev[u].mem = ev[t].mem /\ ev[u].seq < ev[t].seq
           marked(u) == [ev[u] EXCEPT !.late = TRUE]
<1>1. ev \in [Thread -> Event]
  BY DEF Shape, TypeOK
<1>2. ASSUME NEW u \in Thread, late(u)
      PROVE  /\ marked(u) \in Event
             /\ marked(u).mem = ev[u].mem /\ marked(u).text = ev[u].text
             /\ marked(u).seq = ev[u].seq /\ marked(u).late = TRUE
  <2>1. ev[u] \in [mem : Mem, text : Entry, seq : Nat, late : BOOLEAN]
    BY <1>2, EventOf DEF HasEvent, Live
  <2> QED BY <2>1 DEF Event
<1>3. Overtaken(t) = [u \in Thread |-> IF late(u) THEN marked(u) ELSE ev[u]]
  BY DEF Overtaken
<1> HIDE DEF marked
<1>4. Overtaken(t) \in [Thread -> Event]
  BY <1>1, <1>2, <1>3
<1>5. ASSUME NEW u \in Thread
      PROVE  /\ Overtaken(t)[u].mem = ev[u].mem /\ Overtaken(t)[u].text = ev[u].text
             /\ Overtaken(t)[u].seq = ev[u].seq
             /\ ~Overtaken(t)[u].late => ~ev[u].late
             /\ u = t \/ pc[u] # "sync" => Overtaken(t)[u] = ev[u]
             /\ late(u) => Overtaken(t)[u].late
             /\ Overtaken(t)[u].late => ev[u].late \/ late(u)
  <2>1. CASE late(u)
    <3>1. Overtaken(t)[u] = marked(u)
      BY <1>3, <2>1
    <3> QED BY <1>2, <2>1, <3>1
  <2>2. CASE ~late(u)
    <3>1. Overtaken(t)[u] = ev[u]
      BY <1>3, <2>2
    <3> QED BY <2>2, <3>1
  <2> QED BY <2>1, <2>2
<1> QED BY <1>4, <1>5

LEMMA SyncOkShape ==
    ASSUME Shape, NEW t \in Thread, SyncOk(t)
    PROVE  Shape'
<1>1. TypeOK
  BY DEF Shape
<1>2. /\ pc' \in [Thread -> Places] /\ pc'[t] = "idle" /\ pc[t] = "sync"
      /\ \A u \in Thread : u # t => pc'[u] = pc[u]
  BY <1>1, Moved DEF SyncOk, Places
<1>3. ev[t].mem \in Mem /\ ev[t].text \in Entry
  BY <1>2, EventOf DEF HasEvent, Live
<1>4. /\ ev' \in [Thread -> Event]
      /\ \A u \in Thread : u # t => ev'[u].mem = ev[u].mem
  <2> DEFINE marked == Overtaken(t)
  <2>1. ev' = [marked EXCEPT ![t] = NoEvent]
    BY DEF SyncOk
  <2>2. marked \in [Thread -> Event] /\ \A u \in Thread : marked[u].mem = ev[u].mem
    BY OvertakenFacts
  <2> HIDE DEF marked
  <2> QED BY <2>1, <2>2, Values
<1>5. TypeOK'
  BY <1>1, <1>2, <1>3, <1>4 DEF TypeOK, SyncOk
<1>6. Mutex'
  BY <1>1, MutexKept DEF Shape, SyncOk, Locked
<1>7. Roles'
  BY <1>2, <1>4, Values DEF Shape, Roles, SyncOk, HasEvent, Live, Draining
<1>8. Ledger' /\ Finite'
  BY DEF Shape, Ledger, Finite, SyncOk
<1> QED BY <1>5, <1>6, <1>7, <1>8 DEF Shape

LEMMA AfterFailureFacts ==
    ASSUME TypeOK, NEW m \in Mem, NEW text \in Entry
    PROVE  AfterFailure(m, text) \subseteq Entry
BY Values DEF TypeOK, AfterFailure

\* A failing index call changes the entry of one memory at most.
LEMMA FailedWrite ==
    ASSUME TypeOK, NEW m \in Mem, NEW text \in Entry,
           \E left \in AfterFailure(m, text) : index' = [index EXCEPT ![m] = left]
    PROVE  /\ index' \in [Mem -> Entry]
           /\ \A other \in Mem \ {m} : index'[other] = index[other]
BY AfterFailureFacts DEF TypeOK

LEMMA Spending ==
    ASSUME TypeOK, NEW what \in Spent, Spend(what)
    PROVE  spent' \in [Spent -> Nat]
BY DEF TypeOK, Spend

LEMMA SyncFailShape ==
    ASSUME Shape, NEW t \in Thread, SyncFail(t)
    PROVE  Shape'
<1>1. TypeOK
  BY DEF Shape
<1>2. /\ pc' \in [Thread -> Places] /\ pc'[t] = "queue" /\ pc[t] = "sync"
      /\ \A u \in Thread : u # t => pc'[u] = pc[u]
  BY <1>1, Moved DEF SyncFail, Places
<1>3. ev[t].mem \in Mem /\ ev[t].text \in Entry
  BY <1>2, EventOf DEF HasEvent, Live
<1>4. /\ ev' \in [Thread -> Event]
      /\ \A u \in Thread : ev'[u].mem = ev[u].mem
  <2>1. ev' = Overtaken(t)
    BY DEF SyncFail
  <2> QED BY <2>1, OvertakenFacts
<1>5. index' \in [Mem -> Entry]
  BY <1>1, <1>3, FailedWrite DEF SyncFail
<1>6. spent' \in [Spent -> Nat]
  BY <1>1, Spending DEF SyncFail, Spent
<1>7. TypeOK'
  BY <1>1, <1>2, <1>3, <1>4, <1>5, <1>6 DEF TypeOK, SyncFail
<1>8. Mutex'
  BY <1>1, MutexKept DEF Shape, SyncFail
<1>9. Roles'
  BY <1>2, <1>3, <1>4, Values DEF Shape, Roles, SyncFail, HasEvent, Live, Draining
<1>10. Ledger' /\ Finite'
  BY DEF Shape, Ledger, Finite, SyncFail
<1> QED BY <1>7, <1>8, <1>9, <1>10 DEF Shape
----------------------------------------------------------------------------
(* Shape: the queue, and the drain that takes the lock.                    *)

LEMMA NewRowFacts ==
    ASSUME NEW m \in Mem \union {All}, NEW kind \in Kinds, NEW s \in Nat, NEW late \in BOOLEAN
    PROVE  /\ NewRow(m, kind, s, late) \in Row
           /\ Debt(NewRow(m, kind, s, late)) =
                 [mem |-> m, kind |-> kind, seq |-> s, late |-> late]
           /\ NewRow(m, kind, s, late).mem = m /\ NewRow(m, kind, s, late).seq = s
BY DEF NewRow, Row, Debt

LEMMA KindFacts ==
    ASSUME NEW text
    PROVE  /\ Kind(text) \in Kinds /\ Kind(text) # "MemoryIndexReconcile"
           /\ (Kind(text) = "MemoryDeleted") = (text = Gone)
           /\ (Kind(text) = "MemoryDerived") = (text # Gone)
BY DEF Kind, Kinds

\* What a persisted row does to the ledger.
LEMMA PersistLedger ==
    ASSUME TypeOK, Ledger,
           NEW m \in Mem \union {All}, NEW kind \in Kinds, NEW s \in Nat, NEW late \in BOOLEAN,
           ProperKind(kind, m)
    PROVE  LET new  == Persist(repairs, NewRow(m, kind, s, late))
               debt == [mem |-> m, kind |-> kind, seq |-> s, late |-> late] IN
           /\ new \in Seq(Row) /\ Unique(new)
           /\ Debts(repairs) \subseteq Debts(new)
           /\ Debts(new) \subseteq Debts(repairs) \union {debt}
           /\ \/ debt \in Debts(new)
              \/ new = repairs /\ \E d \in Debts(repairs) : d.mem = m /\ d.seq = s
           /\ \A d \in Debts(new) : ProperKind(d.kind, d.mem)
<1> DEFINE row  == NewRow(m, kind, s, late)
           new  == Persist(repairs, row)
           debt == [mem |-> m, kind |-> kind, seq |-> s, late |-> late]
<1>1. row \in Row /\ Debt(row) = debt /\ row.mem = m /\ row.seq = s
  BY NewRowFacts
<1>2. debt.kind = kind /\ debt.mem = m
  OBVIOUS
<1> HIDE DEF row, debt
<1>4. repairs \in Seq(Row) /\ Unique(repairs)
  BY DEF TypeOK, Ledger
<1>5. /\ new \in Seq(Row) /\ Unique(new)
      /\ \/ new = repairs /\ \E d \in Debts(repairs) : d.mem = m /\ d.seq = s
         \/ Debts(new) = Debts(repairs) \union {debt}
  BY <1>1, <1>4, PersistFacts
<1> HIDE DEF new
<1>6. /\ Debts(repairs) \subseteq Debts(new)
      /\ Debts(new) \subseteq Debts(repairs) \union {debt}
      /\ \/ debt \in Debts(new)
         \/ new = repairs /\ \E d \in Debts(repairs) : d.mem = m /\ d.seq = s
  BY <1>5
<1>7. \A d \in Debts(new) : ProperKind(d.kind, d.mem)
  BY <1>2, <1>6 DEF Ledger
<1> QED BY <1>5, <1>6, <1>7 DEF debt, new, row

LEMMA QueueShape ==
    ASSUME Shape, NEW t \in Thread, Queue(t)
    PROVE  Shape'
<1>1. TypeOK /\ Ledger
  BY DEF Shape
<1>2. /\ pc' \in [Thread -> Places] /\ pc'[t] = "idle" /\ pc[t] = "queue"
      /\ \A u \in Thread : u # t => pc'[u] = pc[u]
  BY <1>1, Moved DEF Queue, Places
<1>3. ev[t].mem \in Mem /\ ev[t].seq \in Nat /\ ev[t].late \in BOOLEAN
  BY <1>2, EventOf DEF HasEvent, Live
<1>4. ev' \in [Thread -> Event] /\ \A u \in Thread : u # t => ev'[u] = ev[u]
  BY <1>1, Values DEF Queue, TypeOK
<1>5. /\ repairs' \in Seq(Row) /\ Unique(repairs')
      /\ Debts(repairs) \subseteq Debts(repairs')
      /\ \A d \in Debts(repairs') : ProperKind(d.kind, d.mem)
  <2>1. CASE repairs' = repairs
    BY <1>1, <2>1 DEF TypeOK, Ledger
  <2>2. CASE repairs' = Persist(repairs, NewRow(ev[t].mem, Kind(ev[t].text), ev[t].seq, ev[t].late))
    <3>2. Kind(ev[t].text) \in Kinds /\ Kind(ev[t].text) # "MemoryIndexReconcile"
      BY KindFacts
    <3>1. /\ ev[t].mem \in Mem \union {All} /\ Kind(ev[t].text) \in Kinds
          /\ ProperKind(Kind(ev[t].text), ev[t].mem)
      BY <1>3, <3>2, Values DEF ProperKind
    <3>3. PICK m \in Mem \union {All}, kind \in Kinds, s \in Nat, late \in BOOLEAN :
            /\ ProperKind(kind, m)
            /\ repairs' = Persist(repairs, NewRow(m, kind, s, late))
      BY <1>3, <2>2, <3>1
    <3> QED BY <1>1, <3>3, PersistLedger
  <2> QED BY <2>1, <2>2 DEF Queue
<1>6. spent' \in [Spent -> Nat]
  BY <1>1, Spending DEF Queue, Spent, TypeOK
<1>7. lost' \subseteq Mem
  BY <1>1, <1>3 DEF Queue, TypeOK
<1>8. TypeOK'
  BY <1>1, <1>2, <1>4, <1>5, <1>6, <1>7 DEF TypeOK, Queue
<1>9. Mutex'
  BY <1>1, MutexKept DEF Shape, Queue, Locked
<1>10. Roles'
  BY <1>2, <1>4, Values DEF Shape, Roles, Queue, HasEvent, Live, Draining
<1>11. Ledger'
  <2>1. batch' = batch
    BY DEF Queue
  <2> QED BY <1>1, <1>5, <2>1 DEF Ledger
<1>12. Finite'
  BY DEF Shape, Finite, Queue
<1> QED BY <1>8, <1>9, <1>10, <1>11, <1>12 DEF Shape

\* Nobody holds the lock: no batch is open, no reconcile under way.
LEMMA FreeLock ==
    ASSUME Shape, LockFree
    PROVE  batch = <<>> /\ todo = {}
BY Values DEF Shape, Roles, LockFree, Draining, Locked

\* What the holder of the lock excludes.
LEMMA Alone ==
    ASSUME Shape, NEW t \in Thread, pc[t] \in Locked
    PROVE  \A u \in Thread : u # t => pc[u] \notin Locked
BY DEF Shape, Mutex

LEMMA BatchRead ==
    ASSUME Shape, NEW w \in Worker, Drain(w)
    PROVE  /\ batch' \in Seq(Row) /\ batch' # <<>> /\ Unique(batch')
           /\ Debts(batch') \subseteq Debts(repairs)
<1>1. repairs \in Seq(Row) /\ Unique(repairs) /\ MaxBatch \in Nat \ {0}
  BY MemoryIndexAssumption DEF Shape, TypeOK, Ledger
<1> DEFINE pending == {i \in 1..Len(repairs) : Alive(repairs[i])}
<1>4. PICK n \in 1..MaxBatch : \E order \in [1..n -> pending] :
         /\ \A j, k \in 1..n : j < k => order[j] < order[k]
         /\ batch' = [k \in 1..n |-> repairs[order[k]]]
  BY DEF Drain
<1>2. PICK order \in [1..n -> pending] :
         /\ \A j, k \in 1..n : j < k => order[j] < order[k]
         /\ batch' = [k \in 1..n |-> repairs[order[k]]]
  BY <1>4
<1>3. n \in Nat \ {0} /\ order \in [1..n -> 1..Len(repairs)]
  BY <1>1
<1> QED BY <1>1, <1>2, <1>3, BatchFacts

LEMMA DrainShape ==
    ASSUME Shape, NEW w \in Worker, Drain(w)
    PROVE  Shape'
<1>1. TypeOK
  BY DEF Shape
<1>2. /\ pc' \in [Thread -> Places] /\ pc'[w] = "drain" /\ pc[w] = "idle"
      /\ \A u \in Thread : u # w => pc'[u] = pc[u]
  BY <1>1, Values, Moved DEF Drain, Places
<1>3. /\ batch' \in Seq(Row) /\ batch' # <<>> /\ Unique(batch')
      /\ Debts(batch') \subseteq Debts(repairs)
  BY BatchRead
<1>4. TypeOK'
  BY <1>1, <1>2, <1>3 DEF TypeOK, Drain, durable
<1>5. Mutex'
  BY <1>1, Values, MutexKept DEF Shape, Drain
<1>8. UNCHANGED <<table, repairs, backup, ev, todo>>
  BY DEF Drain, durable
<1>6. Roles'
  BY <1>2, <1>3, <1>8, Values DEF Shape, Roles, HasEvent, Live, Draining
<1>7. Ledger' /\ Finite'
  BY <1>3, <1>8 DEF Shape, Ledger, Finite
<1> QED BY <1>4, <1>5, <1>6, <1>7 DEF Shape

\* The row a drain works on.
LEMMA HeadOf ==
    ASSUME Shape, batch # <<>>
    PROVE  LET h == Head(batch) IN
           /\ h \in Row /\ h.mem \in Mem \union {All} /\ h.kind \in Kinds
           /\ h.seq \in Nat /\ h.tries \in Nat /\ h.late \in BOOLEAN
           /\ Debt(h) = [mem |-> h.mem, kind |-> h.kind, seq |-> h.seq, late |-> h.late]
           /\ Debt(h) \in Debts(repairs)
           /\ ProperKind(h.kind, h.mem)
<1>1. batch \in Seq(Row) /\ Unique(batch) /\ Debts(batch) \subseteq Debts(repairs)
  BY DEF Shape, TypeOK, Ledger
<1>2. Head(batch) \in Row /\ Debt(Head(batch)) \in Debts(repairs)
  BY <1>1, HeadFacts
<1>3. Debt(Head(batch)).kind = Head(batch).kind /\ Debt(Head(batch)).mem = Head(batch).mem
  BY <1>2, DebtFields
<1> QED BY <1>2, <1>3 DEF Row, Shape, Ledger, Debt

LEMMA DrainOkShape ==
    ASSUME Shape, NEW w \in Worker, DrainOk(w)
    PROVE  Shape'
<1>1. TypeOK /\ w \in Thread
  BY Values DEF Shape
<1>2. pc[w] = "drain" /\ batch # <<>>
  BY DEF DrainOk
<1>3. /\ pc' \in [Thread -> Places] /\ pc'[w] \in {"list", "done"}
      /\ \A u \in Thread : u # w => pc'[u] = pc[u]
  BY <1>1, Moved DEF DrainOk, Places
<1>4. Head(batch).kind # "MemoryIndexReconcile" => Head(batch).mem \in Mem
  BY <1>2, HeadOf DEF ProperKind
<1>5. index' \in [Mem -> Entry] /\ lost' \subseteq Mem
  BY <1>1, <1>4, Values DEF TypeOK, DrainOk
<1>6. TypeOK'
  BY <1>1, <1>3, <1>5 DEF TypeOK, DrainOk
<1>7. Mutex'
  BY <1>1, <1>2, MutexKept DEF Shape, DrainOk, Locked
<1>8. Roles'
  BY <1>1, <1>2, <1>3, Values DEF Shape, Roles, DrainOk, HasEvent, Live, Draining
<1>9. Ledger' /\ Finite'
  BY DEF Shape, Ledger, Finite, DrainOk
<1> QED BY <1>6, <1>7, <1>8, <1>9 DEF Shape

LEMMA DrainFailShape ==
    ASSUME Shape, NEW w \in Worker, DrainFail(w)
    PROVE  Shape'
<1>1. TypeOK /\ w \in Thread
  BY Values DEF Shape
<1>2. pc[w] = "drain" /\ batch # <<>>
  BY DEF DrainFail
<1>3. /\ pc' \in [Thread -> Places] /\ pc'[w] = "failed"
      /\ \A u \in Thread : u # w => pc'[u] = pc[u]
  BY <1>1, Moved DEF DrainFail, Places
<1>4. index' \in [Mem -> Entry]
  <2>1. CASE UNCHANGED index
    BY <1>1, <2>1 DEF TypeOK
  <2>2. CASE /\ Head(batch).kind = "MemoryDerived"
             /\ \E left \in AfterFailure(Head(batch).mem, table[Head(batch).mem]) :
                   index' = [index EXCEPT ![Head(batch).mem] = left]
    <3>1. Head(batch).mem \in Mem
      BY <1>2, <2>2, HeadOf DEF ProperKind
    <3>2. table[Head(batch).mem] \in Entry
      BY <1>1, <3>1 DEF TypeOK
    <3> QED BY <1>1, <2>2, <3>1, <3>2, FailedWrite
  <2> QED BY <2>1, <2>2 DEF DrainFail
<1>5. spent' \in [Spent -> Nat]
  BY <1>1, Spending DEF DrainFail, Spent
<1>6. TypeOK'
  BY <1>1, <1>3, <1>4, <1>5 DEF TypeOK, DrainFail
<1>7. Mutex'
  BY <1>1, <1>2, MutexKept DEF Shape, DrainFail, Locked
<1>8. Roles'
  BY <1>1, <1>2, <1>3, Values DEF Shape, Roles, DrainFail, HasEvent, Live, Draining
<1>9. Ledger' /\ Finite'
  BY DEF Shape, Ledger, Finite, DrainFail
<1> QED BY <1>6, <1>7, <1>8, <1>9 DEF Shape
----------------------------------------------------------------------------
(* Shape: the bookkeeping of the drain, requeue, export and import.        *)

LEMMA DrainDoneLedger ==
    ASSUME Shape, batch # <<>>, NEW w \in Worker, DrainDone(w)
    PROVE  LET h == Head(batch) IN
           /\ repairs' \in Seq(Row) /\ Unique(repairs')
           /\ Debts(repairs') \subseteq Debts(repairs)
           /\ \A d \in Debts(repairs) :
                 d \in Debts(repairs') \/ (d.mem = h.mem /\ d.seq = h.seq)
           /\ batch' \in Seq(Row) /\ Unique(batch')
           /\ Debts(batch') \subseteq Debts(repairs')
<1>1. /\ repairs \in Seq(Row) /\ Unique(repairs) /\ batch \in Seq(Row) /\ Unique(batch)
      /\ Debts(batch) \subseteq Debts(repairs)
  BY DEF Shape, TypeOK, Ledger
<1> DEFINE h == Head(batch)
<1>2. repairs' = Delete(repairs, h) /\ batch' = Tail(batch)
  BY DEF DrainDone, Delete, RemoveFirstMatch
<1>3. /\ batch' \in Seq(Row) /\ Unique(batch') /\ Debts(batch') \subseteq Debts(batch)
      /\ \A d \in Debts(batch') : ~(d.mem = h.mem /\ d.seq = h.seq)
  BY <1>1, <1>2, HeadFacts
<1> HIDE DEF h
<1> DEFINE new == Delete(repairs, h)
<1>4. /\ new \in Seq(Row) /\ Unique(new)
      /\ Debts(new) \subseteq Debts(repairs)
      /\ \A d \in Debts(repairs) :
            d \in Debts(new) \/ (d.mem = h.mem /\ d.seq = h.seq)
  BY <1>1, DeleteFacts
<1>6. repairs' = new
  BY <1>2
<1> HIDE DEF new
<1>5. Debts(batch') \subseteq Debts(repairs')
  BY <1>1, <1>3, <1>4, <1>6
<1> QED BY <1>3, <1>4, <1>5, <1>6 DEF h

LEMMA DrainDoneShape ==
    ASSUME Shape, NEW w \in Worker, DrainDone(w)
    PROVE  Shape'
<1>1. TypeOK /\ w \in Thread
  BY Values DEF Shape
<1>2. pc[w] = "done" /\ batch # <<>>
  BY DEF DrainDone, Shape, Roles
<1>3. /\ pc' \in [Thread -> Places] /\ pc'[w] = "drain"
      /\ \A u \in Thread : u # w => pc'[u] = pc[u]
  BY <1>1, Moved DEF DrainDone, Places
<1>4. /\ repairs' \in Seq(Row) /\ Unique(repairs')
      /\ Debts(repairs') \subseteq Debts(repairs)
      /\ batch' \in Seq(Row) /\ Unique(batch')
      /\ Debts(batch') \subseteq Debts(repairs')
  BY <1>2, DrainDoneLedger
<1>5. UNCHANGED <<table, seq, index, backup, fresh, ev, todo, want, lost, spent>>
  BY DEF DrainDone
<1>6. TypeOK'
  BY <1>1, <1>3, <1>4, <1>5 DEF TypeOK
<1>7. Mutex'
  BY <1>1, <1>2, MutexKept DEF Shape, DrainDone, Locked
<1>8. Roles'
  <2>1. \A u \in Thread : u # w => pc[u] \notin Locked
    BY <1>1, <1>2, Alone DEF Locked
  <2>2. todo = {}
    BY <1>1, <1>2, <2>1, Values DEF Shape, Roles, Locked
  <2> QED BY <1>1, <1>2, <1>3, <1>5, <2>1, <2>2, Values
          DEF Shape, Roles, HasEvent, Live, Draining, Locked
<1>9. Ledger' /\ Finite'
  BY <1>4, <1>5 DEF Shape, Ledger, Finite
<1> QED BY <1>6, <1>7, <1>8, <1>9 DEF Shape

LEMMA RowUpdate ==
    ASSUME NEW row \in Row, NEW n \in Nat, NEW b \in BOOLEAN
    PROVE  /\ [row EXCEPT !.tries = n, !.dead = b] \in Row
           /\ Debt([row EXCEPT !.tries = n, !.dead = b]) = Debt(row)
BY DEF Row, Debt

LEMMA BumpFacts ==
    ASSUME Shape, batch # <<>>, NEW row \in Row
    PROVE  Bump(row) \in Row /\ Debt(Bump(row)) = Debt(row)
<1> DEFINE n == Head(batch).tries + 1
           b == Head(batch).tries + 1 >= MaxRetries
<1>1. n \in Nat
  BY HeadOf
<1>2. b \in BOOLEAN
  OBVIOUS
<1>3. Bump(row) = [row EXCEPT !.tries = n, !.dead = b]
  BY DEF Bump
<1> HIDE DEF n, b
<1>4. /\ [row EXCEPT !.tries = n, !.dead = b] \in Row
      /\ Debt([row EXCEPT !.tries = n, !.dead = b]) = Debt(row)
  BY <1>1, <1>2, RowUpdate, Zenon
<1> QED BY <1>3, <1>4, Zenon

LEMMA DrainFailedLedger ==
    ASSUME Shape, batch # <<>>, NEW w \in Worker, DrainFailed(w)
    PROVE  /\ repairs' \in Seq(Row) /\ Unique(repairs')
           /\ Debts(repairs') = Debts(repairs)
           /\ batch' \in Seq(Row) /\ Unique(batch')
           /\ Debts(batch') \subseteq Debts(repairs')
<1>1. /\ repairs \in Seq(Row) /\ Unique(repairs) /\ batch \in Seq(Row) /\ Unique(batch)
      /\ Debts(batch) \subseteq Debts(repairs)
  BY DEF Shape, TypeOK, Ledger
<1>2. \A i \in 1..Len(repairs) : repairs[i] \in Row
  BY <1>1, ElementOfSeq
<1>3. /\ repairs' = [i \in 1..Len(repairs) |->
                       IF SameRow(repairs[i], Head(batch)) THEN Bump(repairs[i]) ELSE repairs[i]]
      /\ batch' = Tail(batch)
  BY DEF DrainFailed
<1>4. /\ repairs' \in [1..Len(repairs) -> Row]
      /\ \A i \in 1..Len(repairs) : Debt(repairs'[i]) = Debt(repairs[i])
  BY <1>2, <1>3, BumpFacts
<1>5. /\ repairs' \in Seq(Row) /\ Unique(repairs') /\ Debts(repairs') = Debts(repairs)
  BY <1>1, <1>4, RewriteFacts
<1>6. batch' \in Seq(Row) /\ Unique(batch') /\ Debts(batch') \subseteq Debts(batch)
  BY <1>1, <1>3, HeadFacts
<1> QED BY <1>1, <1>5, <1>6

LEMMA DrainFailedShape ==
    ASSUME Shape, NEW w \in Worker, DrainFailed(w)
    PROVE  Shape'
<1>1. TypeOK /\ w \in Thread
  BY Values DEF Shape
<1>2. pc[w] = "failed" /\ batch # <<>>
  BY DEF DrainFailed, Shape, Roles
<1>3. /\ pc' \in [Thread -> Places] /\ pc'[w] = "drain"
      /\ \A u \in Thread : u # w => pc'[u] = pc[u]
  BY <1>1, Moved DEF DrainFailed, Places
<1>4. /\ repairs' \in Seq(Row) /\ Unique(repairs')
      /\ Debts(repairs') = Debts(repairs)
      /\ batch' \in Seq(Row) /\ Unique(batch')
      /\ Debts(batch') \subseteq Debts(repairs')
  BY <1>2, DrainFailedLedger
<1>5. UNCHANGED <<table, seq, index, backup, fresh, ev, todo, want, lost, spent>>
  BY DEF DrainFailed
<1>6. TypeOK'
  BY <1>1, <1>3, <1>4, <1>5 DEF TypeOK
<1>7. Mutex'
  BY <1>1, <1>2, MutexKept DEF Shape, DrainFailed, Locked
<1>8. Roles'
  <2>1. \A u \in Thread : u # w => pc[u] \notin Locked
    BY <1>1, <1>2, Alone DEF Locked
  <2>2. todo = {}
    BY <1>1, <1>2, <2>1, Values DEF Shape, Roles, Locked
  <2> QED BY <1>1, <1>2, <1>3, <1>5, <2>1, <2>2, Values
          DEF Shape, Roles, HasEvent, Live, Draining, Locked
<1>9. Ledger' /\ Finite'
  BY <1>4, <1>5 DEF Shape, Ledger, Finite
<1> QED BY <1>6, <1>7, <1>8, <1>9 DEF Shape

LEMMA DrainEndShape ==
    ASSUME Shape, NEW w \in Worker, DrainEnd(w)
    PROVE  Shape'
<1>1. TypeOK /\ w \in Thread
  BY Values DEF Shape
<1>2. /\ pc' \in [Thread -> Places] /\ pc'[w] = "idle" /\ pc[w] = "drain" /\ batch = <<>>
      /\ \A u \in Thread : u # w => pc'[u] = pc[u]
  BY <1>1, Moved DEF DrainEnd, Places
<1>3. TypeOK'
  BY <1>1, <1>2 DEF TypeOK, DrainEnd, durable
<1>4. Mutex'
  BY <1>1, MutexKept DEF Shape, DrainEnd, Locked
<1>5. Roles'
  BY <1>1, <1>2, Values DEF Shape, Roles, DrainEnd, HasEvent, Live, Draining
<1>6. Ledger' /\ Finite'
  BY DEF Shape, Ledger, Finite, DrainEnd, durable
<1> QED BY <1>3, <1>4, <1>5, <1>6 DEF Shape

LEMMA RequeueLedger ==
    ASSUME Shape, NEW i \in 1..Len(repairs), Requeue(i)
    PROVE  /\ repairs' \in Seq(Row) /\ Unique(repairs')
           /\ Debts(repairs') = Debts(repairs)
<1>1. repairs \in Seq(Row) /\ Unique(repairs)
  BY DEF Shape, TypeOK, Ledger
<1>2. \A j \in 1..Len(repairs) : repairs[j] \in Row
  BY <1>1, ElementOfSeq
<1> DEFINE row == [repairs[i] EXCEPT !.dead = FALSE, !.tries = 0]
<1>3. row \in Row /\ Debt(row) = Debt(repairs[i])
  BY <1>2 DEF Row, Debt
<1>4. repairs \in [1..Len(repairs) -> Row]
  BY <1>1, LenProperties
<1>5. repairs' = [repairs EXCEPT ![i] = row]
  BY <1>4 DEF Requeue
<1> HIDE DEF row
<1>6. /\ repairs' \in [1..Len(repairs) -> Row]
      /\ \A j \in 1..Len(repairs) : Debt(repairs'[j]) = Debt(repairs[j])
  BY <1>3, <1>4, <1>5
<1> QED BY <1>1, <1>6, RewriteFacts

LEMMA RequeueShape ==
    ASSUME Shape, NEW i \in 1..Len(repairs), Requeue(i)
    PROVE  Shape'
<1>1. TypeOK
  BY DEF Shape
<1>2. /\ repairs' \in Seq(Row) /\ Unique(repairs')
      /\ Debts(repairs') = Debts(repairs)
  BY RequeueLedger
<1>3. UNCHANGED <<table, seq, index, backup, fresh, pc, ev, batch, todo, want, lost>>
  BY DEF Requeue, threads
<1>4. spent' \in [Spent -> Nat]
  BY <1>1, Spending DEF Requeue, Spent
<1>5. TypeOK'
  BY <1>1, <1>2, <1>3, <1>4 DEF TypeOK
<1>6. Mutex' /\ Roles'
  BY <1>3 DEF Shape, Mutex, Roles, HasEvent, Live
<1>7. Ledger' /\ Finite'
  BY <1>2, <1>3 DEF Shape, Ledger, Finite
<1> QED BY <1>5, <1>6, <1>7 DEF Shape

LEMMA ExportShape == Shape /\ Export => Shape'
<1> SUFFICES ASSUME Shape, Export PROVE Shape'
  OBVIOUS
<1>1. TypeOK
  BY DEF Shape
<1>2. UNCHANGED <<table, seq, repairs, index, fresh, pc, ev, batch, todo, want, lost, spent>>
  BY DEF Export, threads
<1>3. backup' = [table |-> table, seq |-> seq, taken |-> TRUE]
  BY DEF Export
<1>4. TypeOK'
  BY <1>1, <1>2, <1>3 DEF TypeOK
<1>5. Mutex' /\ Roles' /\ Ledger'
  BY <1>2 DEF Shape, Mutex, Roles, Ledger, HasEvent, Live
<1>6. Finite'
  BY <1>2, <1>3 DEF Shape, Finite
<1> QED BY <1>4, <1>5, <1>6 DEF Shape

\* The marks an import leaves on the events waiting for the lock.
LEMMA ImportEvents ==
    ASSUME Shape, NEW w \in Worker, Import(w)
    PROVE  /\ ev' \in [Thread -> Event]
           /\ \A t \in Thread :
                 /\ ev'[t].mem = ev[t].mem /\ ev'[t].text = ev[t].text /\ ev'[t].seq = ev[t].seq
                 /\ pc[t] = "sync" => ev'[t].late
                 /\ pc[t] # "sync" => ev'[t] = ev[t]
<1> DEFINE marked(t) == [ev[t] EXCEPT !.late = TRUE]
<1>1. ev' = [t \in Thread |-> IF pc[t] = "sync" THEN marked(t) ELSE ev[t]]
  BY DEF Import
<1>2. ev \in [Thread -> Event]
  BY DEF Shape, TypeOK
<1>3. ASSUME NEW t \in Thread, pc[t] = "sync"
      PROVE  /\ marked(t) \in Event
             /\ marked(t).mem = ev[t].mem /\ marked(t).text = ev[t].text
             /\ marked(t).seq = ev[t].seq /\ marked(t).late
  <2>1. ev[t] \in [mem : Mem, text : Entry, seq : Nat, late : BOOLEAN]
    BY <1>3, EventOf DEF HasEvent, Live
  <2> QED BY <2>1 DEF Event
<1> HIDE DEF marked
<1> QED BY <1>1, <1>2, <1>3

LEMMA ImportShape ==
    ASSUME Shape, NEW w \in Worker, Import(w)
    PROVE  Shape'
<1>1. TypeOK /\ w \in Thread
  BY Values DEF Shape
<1>2. /\ pc' \in [Thread -> Places] /\ pc'[w] = "list" /\ pc[w] = "idle"
      /\ \A u \in Thread : u # w => pc'[u] = pc[u]
  BY <1>1, Moved DEF Import, Places
<1>3. batch = <<>> /\ todo = {}
  BY FreeLock DEF Import
<1>4. ev' \in [Thread -> Event] /\ \A t \in Thread : ev'[t].mem = ev[t].mem
  BY ImportEvents
<1>5. /\ table' = backup.table /\ seq' = backup.seq /\ repairs' = <<>> /\ lost' = {}
      /\ UNCHANGED <<index, backup, fresh, batch, todo, want>>
  BY DEF Import
<1>6. spent' \in [Spent -> Nat]
  BY <1>1, Spending DEF Import, Spent
<1>7. TypeOK'
  BY <1>1, <1>2, <1>4, <1>5, <1>6 DEF TypeOK
<1>8. Mutex'
  BY <1>1, MutexKept DEF Shape, Import
<1>9. Roles'
  BY <1>2, <1>3, <1>4, <1>5, Values DEF Shape, Roles, HasEvent, Live, Draining
<1>10. Ledger'
  <2>1. Debts(<<>>) = {} /\ Unique(<<>>)
    BY DEF Debts, Unique
  <2> QED BY <1>3, <1>5, <2>1 DEF Ledger
<1>11. Finite'
  BY <1>5 DEF Shape, Finite
<1> QED BY <1>7, <1>8, <1>9, <1>10, <1>11 DEF Shape
----------------------------------------------------------------------------
(* Shape: the reconcile and a death of the process.                        *)

\* While a worker reconciles, nobody else holds the lock.
LEMMA ListShape ==
    ASSUME Shape, NEW w \in Worker, List(w)
    PROVE  Shape'
<1>1. TypeOK /\ w \in Thread
  BY Values DEF Shape
<1>2. /\ pc' \in [Thread -> Places] /\ pc'[w] = "reconcile" /\ pc[w] = "list"
      /\ \A u \in Thread : u # w => pc'[u] = pc[u]
  BY <1>1, Moved DEF List, Places
<1>3. TypeOK'
  BY <1>1, <1>2 DEF TypeOK, List, durable
<1>4. Mutex'
  BY <1>1, MutexKept DEF Shape, List, Locked
<1>5. UNCHANGED <<table, repairs, backup, ev, batch>>
  BY DEF List, durable
<1>6. Roles'
  BY <1>1, <1>2, <1>5, Values DEF Shape, Roles, HasEvent, Live, Draining
<1>7. Ledger' /\ Finite'
  BY <1>5 DEF Shape, Ledger, Finite
<1> QED BY <1>3, <1>4, <1>6, <1>7 DEF Shape

\* What a failed listing adds to the ledger: the full row, and a row of kind
\* MemoryDerived for memories that exist.
LEMMA ListFailLedger ==
    ASSUME Shape, NEW w \in Worker, ListFail(w)
    PROVE  /\ repairs' \in Seq(Row) /\ Unique(repairs')
           /\ Debts(repairs) \subseteq Debts(repairs')
           /\ \E d \in Debts(repairs') : d.mem = All
           /\ \A d \in Debts(repairs') :
                 /\ ProperKind(d.kind, d.mem)
                 /\ \/ d \in Debts(repairs)
                    \/ d.mem = All /\ d.seq = 0 /\ ~d.late /\ d.kind = "MemoryIndexReconcile"
                    \/ /\ d.mem \in Mem /\ table[d.mem] # Gone
                       /\ d.kind = "MemoryDerived" /\ d.seq = 0 /\ ~d.late
<1> DEFINE full == Persist(repairs, NewRow(All, "MemoryIndexReconcile", 0, FALSE))
           mems == {m \in Mem : table[m] # Gone}
           debt == [mem |-> All, kind |-> "MemoryIndexReconcile", seq |-> 0, late |-> FALSE]
           new  == PersistAll(full, mems)
<1>1. TypeOK /\ Ledger
  BY DEF Shape
<1>2. ProperKind("MemoryIndexReconcile", All) /\ "MemoryIndexReconcile" \in Kinds
  BY DEF ProperKind, Kinds
<1>3. /\ full \in Seq(Row) /\ Unique(full)
      /\ Debts(repairs) \subseteq Debts(full)
      /\ Debts(full) \subseteq Debts(repairs) \union {debt}
      /\ \/ debt \in Debts(full)
         \/ full = repairs /\ \E d \in Debts(repairs) : d.mem = All /\ d.seq = 0
      /\ \A d \in Debts(full) : ProperKind(d.kind, d.mem)
  BY <1>1, <1>2, PersistLedger
<1>4. IsFiniteSet(mems) /\ mems \in SUBSET Mem
  BY DEF Shape, Finite, Stored
<1>5. repairs' = new
  BY DEF ListFail
<1>6. /\ debt.mem = All /\ debt.seq = 0 /\ ~debt.late /\ debt.kind = "MemoryIndexReconcile"
  OBVIOUS
<1>7. \A m \in mems : m \in Mem /\ table[m] # Gone
  OBVIOUS
<1> HIDE DEF full, mems, debt
<1>8. /\ new \in Seq(Row) /\ Unique(new)
      /\ Debts(full) \subseteq Debts(new)
      /\ \A d \in Debts(new) :
            d \in Debts(full) \/ /\ d.mem \in mems /\ d.kind = "MemoryDerived"
                                 /\ d.seq = 0 /\ ~d.late
  BY <1>3, <1>4, PersistAllFacts
<1> HIDE DEF new
<1>9. \E d \in Debts(new) : d.mem = All
  BY <1>3, <1>6, <1>8
<1>10. ASSUME NEW d \in Debts(new)
       PROVE  /\ ProperKind(d.kind, d.mem)
              /\ \/ d \in Debts(repairs)
                 \/ d.mem = All /\ d.seq = 0 /\ ~d.late /\ d.kind = "MemoryIndexReconcile"
                 \/ /\ d.mem \in Mem /\ table[d.mem] # Gone
                    /\ d.kind = "MemoryDerived" /\ d.seq = 0 /\ ~d.late
  <2>1. CASE d \in Debts(full)
    BY <1>3, <1>6, <2>1
  <2>2. CASE d \notin Debts(full)
    <3>1. /\ d.mem \in Mem /\ table[d.mem] # Gone /\ d.kind = "MemoryDerived"
          /\ d.seq = 0 /\ ~d.late
      BY <1>7, <1>8, <2>2
    <3>2. ProperKind(d.kind, d.mem)
      BY <3>1, Values DEF ProperKind
    <3> QED BY <3>1, <3>2
  <2> QED BY <2>1, <2>2
<1>11. Debts(repairs) \subseteq Debts(new)
  BY <1>3, <1>8
<1> QED BY <1>5, <1>8, <1>9, <1>10, <1>11

LEMMA ListFailShape ==
    ASSUME Shape, NEW w \in Worker, ListFail(w)
    PROVE  Shape'
<1>1. TypeOK /\ w \in Thread
  BY Values DEF Shape
<1>2. /\ pc' \in [Thread -> Places] /\ pc[w] = "list"
      /\ pc'[w] = IF batch = <<>> THEN "idle" ELSE "failed"
      /\ \A u \in Thread : u # w => pc'[u] = pc[u]
  BY <1>1, Moved DEF ListFail, Places
<1>3. /\ repairs' \in Seq(Row) /\ Unique(repairs')
      /\ Debts(repairs) \subseteq Debts(repairs')
      /\ \A d \in Debts(repairs') : ProperKind(d.kind, d.mem)
  BY ListFailLedger
<1>4. UNCHANGED <<table, seq, index, backup, fresh, ev, batch, todo, want, lost>>
  BY DEF ListFail
<1>5. spent' \in [Spent -> Nat]
  BY <1>1, Spending DEF ListFail, Spent
<1>6. TypeOK'
  BY <1>1, <1>2, <1>3, <1>4, <1>5 DEF TypeOK
<1>7. Mutex'
  BY <1>1, <1>2, MutexKept DEF Shape, ListFail, Locked
<1>8. Roles'
  <2>1. \A u \in Thread : u # w => pc[u] \notin Locked
    BY <1>1, <1>2, Alone DEF Locked
  <2>2. todo = {}
    BY <1>1, <1>2, <2>1, Values DEF Shape, Roles, Locked
  <2> QED BY <1>1, <1>2, <1>4, <2>1, <2>2, Values
          DEF Shape, Roles, HasEvent, Live, Draining, Locked
<1>9. Ledger' /\ Finite'
  BY <1>3, <1>4 DEF Shape, Ledger, Finite
<1> QED BY <1>6, <1>7, <1>8, <1>9 DEF Shape

LEMMA ReconcileOkShape ==
    ASSUME Shape, NEW w \in Worker, NEW m \in Mem, ReconcileOk(w, m)
    PROVE  Shape'
<1>1. TypeOK /\ w \in Thread
  BY Values DEF Shape
<1>2. UNCHANGED <<table, repairs, backup, pc, ev, batch>> /\ pc[w] = "reconcile"
  BY DEF ReconcileOk
<1>3. TypeOK'
  BY <1>1 DEF TypeOK, ReconcileOk
<1>4. Mutex' /\ Roles'
  BY <1>2 DEF Shape, Mutex, Roles, HasEvent, Live
<1>5. Ledger' /\ Finite'
  BY <1>2 DEF Shape, Ledger, Finite
<1> QED BY <1>3, <1>4, <1>5 DEF Shape

LEMMA ReconcileFailLedger ==
    ASSUME Shape, NEW w \in Worker, NEW m \in Mem, ReconcileFail(w, m)
    PROVE  LET debt == [mem |-> m, kind |-> Kind(want[m]), seq |-> 0, late |-> FALSE] IN
           /\ repairs' \in Seq(Row) /\ Unique(repairs')
           /\ Debts(repairs) \subseteq Debts(repairs')
           /\ Debts(repairs') \subseteq Debts(repairs) \union {debt}
           /\ \/ debt \in Debts(repairs')
              \/ \E d \in Debts(repairs) : d.mem = m /\ d.seq = 0
           /\ \A d \in Debts(repairs') : ProperKind(d.kind, d.mem)
<1>1. TypeOK /\ Ledger
  BY DEF Shape
<1>2. Kind(want[m]) \in Kinds /\ ProperKind(Kind(want[m]), m)
  BY KindFacts, Values DEF ProperKind
<1>3. PICK kind \in Kinds : kind = Kind(want[m])
  BY <1>2
<1>4. repairs' = Persist(repairs, NewRow(m, kind, 0, FALSE)) /\ ProperKind(kind, m)
  BY <1>2, <1>3 DEF ReconcileFail
<1>5. LET debt == [mem |-> m, kind |-> kind, seq |-> 0, late |-> FALSE] IN
           /\ repairs' \in Seq(Row) /\ Unique(repairs')
           /\ Debts(repairs) \subseteq Debts(repairs')
           /\ Debts(repairs') \subseteq Debts(repairs) \union {debt}
           /\ \/ debt \in Debts(repairs')
              \/ repairs' = repairs /\ \E d \in Debts(repairs) : d.mem = m /\ d.seq = 0
           /\ \A d \in Debts(repairs') : ProperKind(d.kind, d.mem)
  BY <1>1, <1>4, PersistLedger
<1> QED BY <1>3, <1>5

LEMMA ReconcileFailShape ==
    ASSUME Shape, NEW w \in Worker, NEW m \in Mem, ReconcileFail(w, m)
    PROVE  Shape'
<1>1. TypeOK /\ w \in Thread
  BY Values DEF Shape
<1>2. UNCHANGED <<table, seq, backup, fresh, pc, ev, batch, want, lost>> /\ pc[w] = "reconcile"
  BY DEF ReconcileFail
<1>3. /\ repairs' \in Seq(Row) /\ Unique(repairs')
      /\ Debts(repairs) \subseteq Debts(repairs')
      /\ \A d \in Debts(repairs') : ProperKind(d.kind, d.mem)
  BY ReconcileFailLedger
<1>4. index' \in [Mem -> Entry]
  <2>1. want[m] \in Entry
    BY <1>1 DEF TypeOK
  <2> QED BY <1>1, <2>1, FailedWrite DEF ReconcileFail
<1>5. spent' \in [Spent -> Nat]
  BY <1>1, Spending DEF ReconcileFail, Spent
<1>6. todo' = todo \ {m}
  BY DEF ReconcileFail
<1>7. TypeOK'
  BY <1>1, <1>2, <1>3, <1>4, <1>5, <1>6 DEF TypeOK
<1>8. Mutex' /\ Roles'
  BY <1>2, <1>6 DEF Shape, Mutex, Roles, HasEvent, Live
<1>9. Ledger' /\ Finite'
  BY <1>2, <1>3 DEF Shape, Ledger, Finite
<1> QED BY <1>7, <1>8, <1>9 DEF Shape

LEMMA ReconcileEndShape ==
    ASSUME Shape, NEW w \in Worker, ReconcileEnd(w)
    PROVE  Shape'
<1>1. TypeOK /\ w \in Thread
  BY Values DEF Shape
<1>2. /\ pc' \in [Thread -> Places] /\ pc[w] = "reconcile"
      /\ pc'[w] = IF batch = <<>> THEN "idle" ELSE "done"
      /\ \A u \in Thread : u # w => pc'[u] = pc[u]
  BY <1>1, Moved DEF ReconcileEnd, Places
<1>3. UNCHANGED <<table, repairs, backup, ev, batch, todo>> /\ todo = {}
  BY DEF ReconcileEnd, durable
<1>4. TypeOK'
  BY <1>1, <1>2, Values DEF TypeOK, ReconcileEnd, durable, Nothing
<1>5. Mutex'
  BY <1>1, <1>2, MutexKept DEF Shape, ReconcileEnd, Locked
<1>6. Roles'
  BY <1>1, <1>2, <1>3, Values DEF Shape, Roles, HasEvent, Live, Draining
<1>7. Ledger' /\ Finite'
  BY <1>3 DEF Shape, Ledger, Finite
<1> QED BY <1>4, <1>5, <1>6, <1>7 DEF Shape

LEMMA CrashShape == Shape /\ Crash => Shape'
<1> SUFFICES ASSUME Shape, Crash PROVE Shape'
  OBVIOUS
<1>1. TypeOK
  BY DEF Shape
<1>2. /\ pc' = [t \in Thread |-> "idle"] /\ ev' = [t \in Thread |-> NoEvent]
      /\ batch' = <<>> /\ todo' = {} /\ want' = Nothing
      /\ UNCHANGED <<table, seq, repairs, index, backup, fresh>>
      /\ lost' \subseteq Mem
  BY <1>1 DEF Crash, durable, TypeOK
<1>3. spent' \in [Spent -> Nat]
  BY <1>1, Spending DEF Crash, Spent
<1>4. TypeOK'
  BY <1>1, <1>2, <1>3, Values DEF TypeOK, Nothing, Places
<1>5. Mutex' /\ Roles'
  BY <1>2, Values DEF Mutex, Roles, Locked, Draining, HasEvent, Live
<1>6. Ledger' /\ Finite'
  <2>1. Debts(<<>>) = {} /\ Unique(<<>>)
    BY DEF Debts, Unique
  <2> QED BY <1>2, <2>1 DEF Shape, Ledger, Finite
<1> QED BY <1>4, <1>5, <1>6 DEF Shape

LEMMA StutterShape == Shape /\ UNCHANGED vars => Shape'
BY DEF vars, durable, threads, Shape, TypeOK, Mutex, Roles, Ledger, Finite, HasEvent, Live

LEMMA StepShape == Shape /\ [Next]_vars => Shape'
<1> SUFFICES ASSUME Shape, [Next]_vars PROVE Shape'
  OBVIOUS
<1>1. CASE Write
  BY <1>1, DeriveShape, CheckShape, CommitShape DEF Write
<1>2. ASSUME NEW t \in Thread, Sync(t) PROVE Shape'
  BY <1>2, SyncOkShape, SyncFailShape, QueueShape DEF Sync
<1>3. ASSUME NEW w \in Worker, Drain(w) \/ DrainStep(w)
      PROVE  Shape'
  BY <1>3, DrainShape, DrainOkShape, DrainFailShape, DrainDoneShape, DrainFailedShape,
     DrainEndShape DEF DrainStep
<1>4. ASSUME NEW w \in Worker, Import(w) \/ Reconcile(w)
      PROVE  Shape'
  BY <1>4, ImportShape, ListShape, ListFailShape, ReconcileOkShape, ReconcileFailShape,
     ReconcileEndShape DEF Reconcile
<1>5. ASSUME NEW i \in 1..Len(repairs), Requeue(i) PROVE Shape'
  BY <1>5, RequeueShape
<1>6. CASE Export \/ Crash \/ UNCHANGED vars
  BY <1>6, ExportShape, CrashShape, StutterShape
<1> QED BY <1>1, <1>2, <1>3, <1>4, <1>5, <1>6 DEF Next

LEMMA ShapeHolds == Spec => []Shape
BY InitShape, StepShape, PTL DEF Spec

\* Whatever the threads interleave, rows, events and places keep the shape that
\* the drain, the syncs and the import read: a batch is a list of proper rows,
\* and the lock, the log and the queue hold nothing else.
THEOREM TypeCorrect == Spec => []TypeOK
<1>1. Shape => TypeOK
  BY DEF Shape
<1> QED BY <1>1, ShapeHolds, PTL
----------------------------------------------------------------------------
(* Order: definitions, and the drain, which leaves the writers alone.      *)

\* What a repair row that is not late says still goes for the projection.
Rows ==
    \A d \in Debts(repairs) :
        /\ d.mem \notin fresh
        /\ d.seq = 0 => ~d.late
        /\ ~d.late => /\ d.seq <= seq
                      /\ d.kind = "MemoryDeleted" => table[d.mem] = Gone

\* The seq of a committed event names it, as long as no import sets it back.
Events ==
    /\ \A t \in Thread : HasEvent(t) => ev[t].mem \notin fresh
    /\ \A w \in Worker : Live(w) => ev[w].text # Gone
    /\ \A t \in Thread : Live(t) => ev[t].seq > 0
    /\ \A t \in Thread : Live(t) /\ ~ev[t].late => ev[t].seq <= seq
    /\ \A t, u \in Thread :
          Live(t) /\ Live(u) /\ ~ev[t].late /\ ~ev[u].late /\ ev[t].seq = ev[u].seq => t = u
    /\ \A t \in Thread, d \in Debts(repairs) :
          Live(t) /\ ~ev[t].late /\ d.mem = ev[t].mem /\ d.seq = ev[t].seq => d.late

\* The loop has committed after the worker and has yet to sync.
Overtakes(w) ==
    /\ pc[Loop] = "sync" /\ ~ev[Loop].late
    /\ ev[Loop].mem = ev[w].mem /\ ev[w].seq < ev[Loop].seq

\* An event that is not late carries the text of the projection.
Current ==
    /\ Live(Loop) /\ ~ev[Loop].late => ev[Loop].text = table[ev[Loop].mem]
    /\ \A w \in Worker :
          Live(w) /\ ~ev[w].late => ev[w].text = table[ev[w].mem] \/ Overtakes(w)

QueuedLate == \A t \in Thread : pc[t] = "queue" /\ ev[t].late => ev[t].mem \in lost

Unused == \A m \in fresh : /\ table[m] = Gone /\ index[m] = Gone
                           /\ backup.table[m] = Gone /\ m \notin todo

\* What a reconcile read, and the queue that an import has emptied for it.
Snapshot ==
    /\ \A m \in todo :
          /\ want[m] = Gone => table[m] = Gone
          /\ want[m] = table[m] \/ \E t \in Thread : pc[t] = "sync" /\ ev[t].mem = m
    /\ batch = <<>> =>
          \A w \in Worker :
             /\ pc[w] = "list" => Debts(repairs) = {}
             /\ pc[w] = "reconcile" => \A d \in Debts(repairs) : d.mem \notin todo

Order == Rows /\ Events /\ Current /\ QueuedLate /\ Unused /\ Snapshot

LEMMA InitOrder == Init => Order
<1> SUFFICES ASSUME Init PROVE Order
  OBVIOUS
<1>1. Debts(repairs) = {}
  BY DEF Init, Debts
<1>2. \A t \in Thread : pc[t] = "idle"
  BY DEF Init
<1>3. Rows /\ Events /\ Current /\ QueuedLate
  BY <1>1, <1>2, Values DEF Rows, Events, Current, QueuedLate, HasEvent, Live
<1>4. Unused /\ Snapshot
  BY <1>1 DEF Init, Unused, Snapshot, Nothing, NoBackup
<1> QED BY <1>3, <1>4 DEF Order

\* Only the holder of the lock in a reconcile has memories to do.
LEMMA NothingToDo ==
    ASSUME Shape, NEW t \in Thread, pc[t] \in Locked, pc[t] # "reconcile"
    PROVE  todo = {}
BY Alone, Values DEF Shape, Roles, Locked

\* The drain and the reconcile leave the writers alone, and add to the queue
\* only rows without an event.
LEMMA DrainOrder ==
    ASSUME Shape, Order, NEW w \in Worker, ~HasEvent(w),
           pc'[w] \notin {"checked", "sync", "queue"},
           \A u \in Thread : u # w => pc'[u] = pc[u],
           UNCHANGED <<table, seq, fresh, ev>>,
           lost' = lost \/ pc[w] \in Locked,
           \A d \in Debts(repairs') :
              \/ d \in Debts(repairs)
              \/ /\ d.seq = 0 /\ ~d.late /\ d.mem \notin fresh
                 /\ d.kind = "MemoryDeleted" => table[d.mem] = Gone
    PROVE  Rows' /\ Events' /\ Current' /\ QueuedLate'
<1>1. seq \in Nat /\ w \in Thread /\ Loop \in Thread /\ w # Loop
  BY Values DEF Shape, TypeOK
<1>2. \A u \in Thread : /\ HasEvent(u)' => HasEvent(u)
                        /\ Live(u)' => Live(u)
                        /\ pc'[u] = "queue" => pc[u] = "queue"
  BY DEF HasEvent, Live
<1>3. Rows'
  BY <1>1 DEF Order, Rows
<1>4. Events'
  <2>1. \A t \in Thread, d \in Debts(repairs') :
          Live(t)' /\ ~ev'[t].late /\ d.mem = ev'[t].mem /\ d.seq = ev'[t].seq => d.late
    <3> SUFFICES ASSUME NEW t \in Thread, NEW d \in Debts(repairs'),
                        Live(t), ~ev[t].late, d.mem = ev[t].mem, d.seq = ev[t].seq
                 PROVE  d.late
      BY <1>2
    <3>1. d.seq # 0
      <4>1. ev[t].seq > 0
        BY DEF Order, Events
      <4> QED BY <4>1
    <3>2. d \in Debts(repairs)
      BY <3>1
    <3> QED BY <3>2 DEF Order, Events
  <2>2. \A u \in Worker : u \in Thread
    BY Values
  <2> QED BY <1>2, <2>1, <2>2 DEF Order, Events
<1>5. Current'
  <2>1. pc'[Loop] = pc[Loop] /\ \A u \in Worker : Overtakes(u)' = Overtakes(u)
    BY <1>1 DEF Overtakes
  <2> QED BY <1>1, <1>2, <2>1, Values DEF Order, Current
<1>6. QueuedLate'
  <2>1. CASE lost' = lost
    BY <1>2, <2>1 DEF Order, QueuedLate
  <2>2. CASE pc[w] \in Locked
    <3>1. \A u \in Thread : pc[u] # "queue"
      BY <1>1, <2>2, Alone DEF Locked, HasEvent, Live
    <3> QED BY <1>2, <3>1 DEF QueuedLate
  <2> QED BY <2>1, <2>2
<1> QED BY <1>3, <1>4, <1>5, <1>6

LEMMA DrainRead ==
    ASSUME Shape, Order, NEW w \in Worker, Drain(w)
    PROVE  Order'
<1>1. TypeOK /\ w \in Thread
  BY Values DEF Shape
<1>2. /\ pc'[w] = "drain" /\ pc[w] = "idle"
      /\ \A u \in Thread : u # w => pc'[u] = pc[u]
  BY <1>1, Moved DEF Drain, Places
<1>3. UNCHANGED <<table, seq, repairs, index, backup, fresh, ev, todo, want, lost>> /\ LockFree
  BY DEF Drain, durable
<1>4. Rows' /\ Events' /\ Current' /\ QueuedLate'
  <2>1. ~HasEvent(w)
    BY <1>2 DEF HasEvent, Live
  <2>2. Debts(repairs') = Debts(repairs)
    BY <1>3
  <2> QED BY <1>2, <1>3, <2>1, <2>2, DrainOrder
<1>5. Unused'
  BY <1>3 DEF Order, Unused
<1>6. Snapshot'
  <2>1. todo' = {}
    BY <1>3, FreeLock
  <2>2. \A u \in Worker : pc'[u] \notin {"list", "reconcile"}
    BY <1>2, <1>3, Values DEF LockFree, Locked
  <2> QED BY <2>1, <2>2 DEF Snapshot
<1> QED BY <1>4, <1>5, <1>6 DEF Order

\* The steps of a drain on one row: the index may change for its memory.
LEMMA DrainStepOrder ==
    ASSUME Shape, Order, NEW w \in Worker, DrainStep(w)
    PROVE  Order'
<1>1. TypeOK /\ w \in Thread
  BY Values DEF Shape
<1>2. /\ pc[w] \in {"drain", "done", "failed"}
      /\ pc'[w] \in {"drain", "done", "failed", "list", "idle"}
      /\ pc'[w] = "list" => batch' # <<>>
      /\ \A u \in Thread : u # w => pc'[u] = pc[u]
  <2>1. CASE DrainOk(w)
    BY <1>1, <2>1, Moved DEF DrainOk, Places
  <2>2. CASE DrainFail(w)
    BY <1>1, <2>2, Moved DEF DrainFail, Places
  <2>3. CASE DrainDone(w)
    <3>1. pc[w] = "done" /\ Goto(w, "drain")
      BY <2>3 DEF DrainDone
    <3> QED BY <1>1, <3>1, Moved DEF Places
  <2>4. CASE DrainFailed(w)
    BY <1>1, <2>4, Moved DEF DrainFailed, Places
  <2>5. CASE DrainEnd(w)
    BY <1>1, <2>5, Moved DEF DrainEnd, Places
  <2> QED BY <2>1, <2>2, <2>3, <2>4, <2>5 DEF DrainStep
<1>3. UNCHANGED <<table, seq, backup, fresh, ev, todo, want>>
  <2>1. CASE DrainDone(w)
    BY <2>1 DEF DrainDone
  <2> QED BY <2>1 DEF DrainStep, DrainOk, DrainFail, DrainFailed, DrainEnd, durable
<1>4. Debts(repairs') \subseteq Debts(repairs)
  <2>1. pc[w] \in {"done", "failed"} => batch # <<>>
    BY DEF Shape, Roles
  <2>2. CASE DrainDone(w)
    BY <2>1, <2>2, DrainDoneLedger DEF DrainDone
  <2>3. CASE DrainFailed(w)
    BY <2>1, <2>3, DrainFailedLedger DEF DrainFailed
  <2>4. CASE UNCHANGED repairs
    BY <2>4
  <2> QED BY <2>2, <2>3, <2>4 DEF DrainStep, DrainOk, DrainFail, DrainEnd, durable
<1>5. Rows' /\ Events' /\ Current' /\ QueuedLate'
  <2>1. ~HasEvent(w) /\ pc[w] \in Locked
    BY <1>2 DEF HasEvent, Live, Locked
  <2> QED BY <1>2, <1>3, <1>4, <2>1, DrainOrder
<1>6. todo = {}
  BY <1>1, <1>2, NothingToDo DEF Locked
<1>7. Unused'
  <2>1. ASSUME NEW m \in fresh PROVE index'[m] = index[m]
    <3>1. m \in Mem
      BY <1>1 DEF TypeOK
    <3>2. batch # <<>> => m # Head(batch).mem
      <4>1. batch # <<>> => Debt(Head(batch)) \in Debts(repairs)
                            /\ Debt(Head(batch)).mem = Head(batch).mem
        BY HeadOf, DebtFields
      <4> QED BY <4>1 DEF Order, Rows
    <3>3. CASE DrainOk(w)
      BY <1>1, <3>1, <3>2, <3>3 DEF DrainOk, TypeOK
    <3>4. CASE DrainFail(w)
      BY <1>1, <3>1, <3>2, <3>4 DEF DrainFail, TypeOK
    <3>5. CASE UNCHANGED index
      BY <3>5
    <3>6. DrainDone(w) => UNCHANGED index
      BY DEF DrainDone
    <3> QED BY <3>3, <3>4, <3>5, <3>6 DEF DrainStep, DrainFailed, DrainEnd, durable
  <2> QED BY <1>3, <2>1 DEF Order, Unused
<1>8. Snapshot'
  <2>1. \A u \in Worker : u # w => pc'[u] \notin {"list", "reconcile"}
    BY <1>1, <1>2, Alone, Values DEF Locked
  <2> QED BY <1>2, <1>3, <1>6, <2>1 DEF Snapshot
<1> QED BY <1>5, <1>7, <1>8 DEF Order
----------------------------------------------------------------------------
(* Order: reconcile, import, export, requeue and a death.                  *)

\* A reconcile reads the projection and the index at its start.
LEMMA ListOrder ==
    ASSUME Shape, Order, NEW w \in Worker, List(w)
    PROVE  Order'
<1>1. TypeOK /\ w \in Thread
  BY Values DEF Shape
<1>2. /\ pc[w] = "list" /\ pc'[w] = "reconcile"
      /\ \A u \in Thread : u # w => pc'[u] = pc[u]
  BY <1>1, Moved DEF List, Places
<1>3. /\ UNCHANGED <<table, seq, repairs, index, backup, fresh, ev, batch, lost>>
      /\ want' = table /\ todo' = {m \in Mem : table[m] # Gone \/ index[m] # Gone}
  BY DEF List, durable
<1>4. Rows' /\ Events' /\ Current' /\ QueuedLate'
  <2>1. ~HasEvent(w) /\ Debts(repairs') = Debts(repairs)
    BY <1>2, <1>3 DEF HasEvent, Live
  <2> QED BY <1>2, <1>3, <2>1, DrainOrder
<1>5. Unused'
  BY <1>3 DEF Order, Unused
<1>6. Snapshot'
  <2>1. \A u \in Worker : u # w => pc'[u] \notin {"list", "reconcile"}
    BY <1>1, <1>2, Alone, Values DEF Locked
  <2>2. batch = <<>> => Debts(repairs) = {}
    BY <1>2 DEF Order, Snapshot
  <2> QED BY <1>2, <1>3, <2>1, <2>2 DEF Snapshot
<1> QED BY <1>4, <1>5, <1>6 DEF Order

LEMMA ListFailOrder ==
    ASSUME Shape, Order, NEW w \in Worker, ListFail(w)
    PROVE  Order'
<1>1. TypeOK /\ w \in Thread
  BY Values DEF Shape
<1>2. /\ pc[w] = "list" /\ pc'[w] \in {"idle", "failed"}
      /\ \A u \in Thread : u # w => pc'[u] = pc[u]
  BY <1>1, Moved DEF ListFail, Places
<1>3. UNCHANGED <<table, seq, index, backup, fresh, ev, batch, todo, want, lost>>
  BY DEF ListFail
<1>4. \A d \in Debts(repairs') :
         \/ d \in Debts(repairs)
         \/ /\ d.seq = 0 /\ ~d.late /\ d.mem \notin fresh
            /\ d.kind = "MemoryDeleted" => table[d.mem] = Gone
  <2> SUFFICES ASSUME NEW d \in Debts(repairs'), d \notin Debts(repairs)
               PROVE  /\ d.seq = 0 /\ ~d.late /\ d.mem \notin fresh
                      /\ d.kind = "MemoryDeleted" => table[d.mem] = Gone
    OBVIOUS
  <2>1. CASE d.mem = All /\ d.seq = 0 /\ ~d.late /\ d.kind = "MemoryIndexReconcile"
    BY <1>1, <2>1, Values DEF TypeOK
  <2>2. CASE /\ d.mem \in Mem /\ table[d.mem] # Gone
             /\ d.kind = "MemoryDerived" /\ d.seq = 0 /\ ~d.late
    BY <2>2 DEF Order, Unused
  <2> QED BY <2>1, <2>2, ListFailLedger
<1>5. Rows' /\ Events' /\ Current' /\ QueuedLate'
  <2>1. ~HasEvent(w)
    BY <1>2 DEF HasEvent, Live
  <2> QED BY <1>2, <1>3, <1>4, <2>1, DrainOrder
<1>6. Unused'
  BY <1>3 DEF Order, Unused
<1>7. Snapshot'
  <2>1. \A u \in Worker : pc'[u] \notin {"list", "reconcile"}
    BY <1>1, <1>2, Alone, Values DEF Locked
  <2>2. todo' = {}
    BY <1>1, <1>2, <1>3, NothingToDo DEF Locked
  <2> QED BY <2>1, <2>2 DEF Snapshot
<1> QED BY <1>5, <1>6, <1>7 DEF Order

LEMMA ReconcileOkOrder ==
    ASSUME Shape, Order, NEW w \in Worker, NEW m \in Mem, ReconcileOk(w, m)
    PROVE  Order'
<1>1. TypeOK /\ w \in Thread
  BY Values DEF Shape
<1>2. /\ UNCHANGED <<table, seq, repairs, backup, fresh, pc, ev, batch, want>>
      /\ todo' = todo \ {m} /\ m \in todo /\ pc[w] = "reconcile"
      /\ index' = [index EXCEPT ![m] = want[m]]
  BY DEF ReconcileOk
<1>3. Rows' /\ Events' /\ Current' /\ QueuedLate'
  <2>1. ~HasEvent(w) /\ Debts(repairs') = Debts(repairs) /\ pc[w] \in Locked
    BY <1>2 DEF HasEvent, Live, Locked
  <2> QED BY <1>2, <2>1, DrainOrder
<1>4. Unused'
  BY <1>1, <1>2 DEF Order, Unused, TypeOK
<1>5. Snapshot'
  BY <1>2 DEF Order, Snapshot
<1> QED BY <1>3, <1>4, <1>5 DEF Order

LEMMA ReconcileFailOrder ==
    ASSUME Shape, Order, NEW w \in Worker, NEW m \in Mem, ReconcileFail(w, m)
    PROVE  Order'
<1>1. TypeOK /\ w \in Thread
  BY Values DEF Shape
<1>2. /\ UNCHANGED <<table, seq, backup, fresh, pc, ev, batch, want, lost>>
      /\ todo' = todo \ {m} /\ m \in todo /\ pc[w] = "reconcile"
  BY DEF ReconcileFail
<1> DEFINE debt == [mem |-> m, kind |-> Kind(want[m]), seq |-> 0, late |-> FALSE]
<1>3. Debts(repairs') \subseteq Debts(repairs) \union {debt}
  BY ReconcileFailLedger
<1>4. /\ debt.seq = 0 /\ ~debt.late /\ debt.mem = m /\ m \notin fresh
      /\ debt.kind = "MemoryDeleted" => table[m] = Gone
  <2>1. debt.kind = "MemoryDeleted" => want[m] = Gone
    BY KindFacts
  <2> QED BY <1>2, <2>1 DEF Order, Unused, Snapshot
<1> HIDE DEF debt
<1>5. Rows' /\ Events' /\ Current' /\ QueuedLate'
  <2>1. ~HasEvent(w)
    BY <1>2 DEF HasEvent, Live
  <2>2. \A d \in Debts(repairs') :
              \/ d \in Debts(repairs)
              \/ /\ d.seq = 0 /\ ~d.late /\ d.mem \notin fresh
                 /\ d.kind = "MemoryDeleted" => table[d.mem] = Gone
    BY <1>3, <1>4
  <2>3. pc'[w] \notin {"checked", "sync", "queue"}
    BY <1>2
  <2> QED BY <1>2, <2>1, <2>2, <2>3, DrainOrder
<1>6. Unused'
  <2>1. \A k \in Mem \ {m} : index'[k] = index[k]
    <3>1. want[m] \in Entry
      BY <1>1 DEF TypeOK
    <3> QED BY <1>1, <3>1, FailedWrite DEF ReconcileFail
  <2>2. fresh \subseteq Mem \ {m}
    BY <1>1, <1>4 DEF TypeOK
  <2> QED BY <1>2, <2>1, <2>2 DEF Order, Unused
<1>7. Snapshot'
  <2>1. \A d \in Debts(repairs') : d \in Debts(repairs) \/ d.mem \notin todo'
    BY <1>2, <1>3, <1>4
  <2>2. \A u \in Worker : pc[u] # "list"
    BY <1>1, <1>2, Alone, Values DEF Locked
  <2> QED BY <1>2, <2>1, <2>2 DEF Order, Snapshot
<1> QED BY <1>5, <1>6, <1>7 DEF Order

LEMMA ReconcileEndOrder ==
    ASSUME Shape, Order, NEW w \in Worker, ReconcileEnd(w)
    PROVE  Order'
<1>1. TypeOK /\ w \in Thread
  BY Values DEF Shape
<1>2. /\ pc[w] = "reconcile" /\ pc'[w] \in {"idle", "done"}
      /\ \A u \in Thread : u # w => pc'[u] = pc[u]
  BY <1>1, Moved DEF ReconcileEnd, Places
<1>3. UNCHANGED <<table, seq, repairs, index, backup, fresh, ev, batch, todo, lost>> /\ todo = {}
  BY DEF ReconcileEnd, durable
<1>4. Rows' /\ Events' /\ Current' /\ QueuedLate'
  <2>1. ~HasEvent(w) /\ Debts(repairs') = Debts(repairs)
    BY <1>2, <1>3 DEF HasEvent, Live
  <2> QED BY <1>2, <1>3, <2>1, DrainOrder
<1>5. Unused'
  BY <1>3 DEF Order, Unused
<1>6. Snapshot'
  <2>1. \A u \in Worker : pc'[u] \notin {"list", "reconcile"}
    BY <1>1, <1>2, Alone, Values DEF Locked
  <2> QED BY <1>3, <2>1 DEF Snapshot
<1> QED BY <1>4, <1>5, <1>6 DEF Order

\* An import makes every event that waits for the lock late, and empties the
\* queue.
LEMMA ImportOrder ==
    ASSUME Shape, Order, NEW w \in Worker, Import(w)
    PROVE  Order'
<1>1. TypeOK /\ w \in Thread
  BY Values DEF Shape
<1>2. /\ pc'[w] = "list" /\ pc[w] = "idle"
      /\ \A u \in Thread : u # w => pc'[u] = pc[u]
  BY <1>1, Moved DEF Import, Places
<1>3. /\ LockFree /\ table' = backup.table /\ repairs' = <<>> /\ lost' = {}
      /\ UNCHANGED <<index, backup, fresh, batch, todo, want>>
  BY DEF Import
<1>4. batch = <<>> /\ todo = {}
  BY <1>3, FreeLock
<1>5. Debts(repairs') = {}
  BY <1>3 DEF Debts
<1>6. \A t \in Thread : /\ ev'[t].mem = ev[t].mem /\ ev'[t].text = ev[t].text
                        /\ ev'[t].seq = ev[t].seq
                        /\ HasEvent(t)' => HasEvent(t)
                        /\ Live(t)' => Live(t) /\ ev'[t].late
                        /\ pc'[t] # "queue"
  <2>1. \A t \in Thread : pc[t] # "queue"
    BY <1>3 DEF LockFree, Locked
  <2> QED BY <1>2, <2>1, ImportEvents DEF HasEvent, Live
<1>7. Rows' /\ Current' /\ QueuedLate'
  BY <1>5, <1>6, Values DEF Rows, Current, QueuedLate
<1>8. Events'
  BY <1>3, <1>5, <1>6, Values DEF Order, Events
<1>9. Unused'
  BY <1>3 DEF Order, Unused
<1>10. Snapshot'
  <2>1. \A u \in Worker : pc'[u] # "reconcile"
    BY <1>2, <1>3, Values DEF LockFree, Locked
  <2> QED BY <1>3, <1>4, <1>5, <2>1 DEF Snapshot
<1> QED BY <1>7, <1>8, <1>9, <1>10 DEF Order

LEMMA ExportOrder ==
    ASSUME Shape, Order, Export
    PROVE  Order'
<1>1. /\ UNCHANGED <<table, seq, repairs, index, fresh, pc, ev, batch, todo, want, lost>>
      /\ backup' = [table |-> table, seq |-> seq, taken |-> TRUE]
  BY DEF Export, threads
<1> QED BY <1>1 DEF Order, Rows, Events, Current, QueuedLate, Unused, Snapshot,
           HasEvent, Live, Overtakes

LEMMA RequeueOrder ==
    ASSUME Shape, Order, NEW i \in 1..Len(repairs), Requeue(i)
    PROVE  Order'
<1>1. UNCHANGED <<table, seq, index, backup, fresh, pc, ev, batch, todo, want, lost>>
  BY DEF Requeue, threads
<1>2. Debts(repairs') = Debts(repairs)
  BY RequeueLedger
<1> QED BY <1>1, <1>2 DEF Order, Rows, Events, Current, QueuedLate, Unused, Snapshot,
           HasEvent, Live, Overtakes

LEMMA CrashOrder ==
    ASSUME Shape, Order, Crash
    PROVE  Order'
<1>1. /\ UNCHANGED <<table, seq, repairs, index, backup, fresh>>
      /\ batch' = <<>> /\ todo' = {}
  BY DEF Crash, durable
<1>2. \A t \in Thread : pc'[t] = "idle"
  BY DEF Crash
<1> QED BY <1>1, <1>2, Values
    DEF Order, Rows, Events, Current, QueuedLate, Unused, Snapshot, HasEvent, Live
----------------------------------------------------------------------------
(* Order: new memories and look-ups.                                       *)

LEMMA DeriveOrder ==
    ASSUME Shape, Order, NEW w \in Worker, NEW m \in Mem, NEW text \in Text, Derive(w, m, text)
    PROVE  Order'
<1>1. TypeOK /\ w \in Thread /\ Loop # w /\ Loop \in Thread
  BY Values DEF Shape
<1>2. /\ pc'[w] = "sync" /\ pc[w] = "idle"
      /\ \A u \in Thread : u # w => pc'[u] = pc[u]
  BY <1>1, Moved DEF Derive, Places
<1> DEFINE e == [mem |-> m, text |-> text, seq |-> seq + 1, late |-> FALSE]
<1>3. /\ e.mem = m /\ e.text = text /\ e.seq = seq + 1 /\ ~e.late /\ text # Gone
  BY Values
<1>4. ev' = [ev EXCEPT ![w] = e] /\ ev \in [Thread -> Event]
  BY <1>1 DEF Derive, TypeOK
<1> HIDE DEF e
<1>5. ev'[w] = e /\ \A u \in Thread : u # w => ev'[u] = ev[u]
  BY <1>1, <1>4
<1>6. /\ m \in fresh /\ fresh' = fresh \ {m} /\ seq' = seq + 1 /\ seq \in Nat
      /\ UNCHANGED <<repairs, index, backup, batch, todo, want, lost>>
  BY <1>1 DEF Derive, TypeOK
<1>7. table'[m] = text /\ \A k \in Mem : k # m => table'[k] = table[k]
  BY <1>1 DEF Derive, TypeOK
<1>8. \A u \in Thread : u # w => /\ HasEvent(u)' = HasEvent(u) /\ Live(u)' = Live(u)
                                 /\ HasEvent(u) => ev[u].mem # m /\ ev[u].mem \in Mem
  BY <1>2, <1>6 DEF HasEvent, Live, Order, Events, Shape, Roles
<1>9. \A d \in Debts(repairs) : d.mem # m /\ d.seq \in Nat
  <2>1. Debts(repairs) \subseteq DebtSet
    BY <1>1, DebtsType DEF TypeOK
  <2> QED BY <1>6, <2>1 DEF Order, Rows, DebtSet
<1>10. Rows'
  <2> SUFFICES ASSUME NEW d \in Debts(repairs)
               PROVE  /\ d.mem \notin fresh'
                      /\ d.seq = 0 => ~d.late
                      /\ ~d.late => /\ d.seq <= seq'
                                    /\ d.kind = "MemoryDeleted" => table'[d.mem] = Gone
    BY <1>6 DEF Rows
  <2>1. d.seq <= seq => d.seq <= seq'
    BY <1>6, <1>9
  <2>2. d.kind = "MemoryDeleted" => d.mem \in Mem
    <3>1. d.mem \in Mem \union {All}
      BY <1>1, DebtsType DEF TypeOK, DebtSet
    <3>2. ProperKind(d.kind, d.mem)
      BY DEF Shape, Ledger
    <3> QED BY <3>1, <3>2 DEF ProperKind
  <2> QED BY <1>6, <1>7, <1>9, <2>1, <2>2 DEF Order, Rows
<1>11. Events'
  <2>1. \A t \in Thread : HasEvent(t)' => ev'[t].mem \notin fresh'
    BY <1>3, <1>5, <1>6, <1>8 DEF Order, Events
  <2>2. \A u \in Worker : Live(u)' => ev'[u].text # Gone
    BY <1>3, <1>5, <1>8, Values DEF Order, Events
  <2>3. \A t \in Thread : Live(t)' => ev'[t].seq > 0
    BY <1>3, <1>5, <1>6, <1>8 DEF Order, Events
  <2>4. \A t \in Thread : Live(t)' => ev'[t].seq \in Nat
    <3>1. \A t \in Thread : Live(t) => ev[t].seq \in Nat
      BY EventOf DEF HasEvent
    <3> QED BY <1>3, <1>5, <1>6, <1>8, <3>1
  <2>5. \A t \in Thread : t # w /\ Live(t) /\ ~ev[t].late => ev[t].seq < seq + 1
    <3> SUFFICES ASSUME NEW t \in Thread, t # w, Live(t), ~ev[t].late
                 PROVE  ev[t].seq < seq + 1
      OBVIOUS
    <3>1. ev[t].seq \in Nat /\ ev[t].seq <= seq
      BY <1>5, <1>8, <2>4 DEF Order, Events
    <3> QED BY <1>6, <3>1
  <2>6. \A t \in Thread : Live(t)' /\ ~ev'[t].late => ev'[t].seq <= seq'
    <3> SUFFICES ASSUME NEW t \in Thread, Live(t)', ~ev'[t].late
                 PROVE  ev'[t].seq <= seq'
      OBVIOUS
    <3>1. CASE t = w
      BY <1>3, <1>5, <1>6, <3>1
    <3>2. CASE t # w
      <4>1. ev'[t].seq < seq + 1 /\ ev'[t].seq \in Nat
        BY <1>5, <1>8, <2>4, <2>5, <3>2
      <4> QED BY <1>6, <4>1
    <3> QED BY <3>1, <3>2
  <2>7. \A t, u \in Thread :
          Live(t)' /\ Live(u)' /\ ~ev'[t].late /\ ~ev'[u].late /\ ev'[t].seq = ev'[u].seq
          => t = u
    <3>1. \A t \in Thread : t # w /\ Live(t) /\ ~ev[t].late => ev[t].seq # seq + 1
      BY <1>6, <2>5
    <3> QED BY <1>3, <1>5, <1>8, <3>1 DEF Order, Events
  <2>8. \A t \in Thread, d \in Debts(repairs)' :
          Live(t)' /\ ~ev'[t].late /\ d.mem = ev'[t].mem /\ d.seq = ev'[t].seq => d.late
    BY <1>3, <1>5, <1>6, <1>8, <1>9 DEF Order, Events
  <2> QED BY <2>1, <2>2, <2>3, <2>6, <2>7, <2>8 DEF Events
<1>12. Current'
  <2>1. Live(Loop)' /\ ~ev'[Loop].late => ev'[Loop].text = table'[ev'[Loop].mem]
    BY <1>1, <1>5, <1>7, <1>8 DEF Order, Current, HasEvent
  <2>2. ASSUME NEW u \in Worker, Live(u)', ~ev'[u].late
        PROVE  ev'[u].text = table'[ev'[u].mem] \/ Overtakes(u)'
    <3>1. CASE u = w
      BY <1>3, <1>5, <1>7, <3>1
    <3>2. CASE u # w
      <4>1. u \in Thread /\ Live(u) /\ ev'[u] = ev[u] /\ ev[u].mem # m /\ ev[u].mem \in Mem
        BY <1>5, <1>8, <2>2, <3>2, Values DEF HasEvent
      <4>2. Overtakes(u) => Overtakes(u)'
        BY <1>1, <1>2, <1>5, <4>1 DEF Overtakes
      <4> QED BY <1>7, <2>2, <4>1, <4>2 DEF Order, Current
    <3> QED BY <3>1, <3>2
  <2> QED BY <2>1, <2>2 DEF Current
<1>13. QueuedLate'
  BY <1>2, <1>5, <1>6 DEF Order, QueuedLate
<1>14. Unused'
  BY <1>1, <1>6, <1>7 DEF Order, Unused, TypeOK
<1>15. Snapshot'
  <2>1. m \notin todo /\ todo \subseteq Mem
    BY <1>1, <1>6 DEF Order, Unused, TypeOK
  <2>2. \A k \in todo : table'[k] = table[k]
    BY <1>7, <2>1
  <2>3. \A k \in todo : (\E t \in Thread : pc[t] = "sync" /\ ev[t].mem = k)
                        => \E t \in Thread : pc'[t] = "sync" /\ ev'[t].mem = k
    BY <1>2, <1>5
  <2>4. \A u \in Worker : pc'[u] \in {"list", "reconcile"} => pc'[u] = pc[u]
    BY <1>2, Values
  <2> QED BY <1>6, <2>2, <2>3, <2>4 DEF Order, Snapshot
<1> QED BY <1>10, <1>11, <1>12, <1>13, <1>14, <1>15 DEF Order

LEMMA CheckOrder ==
    ASSUME Shape, Order, NEW m \in Mem, NEW text \in Entry, Check(m, text)
    PROVE  Order'
<1>1. TypeOK /\ Loop \in Thread /\ Loop \notin Worker
  BY Values DEF Shape
<1>2. /\ pc'[Loop] = "checked" /\ pc[Loop] = "idle"
      /\ \A u \in Thread : u # Loop => pc'[u] = pc[u]
  BY <1>1, Moved DEF Check, Places
<1> DEFINE e == [mem |-> m, text |-> text, seq |-> 0, late |-> FALSE]
<1>3. ev' = [ev EXCEPT ![Loop] = e] /\ ev \in [Thread -> Event] /\ e.mem = m
  BY <1>1 DEF Check, TypeOK
<1> HIDE DEF e
<1>4. ev'[Loop].mem = m /\ \A u \in Thread : u # Loop => ev'[u] = ev[u]
  BY <1>1, <1>3
<1>5. UNCHANGED <<table, seq, repairs, index, backup, fresh, batch, todo, want, lost>>
  BY DEF Check, durable
<1>6. m \notin fresh
  BY DEF Check, Order, Unused
<1>7. \A t \in Thread : /\ Live(t)' => Live(t) /\ t # Loop /\ ev'[t] = ev[t]
                        /\ HasEvent(t)' => t = Loop \/ HasEvent(t)
                        /\ pc'[t] = "queue" => pc[t] = "queue"
                        /\ pc[t] = "sync" => pc'[t] = "sync" /\ ev'[t] = ev[t]
  BY <1>2, <1>4 DEF Live, HasEvent
<1>8. Rows' /\ Unused'
  BY <1>5 DEF Order, Rows, Unused
<1>9. Events'
  <2>1. \A t \in Thread : HasEvent(t)' => ev'[t].mem \notin fresh'
    BY <1>4, <1>5, <1>6, <1>7 DEF Order, Events
  <2> QED BY <1>5, <1>7, <2>1, Values DEF Order, Events
<1>10. Current'
  <2>1. \A u \in Worker : ~Overtakes(u)
    BY <1>2 DEF Overtakes
  <2> QED BY <1>1, <1>5, <1>7, <2>1, Values DEF Order, Current
<1>11. QueuedLate'
  BY <1>2, <1>4, <1>5 DEF Order, QueuedLate
<1>12. Snapshot'
  BY <1>2, <1>5, <1>7, Values DEF Order, Snapshot
<1> QED BY <1>8, <1>9, <1>10, <1>11, <1>12 DEF Order
----------------------------------------------------------------------------
(* Order: commits of the loop.                                             *)

LEMMA CommitOrder ==
    ASSUME Shape, Order, Commit
    PROVE  Order'
<1>1. TypeOK /\ Loop \in Thread /\ Loop \notin Worker
  BY Values DEF Shape
<1>2. /\ pc'[Loop] = "sync" /\ pc[Loop] = "checked"
      /\ \A u \in Thread : u # Loop => pc'[u] = pc[u]
  BY <1>1, Moved DEF Commit, Places
<1> DEFINE m == ev[Loop].mem
           e == ev'[Loop]
<1>3. m \in Mem /\ m \notin fresh /\ HasEvent(Loop)
  BY <1>1, <1>2, EventOf DEF Order, Events, HasEvent
<1>4. /\ e.mem = m /\ e.text = ev[Loop].text /\ e.seq = seq + 1
      /\ e.late <=> table[m] = Gone
      /\ \A u \in Thread : u # Loop => ev'[u] = ev[u]
  BY CommitEvent
<1>5. /\ UNCHANGED <<repairs, index, backup, fresh, batch, todo, want, lost>>
      /\ seq' = seq + 1 /\ seq \in Nat
  BY <1>1 DEF Commit, TypeOK
<1>6. /\ table'[m] = IF table[m] = Gone THEN Gone ELSE ev[Loop].text
      /\ \A k \in Mem : k # m => table'[k] = table[k]
  BY <1>1, <1>3 DEF Commit, TypeOK
<1> HIDE DEF m, e
<1>7. \A u \in Thread : u # Loop => /\ HasEvent(u)' = HasEvent(u) /\ Live(u)' = Live(u)
                                    /\ HasEvent(u) => ev[u].mem \in Mem
  BY <1>2 DEF HasEvent, Live, Shape, Roles
<1>8. \A d \in Debts(repairs) : d.seq \in Nat
  BY <1>1, DebtsType DEF TypeOK, DebtSet
<1>9. Rows'
  <2> SUFFICES ASSUME NEW d \in Debts(repairs)
               PROVE  /\ d.mem \notin fresh
                      /\ d.seq = 0 => ~d.late
                      /\ ~d.late => /\ d.seq <= seq'
                                    /\ d.kind = "MemoryDeleted" => table'[d.mem] = Gone
    BY <1>5 DEF Rows
  <2>1. d.seq <= seq => d.seq <= seq'
    BY <1>5, <1>8
  <2>2. d.kind = "MemoryDeleted" => d.mem \in Mem
    <3>1. d.mem \in Mem \union {All}
      BY <1>1, DebtsType DEF TypeOK, DebtSet
    <3>2. ProperKind(d.kind, d.mem)
      BY DEF Shape, Ledger
    <3> QED BY <3>1, <3>2 DEF ProperKind
  <2> QED BY <1>6, <2>1, <2>2 DEF Order, Rows
<1>10. \A t \in Thread : t # Loop /\ Live(t) =>
           ev[t].seq \in Nat /\ (~ev[t].late => ev[t].seq < seq + 1 /\ ev[t].seq <= seq + 1)
  <2> SUFFICES ASSUME NEW t \in Thread, t # Loop, Live(t)
               PROVE  ev[t].seq \in Nat
                      /\ (~ev[t].late => ev[t].seq < seq + 1 /\ ev[t].seq <= seq + 1)
    OBVIOUS
  <2>1. ev[t].seq \in Nat
    BY EventOf DEF HasEvent
  <2>2. ~ev[t].late => ev[t].seq <= seq
    BY DEF Order, Events
  <2> QED BY <1>5, <2>1, <2>2
<1>11. Events'
  <2>1. \A t \in Thread : HasEvent(t)' => ev'[t].mem \notin fresh'
    BY <1>3, <1>4, <1>5, <1>7 DEF Order, Events, e
  <2>2. \A u \in Worker : Live(u)' => ev'[u].text # Gone
    BY <1>1, <1>4, <1>7, Values DEF Order, Events
  <2>3. \A t \in Thread : Live(t)' => ev'[t].seq > 0
    <3>1. e.seq > 0
      BY <1>4, <1>5
    <3> QED BY <1>4, <1>7, <3>1 DEF Order, Events, e
  <2>4. \A t \in Thread : Live(t)' /\ ~ev'[t].late => ev'[t].seq <= seq'
    <3>1. e.seq <= seq'
      BY <1>4, <1>5
    <3> QED BY <1>4, <1>5, <1>7, <1>10, <3>1 DEF e
  <2>5. \A t, u \in Thread :
          Live(t)' /\ Live(u)' /\ ~ev'[t].late /\ ~ev'[u].late /\ ev'[t].seq = ev'[u].seq
          => t = u
    <3>1. \A t \in Thread : t # Loop /\ Live(t) /\ ~ev[t].late => ev[t].seq # seq + 1
      BY <1>5, <1>10
    <3> QED BY <1>4, <1>7, <3>1 DEF Order, Events, e
  <2>6. \A t \in Thread, d \in Debts(repairs)' :
          Live(t)' /\ ~ev'[t].late /\ d.mem = ev'[t].mem /\ d.seq = ev'[t].seq => d.late
    <3>1. \A d \in Debts(repairs) : d.seq = seq + 1 => d.late
      BY <1>5, <1>8 DEF Order, Rows
    <3> QED BY <1>4, <1>5, <1>7, <3>1 DEF Order, Events, e
  <2> QED BY <2>1, <2>2, <2>3, <2>4, <2>5, <2>6 DEF Events
<1>12. Current'
  <2>1. Live(Loop)' /\ ~ev'[Loop].late => ev'[Loop].text = table'[ev'[Loop].mem]
    BY <1>4, <1>6 DEF e
  <2>2. ASSUME NEW u \in Worker, Live(u)', ~ev'[u].late
        PROVE  ev'[u].text = table'[ev'[u].mem] \/ Overtakes(u)'
    <3>1. u \in Thread /\ u # Loop
      BY <1>1, Values
    <3>2. Live(u) /\ ev'[u] = ev[u] /\ ev[u].mem \in Mem /\ ~Overtakes(u)
      BY <1>2, <1>4, <1>7, <2>2, <3>1 DEF HasEvent, Overtakes
    <3>3. ev[u].text = table[ev[u].mem]
      BY <2>2, <3>2 DEF Order, Current
    <3>4. CASE ev[u].mem # m \/ table[m] = Gone
      BY <1>6, <3>2, <3>3, <3>4
    <3>5. CASE ev[u].mem = m /\ table[m] # Gone
      <4>1. ev[u].seq < seq + 1
        BY <1>10, <2>2, <3>1, <3>2
      <4> QED BY <1>2, <1>4, <3>2, <3>5, <4>1 DEF Overtakes, e
    <3> QED BY <3>4, <3>5
  <2> QED BY <2>1, <2>2 DEF Current
<1>13. QueuedLate'
  BY <1>2, <1>4, <1>5 DEF Order, QueuedLate
<1>14. Unused'
  BY <1>1, <1>3, <1>5, <1>6 DEF Order, Unused, TypeOK
<1>15. Snapshot'
  <2> DEFINE synced(k) == \E t \in Thread : pc[t] = "sync" /\ ev[t].mem = k
             willBe(k) == \E t \in Thread : pc'[t] = "sync" /\ ev'[t].mem = k
  <2>1. \A k \in todo : k \in Mem
    BY <1>1 DEF TypeOK
  <2>2. ASSUME NEW k \in todo
        PROVE  /\ want[k] = Gone => table'[k] = Gone
               /\ want[k] = table'[k] \/ willBe(k)
    <3>1. synced(k) => willBe(k)
      BY <1>2, <1>4
    <3>2. k = m => willBe(k)
      BY <1>1, <1>2, <1>4 DEF e
    <3>3. /\ want[k] = Gone => table[k] = Gone
          /\ want[k] = table[k] \/ synced(k)
      BY DEF Order, Snapshot
    <3> HIDE DEF synced, willBe
    <3> QED BY <1>6, <2>1, <3>1, <3>2, <3>3
  <2>3. \A u \in Worker : pc'[u] \in {"list", "reconcile"} => pc'[u] = pc[u]
    BY <1>1, <1>2, Values
  <2> QED BY <1>5, <2>2, <2>3 DEF Order, Snapshot
<1> QED BY <1>9, <1>11, <1>12, <1>13, <1>14, <1>15 DEF Order
----------------------------------------------------------------------------
(* Order: syncs and what they queue.                                       *)

\* A sync marks what it overtakes and leaves the other events as they are.
LEMMA SyncOrder ==
    ASSUME Shape, Order, NEW t \in Thread, pc[t] = "sync", LockFree,
           UNCHANGED <<table, seq, fresh, repairs>>,
           \A u \in Thread : u # t => pc'[u] = pc[u] /\ ev'[u] = Overtaken(t)[u],
           pc'[t] \in {"idle", "queue"},
           pc'[t] = "queue" => ev'[t] = ev[t]
    PROVE  Rows' /\ Events' /\ Current'
<1>1. /\ Loop \in Thread /\ Loop \notin Worker
      /\ \A w \in Worker : w \in Thread
      /\ \A u \in Thread : Live(u) => ev[u].seq \in Nat
  BY Values, EventOf DEF HasEvent
<1>2. \A u \in Thread :
         /\ HasEvent(u)' => /\ HasEvent(u)
                            /\ ev'[u].mem = ev[u].mem /\ ev'[u].text = ev[u].text
                            /\ ev'[u].seq = ev[u].seq
                            /\ ~ev'[u].late => ~ev[u].late
         /\ Live(u)' => Live(u) /\ HasEvent(u)'
  BY OvertakenFacts DEF HasEvent, Live
<1>3. Rows'
  BY DEF Order, Rows
<1>4. Events'
  BY <1>1, <1>2 DEF Order, Events
<1>5. Live(Loop)' /\ ~ev'[Loop].late => ev'[Loop].text = table'[ev'[Loop].mem]
  BY <1>1, <1>2 DEF Order, Current
<1>6. ASSUME NEW w \in Worker, Live(w)', ~ev'[w].late
      PROVE  ev'[w].text = table'[ev'[w].mem] \/ Overtakes(w)'
  <2>1. w \in Thread /\ w # Loop /\ Live(w) /\ ~ev[w].late
    BY <1>1, <1>2, <1>6
  <2>2. CASE ev[w].text = table[ev[w].mem]
    BY <1>2, <1>6, <2>1, <2>2
  <2>3. CASE Overtakes(w)
    <3>1. pc[w] = "sync"
      BY <2>1 DEF Live, LockFree, Locked
    <3>2. /\ pc[Loop] = "sync" /\ ~ev[Loop].late
          /\ ev[Loop].mem = ev[w].mem /\ ev[w].seq < ev[Loop].seq
      BY <2>3 DEF Overtakes
    <3>3. ev[w].seq \in Nat /\ ev[Loop].seq \in Nat /\ ev[t].seq \in Nat
      BY <1>1, <2>1, <3>2 DEF Live
    <3>4. t # Loop
      <4>1. t = Loop => Overtaken(t)[w].late
        BY <2>1, <3>1, <3>2, OvertakenFacts
      <4> QED BY <1>6, <2>1, <4>1
    <3>5. ev'[Loop] = Overtaken(t)[Loop] /\ pc'[Loop] = "sync"
      BY <1>1, <3>2, <3>4
    <3>6. CASE ~ev'[Loop].late
      <4>1. HasEvent(Loop)' /\ HasEvent(w)'
        BY <1>2, <1>6, <2>1, <3>5 DEF HasEvent, Live
      <4> QED BY <1>1, <1>2, <2>1, <3>2, <3>5, <3>6, <4>1 DEF Overtakes
    <3>7. CASE ev'[Loop].late
      <4>1. ~ev[t].late /\ ev[Loop].mem = ev[t].mem /\ ev[Loop].seq < ev[t].seq
        BY <1>1, <3>2, <3>5, <3>7, OvertakenFacts
      <4>2. w # t /\ ev[w].seq < ev[t].seq
        BY <3>2, <3>3, <4>1
      <4>3. Overtaken(t)[w].late
        <5>1. ev[w].mem = ev[t].mem
          BY <3>2, <4>1
        <5> QED BY <2>1, <3>1, <4>1, <4>2, <5>1, OvertakenFacts, ZenonT(60)
      <4> QED BY <1>6, <2>1, <4>2, <4>3
    <3> QED BY <3>6, <3>7
  <2> QED BY <2>1, <2>2, <2>3 DEF Order, Current
<1> QED BY <1>3, <1>4, <1>5, <1>6 DEF Current

LEMMA SyncOkOrder ==
    ASSUME Shape, Order, NEW t \in Thread, SyncOk(t)
    PROVE  Order'
<1>1. TypeOK
  BY DEF Shape
<1>2. /\ pc'[t] = "idle" /\ pc[t] = "sync" /\ LockFree
      /\ \A u \in Thread : u # t => pc'[u] = pc[u]
  BY <1>1, Moved DEF SyncOk, Places
<1>3. /\ UNCHANGED <<table, seq, repairs, backup, fresh, batch, todo, want>>
      /\ index' = [index EXCEPT ![ev[t].mem] = ev[t].text]
  BY DEF SyncOk
<1>4. \A u \in Thread : u # t => ev'[u] = Overtaken(t)[u]
  <2> DEFINE marked == Overtaken(t)
  <2>1. ev' = [marked EXCEPT ![t] = NoEvent] /\ marked \in [Thread -> Event]
    BY OvertakenFacts DEF SyncOk
  <2> HIDE DEF marked
  <2>2. \A u \in Thread : u # t => ev'[u] = marked[u]
    BY <2>1
  <2> QED BY <2>2 DEF marked
<1>5. Rows' /\ Events' /\ Current'
  BY <1>2, <1>3, <1>4, SyncOrder
<1>6. batch = <<>> /\ todo = {} /\ \A u \in Thread : pc'[u] \notin Locked
  BY <1>2, FreeLock DEF LockFree, Locked
<1>7. QueuedLate'
  BY <1>6 DEF QueuedLate, Locked
<1>8. Unused'
  <2>1. ev[t].mem \notin fresh /\ fresh \subseteq Mem
    BY <1>1, <1>2 DEF Order, Events, HasEvent, Live, TypeOK
  <2> QED BY <1>1, <1>3, <2>1 DEF Order, Unused, TypeOK
<1>9. Snapshot'
  BY <1>3, <1>6, Values DEF Snapshot, Locked
<1> QED BY <1>5, <1>7, <1>8, <1>9 DEF Order

LEMMA SyncFailOrder ==
    ASSUME Shape, Order, NEW t \in Thread, SyncFail(t)
    PROVE  Order'
<1>1. TypeOK
  BY DEF Shape
<1>2. /\ pc'[t] = "queue" /\ pc[t] = "sync" /\ LockFree
      /\ \A u \in Thread : u # t => pc'[u] = pc[u]
  BY <1>1, Moved DEF SyncFail, Places
<1>3. UNCHANGED <<table, seq, repairs, backup, fresh, batch, todo, want>>
  BY DEF SyncFail
<1>4. ev' = Overtaken(t) /\ ev'[t] = ev[t]
  BY OvertakenFacts DEF SyncFail
<1>5. Rows' /\ Events' /\ Current'
  BY <1>2, <1>3, <1>4, SyncOrder
<1>6. batch = <<>> /\ todo = {} /\ \A u \in Thread : u # t => pc'[u] \notin Locked
  BY <1>2, FreeLock DEF LockFree, Locked
<1>7. QueuedLate'
  <2>1. ev[t].late => ev[t].mem \in lost'
    BY DEF SyncFail
  <2> QED BY <1>4, <1>6, <2>1 DEF QueuedLate, Locked
<1>8. Unused'
  <2>1. ev[t].mem \in Mem /\ ev[t].text \in Entry
    BY <1>2, EventOf DEF HasEvent, Live
  <2>2. \A k \in Mem \ {ev[t].mem} : index'[k] = index[k]
    BY <1>1, <2>1, FailedWrite DEF SyncFail
  <2>3. ev[t].mem \notin fresh /\ fresh \subseteq Mem
    BY <1>1, <1>2 DEF Order, Events, HasEvent, Live, TypeOK
  <2> QED BY <1>3, <2>2, <2>3 DEF Order, Unused
<1>9. Snapshot'
  BY <1>2, <1>3, <1>6, Values DEF Snapshot, Locked
<1> QED BY <1>5, <1>7, <1>8, <1>9 DEF Order

\* A queued row says no more than the event it stands for.
LEMMA QueueLedger ==
    ASSUME Shape, NEW t \in Thread, Queue(t)
    PROVE  LET e == ev[t]
               debt == [mem |-> e.mem, kind |-> Kind(e.text), seq |-> e.seq, late |-> e.late] IN
           /\ Debts(repairs) \subseteq Debts(repairs')
           /\ Debts(repairs') \subseteq Debts(repairs) \union {debt}
           /\ \/ debt \in Debts(repairs')
              \/ e.mem \in lost'
              \/ \E d \in Debts(repairs) : d.mem = e.mem /\ d.seq = e.seq /\ ~d.late
           /\ lost \subseteq lost'
<1> DEFINE e == ev[t]
           debt == [mem |-> e.mem, kind |-> Kind(e.text), seq |-> e.seq, late |-> e.late]
<1>1. TypeOK /\ Ledger
  BY DEF Shape
<1>2. e.mem \in Mem /\ e.seq \in Nat /\ e.late \in BOOLEAN
  BY EventOf DEF Queue, HasEvent, Live
<1>3. lost \subseteq lost'
  BY DEF Queue
<1>4. CASE /\ repairs' = Persist(repairs, NewRow(e.mem, Kind(e.text), e.seq, e.late))
           /\ lost' = IF Outdated(e) THEN lost \union {e.mem} ELSE lost
  <2>1. Kind(e.text) \in Kinds /\ ProperKind(Kind(e.text), e.mem) /\ e.mem \in Mem \union {All}
    BY <1>2, KindFacts, Values DEF ProperKind
  <2>2. PICK m \in Mem \union {All}, kind \in Kinds, s \in Nat, late \in BOOLEAN :
           m = e.mem /\ kind = Kind(e.text) /\ s = e.seq /\ late = e.late
    BY <1>2, <2>1
  <2>3. repairs' = Persist(repairs, NewRow(m, kind, s, late)) /\ ProperKind(kind, m)
    BY <1>4, <2>1, <2>2
  <2> DEFINE copy == [mem |-> m, kind |-> kind, seq |-> s, late |-> late]
  <2>4. /\ Debts(repairs) \subseteq Debts(repairs')
        /\ Debts(repairs') \subseteq Debts(repairs) \union {copy}
        /\ \/ copy \in Debts(repairs')
           \/ \E d \in Debts(repairs) : d.mem = m /\ d.seq = s
    BY <1>1, <2>3, PersistLedger
  <2>5. copy = debt
    BY <2>2
  <2>6. (\E d \in Debts(repairs) : d.mem = e.mem /\ d.seq = e.seq /\ d.late) => Outdated(e)
    BY DEF Debts, Debt, Outdated
  <2> HIDE DEF copy, debt, e
  <2>7. \/ debt \in Debts(repairs')
        \/ e.mem \in lost'
        \/ \E d \in Debts(repairs) : d.mem = e.mem /\ d.seq = e.seq /\ ~d.late
    BY <1>4, <2>2, <2>4, <2>5, <2>6
  <2> QED BY <1>3, <2>4, <2>5, <2>7 DEF debt, e
<1>5. CASE repairs' = repairs /\ lost' = lost \union {e.mem}
  BY <1>3, <1>5
<1> QED BY <1>4, <1>5 DEF Queue

LEMMA QueueOrder ==
    ASSUME Shape, Order, NEW t \in Thread, Queue(t)
    PROVE  Order'
<1>1. TypeOK
  BY DEF Shape
<1>2. /\ pc'[t] = "idle" /\ pc[t] = "queue"
      /\ \A u \in Thread : u # t => pc'[u] = pc[u] /\ pc'[u] \notin Locked
  BY <1>1, Alone, Moved DEF Queue, Places, Locked
<1>3. /\ UNCHANGED <<table, seq, index, backup, fresh, batch, todo, want>>
      /\ \A u \in Thread : u # t => ev'[u] = ev[u]
  BY <1>1 DEF Queue, TypeOK
<1> DEFINE e == ev[t]
           debt == [mem |-> e.mem, kind |-> Kind(e.text), seq |-> e.seq, late |-> e.late]
<1>4. Debts(repairs') \subseteq Debts(repairs) \union {debt} /\ lost \subseteq lost'
  BY QueueLedger
<1>5. \A u \in Thread : /\ HasEvent(u)' => u # t /\ HasEvent(u) /\ ev'[u] = ev[u]
                        /\ Live(u)' => u # t /\ Live(u) /\ ev'[u] = ev[u]
                        /\ pc'[u] # "queue"
  BY <1>2, <1>3 DEF HasEvent, Live, Locked
<1>6. /\ debt.mem = e.mem /\ debt.kind = Kind(e.text) /\ debt.seq = e.seq
      /\ debt.late = e.late
  OBVIOUS
<1>7. /\ e.mem \notin fresh /\ e.seq > 0 /\ e.seq \in Nat
      /\ ~e.late => e.seq <= seq /\ (e.text = Gone => table[e.mem] = Gone)
  <2>1. HasEvent(t) /\ Live(t) /\ e.seq \in Nat
    BY <1>2, EventOf DEF HasEvent, Live
  <2>2. ~e.late /\ e.text = Gone => table[e.mem] = Gone
    <3>1. t \in Worker => e.text # Gone
      BY <2>1 DEF Order, Events
    <3>2. t = Loop /\ ~e.late => e.text = table[e.mem]
      BY <2>1 DEF Order, Current
    <3> QED BY <3>1, <3>2, Values
  <2> QED BY <2>1, <2>2 DEF Order, Events
<1>8. \A u \in Thread : Live(u)' /\ ~ev'[u].late /\ ~e.late => ev'[u].seq # e.seq
  <2>1. Live(t)
    BY <1>2 DEF Live
  <2> QED BY <1>5, <2>1 DEF Order, Events
<1> HIDE DEF debt, e
<1>9. Rows'
  <2>1. debt.kind = "MemoryDeleted" => e.text = Gone
    BY <1>6, KindFacts
  <2>2. /\ debt.mem \notin fresh
        /\ debt.seq # 0
        /\ ~debt.late => /\ debt.seq <= seq
                         /\ debt.kind = "MemoryDeleted" => table[debt.mem] = Gone
    BY <1>6, <1>7, <2>1
  <2>3. \A d \in Debts(repairs') : d \in Debts(repairs) \/ d = debt
    BY <1>4
  <2> QED BY <1>3, <2>2, <2>3 DEF Order, Rows
<1>10. Events'
  <2>1. \A u \in Thread, d \in Debts(repairs)' :
          Live(u)' /\ ~ev'[u].late /\ d.mem = ev'[u].mem /\ d.seq = ev'[u].seq => d.late
    BY <1>4, <1>5, <1>6, <1>8 DEF Order, Events
  <2> QED BY <1>3, <1>5, <2>1, Values DEF Order, Events
<1>11. Current'
  <2>1. ASSUME NEW w \in Worker, Live(w)', Overtakes(w) PROVE Overtakes(w)'
    <3>1. Loop # t /\ w # t /\ Loop \in Thread /\ w \in Thread
      BY <1>2, <1>5, <2>1, Values DEF Overtakes
    <3> QED BY <1>2, <1>3, <2>1, <3>1 DEF Overtakes
  <2> QED BY <1>3, <1>5, <2>1, Values DEF Order, Current
<1>12. QueuedLate'
  BY <1>5 DEF QueuedLate
<1>13. Unused'
  BY <1>3 DEF Order, Unused
<1>14. Snapshot'
  <2>1. todo = {}
    BY <1>2, NothingToDo DEF Locked
  <2> QED BY <1>2, <1>3, <2>1, Values DEF Snapshot, Locked
<1> QED BY <1>9, <1>10, <1>11, <1>12, <1>13, <1>14 DEF Order

LEMMA StepOrder == Shape /\ Order /\ [Next]_vars => Order'
<1> SUFFICES ASSUME Shape, Order, [Next]_vars PROVE Order'
  OBVIOUS
<1>1. CASE Write
  BY <1>1, DeriveOrder, CheckOrder, CommitOrder DEF Write
<1>2. ASSUME NEW t \in Thread, Sync(t) PROVE Order'
  BY <1>2, SyncOkOrder, SyncFailOrder, QueueOrder DEF Sync
<1>3. ASSUME NEW w \in Worker, Drain(w) \/ DrainStep(w) PROVE Order'
  BY <1>3, DrainRead, DrainStepOrder
<1>4. ASSUME NEW w \in Worker, Import(w) \/ Reconcile(w) PROVE Order'
  BY <1>4, ImportOrder, ListOrder, ListFailOrder, ReconcileOkOrder, ReconcileFailOrder,
     ReconcileEndOrder DEF Reconcile
<1>5. ASSUME NEW i \in 1..Len(repairs), Requeue(i) PROVE Order'
  BY <1>5, RequeueOrder
<1>6. CASE Export
  BY <1>6, ExportOrder
<1>7. CASE Crash
  BY <1>7, CrashOrder
<1>8. CASE UNCHANGED vars
  BY <1>8 DEF vars, durable, threads, Order, Rows, Events, Current, QueuedLate, Unused,
              Snapshot, HasEvent, Live, Overtakes
<1> QED BY <1>1, <1>2, <1>3, <1>4, <1>5, <1>6, <1>7, <1>8 DEF Next
----------------------------------------------------------------------------
(* Cover: definitions.                                                     *)

\* No row is needed for m.
Clear(m) == index[m] = table[m] \/ m \in lost \/ InHand(m)

\* A MemoryDeleted row is of use to a memory that is gone, any other row to
\* one that is there.
FitKind(kind, text) == (kind = "MemoryDeleted") = (text = Gone)
Fitting(m) == \E d \in Debts(repairs) : d.mem = m /\ FitKind(d.kind, table[m])
Full == \E d \in Debts(repairs) : d.mem = All
Own(m) == Clear(m) \/ Fitting(m)

\* Every memory is right, in hand, lost or has a row.
Covered == \A m \in Mem : Own(m) \/ Full

\* A MemoryDerived row without an event never hides a memory that is gone.
Vain ==
    \A d \in Debts(repairs) :
        d.mem \in Mem /\ d.seq = 0 /\ d.kind = "MemoryDerived" /\ table[d.mem] = Gone
        => Own(d.mem)

\* The row that a drain is about to delete is no longer needed.
Useless(row) ==
    /\ row.mem = All => \A m \in Mem : Own(m)
    /\ row.mem # All => (row.kind = "MemoryDerived" /\ table[row.mem] = Gone) \/ Clear(row.mem)
Done == \A w \in Worker : pc[w] = "done" => Useless(Head(batch))

\* A reconcile inside a drain works for the full row, one memory at a time.
Resting ==
    batch # <<>> =>
        \A w \in Worker :
            /\ pc[w] \in {"list", "reconcile"} => Head(batch).mem = All
            /\ pc[w] = "reconcile" => \A m \in Mem \ todo : Own(m)

Cover == Covered /\ Vain /\ Done /\ Resting

LEMMA InitCover == Init => Cover
<1> SUFFICES ASSUME Init PROVE Cover
  OBVIOUS
<1>1. Debts(repairs) = {} /\ \A w \in Worker : pc[w] = "idle"
  BY Values DEF Init, Debts
<1>2. \A m \in Mem : Own(m)
  BY DEF Init, Own, Clear
<1> QED BY <1>1, <1>2 DEF Cover, Covered, Vain, Done, Resting

\* Two rows of the queue with the same key are the same row.
LEMMA OneDebt ==
    ASSUME NEW rows \in Seq(Row), Unique(rows), NEW d \in Debts(rows), NEW e \in Debts(rows),
           d.mem = e.mem, d.seq = e.seq
    PROVE  d = e
<1>1. PICK i \in 1..Len(rows) : d = Debt(rows[i])
  BY DEF Debts
<1>2. PICK j \in 1..Len(rows) : e = Debt(rows[j])
  BY DEF Debts
<1>3. SameRow(rows[i], rows[j])
  BY <1>1, <1>2 DEF Debt, SameRow
<1> QED BY <1>1, <1>2, <1>3 DEF Unique

\* Where no debt is dropped, a memory stays covered unless its entries change.
LEMMA CoverKept ==
    ASSUME Cover,
           \A m \in Mem : Own(m) => Own(m)',
           \A m \in Mem : table'[m] = table[m] \/ Own(m)',
           Full => Full' \/ \A m \in Mem : Own(m)',
           \A d \in Debts(repairs') :
              d \in Debts(repairs) \/ table'[d.mem] # Gone \/ d.seq # 0 \/ Own(d.mem)'
    PROVE  Covered' /\ Vain'
BY DEF Cover, Covered, Vain

\* A step that leaves the holder of the lock and its batch alone.
LEMMA HolderKept ==
    ASSUME Shape, Cover, UNCHANGED <<batch, todo>>,
           \A w \in Worker : pc'[w] \in {"done", "list", "reconcile"} => pc'[w] = pc[w],
           \A m \in Mem : Own(m) => Own(m)',
           \A m \in Mem : Clear(m) => Clear(m)',
           \A m \in Mem : table'[m] = table[m] \/ Clear(m)'
    PROVE  Done' /\ Resting'
<1>1. ASSUME NEW w \in Worker, pc'[w] = "done"
      PROVE  Useless(Head(batch))'
  <2>1. Useless(Head(batch)) /\ batch # <<>>
    BY <1>1 DEF Cover, Done, Shape, Roles
  <2>2. Head(batch).mem \in Mem \union {All}
    BY <2>1, HeadOf
  <2> QED BY <2>1, <2>2 DEF Useless
<1>2. Resting'
  BY DEF Cover, Resting
<1> QED BY <1>1, <1>2 DEF Done
----------------------------------------------------------------------------
(* Cover: writers and their syncs.                                         *)

LEMMA InHandKept ==
    ASSUME NEW m, UNCHANGED <<batch, todo>>,
           \A u \in Thread : pc[u] \in {"sync", "queue", "list", "reconcile"} =>
                                 pc'[u] = pc[u] /\ ev'[u].mem = ev[u].mem
    PROVE  InHand(m) => InHand(m)'
BY DEF InHand

\* A writer changes the text of a memory only with its sync in hand.
LEMMA WriterCover ==
    ASSUME Shape, Cover, UNCHANGED <<index, lost, batch, todo>>,
           Debts(repairs') = Debts(repairs),
           \A m \in Mem : table'[m] = table[m] \/ InHand(m)',
           \A m \in Mem : InHand(m) => InHand(m)',
           \A w \in Worker : pc'[w] \in {"done", "list", "reconcile"} => pc'[w] = pc[w]
    PROVE  Cover'
<1>1. \A m \in Mem : Clear(m) => Clear(m)'
  BY DEF Clear
<1>2. \A m \in Mem : Own(m) => Own(m)'
  BY <1>1 DEF Own, Clear, Fitting
<1>3. \A m \in Mem : table'[m] = table[m] \/ Clear(m)'
  BY DEF Clear
<1>4. Covered' /\ Vain'
  BY <1>2, <1>3, CoverKept DEF Own, Full
<1>5. Done' /\ Resting'
  BY <1>1, <1>2, <1>3, HolderKept
<1> QED BY <1>4, <1>5 DEF Cover

LEMMA DeriveCover ==
    ASSUME Shape, Cover, NEW w \in Worker, NEW m \in Mem, NEW text \in Text, Derive(w, m, text)
    PROVE  Cover'
<1>1. TypeOK /\ w \in Thread
  BY Values DEF Shape
<1>2. /\ pc'[w] = "sync" /\ pc[w] = "idle"
      /\ \A u \in Thread : u # w => pc'[u] = pc[u]
  BY <1>1, Moved DEF Derive, Places
<1>3. UNCHANGED <<repairs, index, lost, batch, todo>>
  BY DEF Derive
<1>4. ev'[w].mem = m /\ \A u \in Thread : u # w => ev'[u] = ev[u]
  <2> DEFINE e == [mem |-> m, text |-> text, seq |-> seq + 1, late |-> FALSE]
  <2>1. ev' = [ev EXCEPT ![w] = e] /\ ev \in [Thread -> Event] /\ e.mem = m
    BY <1>1 DEF Derive, TypeOK
  <2> HIDE DEF e
  <2> QED BY <1>1, <2>1
<1>5. InHand(m)'
  BY <1>1, <1>2, <1>4 DEF InHand
<1>6. \A k \in Mem : table'[k] = table[k] \/ InHand(k)'
  BY <1>1, <1>5 DEF Derive, TypeOK
<1>7. \A k \in Mem : InHand(k) => InHand(k)'
  BY <1>2, <1>3, <1>4, InHandKept
<1> QED BY <1>2, <1>3, <1>6, <1>7, Values, WriterCover

LEMMA CommitCover ==
    ASSUME Shape, Cover, Commit
    PROVE  Cover'
<1>1. TypeOK /\ Loop \in Thread /\ Loop \notin Worker
  BY Values DEF Shape
<1>2. /\ pc'[Loop] = "sync" /\ pc[Loop] = "checked"
      /\ \A u \in Thread : u # Loop => pc'[u] = pc[u]
  BY <1>1, Moved DEF Commit, Places
<1>3. UNCHANGED <<repairs, index, lost, batch, todo>>
  BY DEF Commit
<1>4. ev'[Loop].mem = ev[Loop].mem /\ \A u \in Thread : u # Loop => ev'[u] = ev[u]
  BY CommitEvent
<1>5. InHand(ev[Loop].mem)'
  BY <1>1, <1>2, <1>4 DEF InHand
<1>6. \A k \in Mem : table'[k] = table[k] \/ k = ev[Loop].mem
  BY <1>1 DEF Commit, TypeOK
<1>7. \A k \in Mem : InHand(k) => InHand(k)'
  BY <1>2, <1>3, <1>4, InHandKept
<1>8. \A k \in Mem : table'[k] = table[k] \/ InHand(k)'
  <2> SUFFICES ASSUME NEW k \in Mem, table'[k] # table[k] PROVE InHand(k)'
    OBVIOUS
  <2>1. k = ev[Loop].mem
    BY <1>6
  <2> QED BY <1>1, <1>2, <1>4, <2>1 DEF InHand
<1> QED BY <1>1, <1>2, <1>3, <1>7, <1>8, Values, WriterCover

LEMMA CheckCover ==
    ASSUME Shape, Cover, NEW m \in Mem, NEW text \in Entry, Check(m, text)
    PROVE  Cover'
<1>1. TypeOK /\ Loop \in Thread /\ Loop \notin Worker
  BY Values DEF Shape
<1>2. /\ pc'[Loop] = "checked" /\ pc[Loop] = "idle"
      /\ \A u \in Thread : u # Loop => pc'[u] = pc[u]
  BY <1>1, Moved DEF Check, Places
<1>3. UNCHANGED <<table, repairs, index, lost, batch, todo>>
  BY DEF Check, durable
<1>4. \A u \in Thread : u # Loop => ev'[u] = ev[u]
  BY <1>1 DEF Check, TypeOK
<1>5. \A k \in Mem : InHand(k) => InHand(k)'
  BY <1>2, <1>3, <1>4, InHandKept
<1> QED BY <1>1, <1>2, <1>3, <1>5, Values, WriterCover

LEMMA IdleCover ==
    ASSUME Shape, Cover, Export \/ (\E i \in 1..Len(repairs) : Requeue(i)) \/ UNCHANGED vars
    PROVE  Cover'
<1>1. UNCHANGED <<table, index, lost, batch, todo, pc, ev>>
  BY DEF Export, Requeue, vars, durable, threads
<1>2. Debts(repairs') = Debts(repairs)
  <2>1. CASE UNCHANGED repairs
    BY <2>1
  <2>2. CASE \E i \in 1..Len(repairs) : Requeue(i)
    BY <2>2, RequeueLedger
  <2> QED BY <2>1, <2>2 DEF Export, vars, durable
<1>3. \A k \in Mem : InHand(k) => InHand(k)'
  BY <1>1, InHandKept
<1> QED BY <1>1, <1>2, <1>3, WriterCover

\* Nobody is left with a batch: only what is owed counts.
LEMMA NoHolder ==
    ASSUME \A w \in Worker : pc'[w] # "done",
           batch' = <<>> \/ \A w \in Worker : pc'[w] \notin {"list", "reconcile"}
    PROVE  Done' /\ Resting'
BY DEF Done, Resting

\* A sync brings its memory up to date, or a later sync of it is still to come,
\* or it was late.
LEMMA SyncOkCover ==
    ASSUME Shape, Order, Cover, NEW t \in Thread, SyncOk(t)
    PROVE  Cover'
<1>1. TypeOK
  BY DEF Shape
<1>2. /\ pc'[t] = "idle" /\ pc[t] = "sync" /\ LockFree
      /\ \A u \in Thread : u # t => pc'[u] = pc[u]
  BY <1>1, Moved DEF SyncOk, Places
<1>5. PICK m \in Mem : m = ev[t].mem /\ Live(t) /\ ev[t].text \in Entry
  BY <1>2, EventOf DEF HasEvent, Live
<1>3. /\ UNCHANGED <<table, repairs, batch, todo>>
      /\ index' = [index EXCEPT ![m] = ev[t].text]
      /\ lost' = IF ev[t].late THEN lost \union {m} ELSE lost \ {m}
  BY <1>5 DEF SyncOk
<1>4. \A u \in Thread : u # t => ev'[u].mem = ev[u].mem
  <2> DEFINE marked == Overtaken(t)
  <2>1. ev' = [marked EXCEPT ![t] = NoEvent]
    BY DEF SyncOk
  <2>2. marked \in [Thread -> Event] /\ \A u \in Thread : marked[u].mem = ev[u].mem
    BY OvertakenFacts
  <2> HIDE DEF marked
  <2> QED BY <2>1, <2>2
<1>6. batch = <<>> /\ \A u \in Thread : pc[u] \notin Locked /\ pc'[u] \notin Locked
  BY <1>2, FreeLock DEF LockFree, Locked
<1>7. Clear(m)'
  <2>1. CASE ev[t].late
    BY <1>3, <2>1 DEF Clear
  <2>2. CASE ev[t].text = table[m]
    BY <1>1, <1>3, <1>5, <2>2 DEF Clear, TypeOK
  <2>3. CASE t \in Worker /\ Overtakes(t)
    <3>1. Loop \in Thread /\ Loop # t /\ pc[Loop] = "sync" /\ ev[Loop].mem = m
      BY <1>5, <2>3, Values DEF Overtakes
    <3>2. pc'[Loop] = "sync" /\ ev'[Loop].mem = m
      BY <1>2, <1>4, <3>1
    <3> QED BY <3>1, <3>2 DEF Clear, InHand
  <2> QED BY <1>5, <2>1, <2>2, <2>3, Values DEF Order, Current
<1>8. ASSUME NEW k \in Mem, k # m
      PROVE  index'[k] = index[k] /\ (k \in lost => k \in lost') /\ (InHand(k) => InHand(k)')
  <2>1. InHand(k) => \E u \in Thread : u # t /\ pc[u] \in {"sync", "queue"} /\ ev[u].mem = k
    BY <1>5, <1>6, <1>8 DEF InHand, Locked
  <2>2. InHand(k) => InHand(k)'
    BY <1>2, <1>4, <2>1 DEF InHand
  <2> QED BY <1>1, <1>3, <1>5, <1>8, <2>2 DEF TypeOK
<1>9. \A k \in Mem : Own(k) => Own(k)'
  <2> SUFFICES ASSUME NEW k \in Mem, Own(k) PROVE Own(k)'
    OBVIOUS
  <2>1. CASE k = m
    BY <1>7, <2>1 DEF Own
  <2>2. CASE k # m
    BY <1>3, <1>8, <2>2 DEF Own, Clear, Fitting
  <2> QED BY <2>1, <2>2
<1>10. Covered' /\ Vain'
  BY <1>3, <1>9, CoverKept DEF Full
<1>11. Done' /\ Resting'
  BY <1>6, Values, NoHolder DEF Locked
<1> QED BY <1>10, <1>11 DEF Cover

LEMMA SyncFailCover ==
    ASSUME Shape, Order, Cover, NEW t \in Thread, SyncFail(t)
    PROVE  Cover'
<1>1. TypeOK
  BY DEF Shape
<1>2. /\ pc'[t] = "queue" /\ pc[t] = "sync" /\ LockFree
      /\ \A u \in Thread : u # t => pc'[u] = pc[u]
  BY <1>1, Moved DEF SyncFail, Places
<1>5. PICK m \in Mem : m = ev[t].mem /\ Live(t) /\ ev[t].text \in Entry
  BY <1>2, EventOf DEF HasEvent, Live
<1>3. UNCHANGED <<table, repairs, batch, todo>> /\ lost \subseteq lost'
  BY DEF SyncFail
<1>4. \A u \in Thread : ev'[u].mem = ev[u].mem
  <2>1. ev' = Overtaken(t)
    BY DEF SyncFail
  <2> QED BY <2>1, OvertakenFacts
<1>6. batch = <<>> /\ \A u \in Thread : pc[u] \notin Locked
  BY <1>2, FreeLock DEF LockFree, Locked
<1>7. \A k \in Mem \ {m} : index'[k] = index[k]
  BY <1>1, <1>5, FailedWrite DEF SyncFail
<1>8. InHand(m)' /\ \A k \in Mem : InHand(k) => InHand(k)'
  <2>1. \A u \in Thread : pc[u] \in {"sync", "queue"} => pc'[u] \in {"sync", "queue"}
    BY <1>2
  <2> QED BY <1>2, <1>4, <1>5, <1>6, <2>1 DEF InHand, Locked
<1>9. \A k \in Mem : Own(k) => Own(k)'
  <2> SUFFICES ASSUME NEW k \in Mem, Own(k) PROVE Own(k)'
    OBVIOUS
  <2>1. CASE k = m
    BY <1>8, <2>1 DEF Own, Clear
  <2>2. CASE k # m
    BY <1>3, <1>7, <1>8, <2>2 DEF Own, Clear, Fitting
  <2> QED BY <2>1, <2>2
<1>10. Covered' /\ Vain'
  BY <1>3, <1>9, CoverKept DEF Full
<1>11. Done' /\ Resting'
  BY <1>2, <1>6, Values, NoHolder DEF Locked
<1> QED BY <1>10, <1>11 DEF Cover

\* The row fits, or could not be written, or gave way to a late one.
LEMMA QueueCover ==
    ASSUME Shape, Order, Cover, NEW t \in Thread, Queue(t)
    PROVE  Cover'
<1>1. TypeOK
  BY DEF Shape
<1>2. /\ pc'[t] = "idle" /\ pc[t] = "queue"
      /\ \A u \in Thread : u # t => pc'[u] = pc[u] /\ pc'[u] \notin Locked
  BY <1>1, Alone, Moved DEF Queue, Places, Locked
<1>3. /\ UNCHANGED <<table, index, batch, todo>>
      /\ \A u \in Thread : u # t => ev'[u] = ev[u]
  BY <1>1 DEF Queue, TypeOK
<1>0. PICK m \in Mem : m = ev[t].mem
  BY <1>2, EventOf DEF HasEvent, Live
<1> DEFINE e == ev[t]
           debt == [mem |-> e.mem, kind |-> Kind(e.text), seq |-> e.seq, late |-> e.late]
<1>4. /\ Debts(repairs) \subseteq Debts(repairs')
      /\ Debts(repairs') \subseteq Debts(repairs) \union {debt}
      /\ \/ debt \in Debts(repairs')
         \/ e.mem \in lost'
         \/ \E d \in Debts(repairs) : d.mem = e.mem /\ d.seq = e.seq /\ ~d.late
      /\ lost \subseteq lost'
  BY QueueLedger
<1>5. debt.mem = e.mem /\ debt.kind = Kind(e.text) /\ debt.seq = e.seq
  OBVIOUS
<1>6. e.mem \in Mem /\ e.seq \in Nat /\ e.seq > 0 /\ Live(t)
  BY <1>2, EventOf DEF HasEvent, Live, Order, Events
<1>7. e.late => e.mem \in lost
  BY <1>2 DEF Order, QueuedLate
<1>8. ~e.late => ~\E d \in Debts(repairs) : d.mem = e.mem /\ d.seq = e.seq /\ ~d.late
  BY <1>6 DEF Order, Events
<1>9. ~e.late => e.text = table[e.mem] \/ (t \in Worker /\ Overtakes(t))
  BY <1>6, Values DEF Order, Current
<1>15. e.mem = m
  BY <1>0
<1> HIDE DEF e, debt
<1>10. Own(m)'
  <2>1. CASE m \in lost'
    BY <2>1 DEF Own, Clear
  <2>2. CASE debt \in Debts(repairs') /\ e.text = table[m]
    <3>1. FitKind(debt.kind, table[m])
      BY <1>5, <1>15, <2>2, KindFacts DEF FitKind
    <3> QED BY <1>3, <1>5, <1>15, <2>2, <3>1 DEF Own, Fitting
  <2>3. CASE t \in Worker /\ Overtakes(t)
    <3>1. Loop \in Thread /\ Loop # t /\ pc[Loop] = "sync" /\ ev[Loop].mem = m
      BY <1>15, <2>3, Values DEF Overtakes, e
    <3>2. pc'[Loop] = "sync" /\ ev'[Loop].mem = m
      BY <1>2, <1>3, <3>1
    <3> QED BY <3>1, <3>2 DEF Own, Clear, InHand
  <2> QED BY <1>4, <1>7, <1>8, <1>9, <1>15, <2>1, <2>2, <2>3
<1>11. ASSUME NEW k \in Mem, k # m PROVE InHand(k) => InHand(k)'
  <2>1. \A u \in Thread : pc[u] \notin {"list", "reconcile"}
    BY <1>2, Alone DEF Locked
  <2>2. InHand(k) => \E u \in Thread : u # t /\ pc[u] \in {"sync", "queue"} /\ ev[u].mem = k
    BY <1>11, <1>15, <2>1 DEF InHand, e
  <2> QED BY <1>2, <1>3, <2>2 DEF InHand
<1>12. \A k \in Mem : Own(k) => Own(k)'
  <2> SUFFICES ASSUME NEW k \in Mem, Own(k) PROVE Own(k)'
    OBVIOUS
  <2>1. CASE k = m
    BY <1>10, <2>1
  <2>2. CASE k # m
    BY <1>3, <1>4, <1>5, <1>11, <1>15, <2>2 DEF Own, Clear, Fitting
  <2> QED BY <2>1, <2>2
<1>13. Covered' /\ Vain'
  <2>1. Full => Full'
    BY <1>4 DEF Full
  <2>2. \A d \in Debts(repairs') : d \in Debts(repairs) \/ d.seq # 0
    <3>1. debt.seq # 0
      BY <1>5, <1>6
    <3> QED BY <1>4, <3>1
  <2> QED BY <1>3, <1>12, <2>1, <2>2, CoverKept
<1>14. Done' /\ Resting'
  BY <1>2, Values, NoHolder DEF Locked
<1> QED BY <1>13, <1>14 DEF Cover
----------------------------------------------------------------------------
(* Cover: the drain.                                                       *)

\* What the holder of the lock has in hand is no other thread's work.
LEMMA InHandBut ==
    ASSUME Shape, NEW w \in Worker, NEW m,
           pc[w] \notin {"sync", "queue"},
           pc[w] \notin {"list", "reconcile"} \/ batch # <<>>,
           \A u \in Thread : u # w => pc'[u] = pc[u],
           pc[w] \in Locked \/ LockFree,
           UNCHANGED ev
    PROVE  InHand(m) => InHand(m)'
<1>1. \A u \in Thread : u # w => pc[u] \notin {"list", "reconcile"}
  BY Values, Alone DEF Locked, LockFree
<1>2. InHand(m) => \E u \in Thread : u # w /\ pc[u] \in {"sync", "queue"} /\ ev[u].mem = m
  BY <1>1 DEF InHand
<1> QED BY <1>2 DEF InHand

LEMMA DrainCover ==
    ASSUME Shape, Cover, NEW w \in Worker, Drain(w)
    PROVE  Cover'
<1>1. TypeOK /\ w \in Thread
  BY Values DEF Shape
<1>2. /\ pc'[w] = "drain" /\ pc[w] = "idle"
      /\ \A u \in Thread : u # w => pc'[u] = pc[u]
  BY <1>1, Moved DEF Drain, Places
<1>3. UNCHANGED <<table, repairs, index, ev, todo, lost>> /\ LockFree
  BY DEF Drain, durable
<1>4. \A m \in Mem : InHand(m) => InHand(m)'
  BY <1>2, <1>3, InHandBut
<1>5. \A m \in Mem : Own(m) => Own(m)'
  BY <1>3, <1>4 DEF Own, Clear, Fitting
<1>6. Covered' /\ Vain'
  BY <1>3, <1>5, CoverKept DEF Full
<1>7. Done' /\ Resting'
  <2>1. \A u \in Worker : pc'[u] \notin {"done", "list", "reconcile"}
    BY <1>2, <1>3, Values DEF LockFree, Locked
  <2> QED BY <2>1, NoHolder
<1> QED BY <1>6, <1>7 DEF Cover

\* The index work of a row serves the memory of the row.
LEMMA DrainOkCover ==
    ASSUME Shape, Order, Cover, NEW w \in Worker, DrainOk(w)
    PROVE  Cover'
<1>1. TypeOK /\ w \in Thread
  BY Values DEF Shape
<1>2. /\ pc[w] = "drain" /\ pc'[w] \in {"done", "list"} /\ batch # <<>>
      /\ \A u \in Thread : u # w => pc'[u] = pc[u]
  BY <1>1, Moved DEF DrainOk, Places
<1>3. UNCHANGED <<table, repairs, ev, batch, todo>>
  BY DEF DrainOk
<1> DEFINE h == Head(batch)
<1>4. /\ h.mem \in Mem \union {All} /\ ProperKind(h.kind, h.mem)
      /\ Debt(h) \in Debts(repairs) /\ Debt(h).mem = h.mem /\ Debt(h).kind = h.kind
      /\ Debt(h).late = h.late
  BY <1>2, HeadOf, DebtFields
<1>5. \A m \in Mem : InHand(m) => InHand(m)'
  <2>1. pc[w] \in Locked
    BY <1>2 DEF Locked
  <2> QED BY <1>2, <1>3, <2>1, InHandBut
<1>6. PICK row : row = h
  OBVIOUS
<1>7. \/ /\ row.kind = "MemoryIndexReconcile" /\ pc'[w] = "list"
         /\ UNCHANGED <<index, lost>>
      \/ /\ row.kind # "MemoryIndexReconcile" /\ pc'[w] = "done"
         /\ row.kind = "MemoryDerived" /\ table[row.mem] = Gone
         /\ UNCHANGED <<index, lost>>
      \/ /\ row.kind # "MemoryIndexReconcile" /\ pc'[w] = "done"
         /\ Clear(row.mem)'
         /\ \A k \in Mem : k # row.mem => index'[k] = index[k] /\ (k \in lost => k \in lost')
  <2>1. CASE row.kind = "MemoryIndexReconcile"
    BY <1>1, <1>6, <2>1 DEF DrainOk, Goto, TypeOK
  <2>2. CASE row.kind = "MemoryDeleted"
    <3>1. /\ index' = [index EXCEPT ![row.mem] = Gone] /\ row.mem \in Mem
          /\ lost' = IF row.late THEN lost \union {row.mem} ELSE lost \ {row.mem}
          /\ pc'[w] = "done"
      BY <1>1, <1>4, <1>6, <2>2 DEF DrainOk, Goto, TypeOK, ProperKind
    <3>2. ~row.late => table[row.mem] = Gone
      BY <1>4, <1>6, <2>2 DEF Order, Rows
    <3>3. Clear(row.mem)'
      BY <1>1, <1>3, <3>1, <3>2 DEF Clear, TypeOK
    <3>4. \A k \in Mem : k # row.mem => index'[k] = index[k] /\ (k \in lost => k \in lost')
      BY <1>1, <3>1 DEF TypeOK
    <3> QED BY <2>2, <3>1, <3>3, <3>4
  <2>3. CASE row.kind = "MemoryDerived"
    <3>1. row.mem \in Mem /\ pc'[w] = "done"
      BY <1>1, <1>4, <1>6, <2>3 DEF DrainOk, Goto, TypeOK, ProperKind
    <3>2. CASE table[row.mem] = Gone
      BY <1>6, <2>3, <3>1, <3>2 DEF DrainOk
    <3>3. CASE table[row.mem] # Gone
      <4>1. /\ index' = [index EXCEPT ![row.mem] = table[row.mem]]
            /\ lost' = lost \ {row.mem}
        BY <1>6, <2>3, <3>3 DEF DrainOk
      <4>2. Clear(row.mem)'
        BY <1>1, <1>3, <3>1, <4>1 DEF Clear, TypeOK
      <4>3. \A k \in Mem : k # row.mem => index'[k] = index[k] /\ (k \in lost => k \in lost')
        BY <1>1, <3>1, <4>1 DEF TypeOK
      <4> QED BY <2>3, <3>1, <4>2, <4>3
    <3> QED BY <3>2, <3>3
  <2> QED BY <1>6, <2>1, <2>2, <2>3 DEF DrainOk
<1>8. \A m \in Mem : Own(m) => Own(m)'
  <2> SUFFICES ASSUME NEW m \in Mem, Own(m) PROVE Own(m)'
    OBVIOUS
  <2>1. CASE m = row.mem /\ Clear(row.mem)'
    BY <2>1 DEF Own
  <2>2. CASE index'[m] = index[m] /\ (m \in lost => m \in lost')
    BY <1>3, <1>5, <2>2 DEF Own, Clear, Fitting
  <2> QED BY <1>7, <2>1, <2>2
<1>9. Covered' /\ Vain'
  BY <1>3, <1>8, CoverKept DEF Full
<1>10. \A u \in Worker : u # w => pc'[u] \notin {"done", "list", "reconcile"}
  BY <1>1, <1>2, Alone, Values DEF Locked
<1>11. Done'
  <2>1. pc'[w] = "done" => Useless(row)'
    <3>1. pc'[w] = "done" => row.mem # All
      BY <1>4, <1>6, <1>7 DEF ProperKind
    <3> QED BY <1>3, <1>7, <3>1 DEF Useless
  <2>2. Head(batch)' = row
    BY <1>3, <1>6
  <2> QED BY <1>10, <2>1, <2>2 DEF Done
<1>12. Resting'
  <2>1. pc'[w] = "list" => h.mem = All
    BY <1>4, <1>6, <1>7 DEF ProperKind
  <2> QED BY <1>2, <1>3, <1>10, <2>1 DEF Resting
<1> QED BY <1>9, <1>11, <1>12 DEF Cover

\* A failed try leaves the row in the queue, and the row fits.
LEMMA DrainFailCover ==
    ASSUME Shape, Cover, NEW w \in Worker, DrainFail(w)
    PROVE  Cover'
<1>1. TypeOK /\ w \in Thread
  BY Values DEF Shape
<1>2. /\ pc[w] = "drain" /\ pc'[w] = "failed" /\ batch # <<>>
      /\ \A u \in Thread : u # w => pc'[u] = pc[u]
  BY <1>1, Moved DEF DrainFail, Places
<1>3. UNCHANGED <<table, repairs, ev, batch, todo, lost>>
  BY DEF DrainFail
<1>4. PICK row : row = Head(batch)
  OBVIOUS
<1>5. /\ row.mem \in Mem \union {All} /\ ProperKind(row.kind, row.mem)
      /\ Debt(row) \in Debts(repairs) /\ Debt(row).mem = row.mem /\ Debt(row).kind = row.kind
  BY <1>2, <1>4, HeadOf, DebtFields
<1>6. \A m \in Mem : InHand(m) => InHand(m)'
  <2>1. pc[w] \in Locked
    BY <1>2 DEF Locked
  <2> QED BY <1>2, <1>3, <2>1, InHandBut
<1>7. \/ UNCHANGED index
      \/ /\ row.mem \in Mem /\ Fitting(row.mem)'
         /\ \A k \in Mem \ {row.mem} : index'[k] = index[k]
  <2>1. CASE UNCHANGED index
    BY <2>1
  <2>2. CASE /\ row.kind = "MemoryDerived" /\ table[row.mem] # Gone
             /\ \E left \in AfterFailure(row.mem, table[row.mem]) :
                   index' = [index EXCEPT ![row.mem] = left]
    <3>1. row.mem \in Mem
      BY <1>5, <2>2 DEF ProperKind
    <3>2. table[row.mem] \in Entry
      BY <1>1, <3>1 DEF TypeOK
    <3>3. \A k \in Mem \ {row.mem} : index'[k] = index[k]
      BY <1>1, <2>2, <3>1, <3>2, FailedWrite
    <3>4. FitKind(row.kind, table[row.mem])
      BY <2>2 DEF FitKind
    <3>5. Fitting(row.mem)'
      BY <1>3, <1>5, <3>4 DEF Fitting
    <3> QED BY <3>1, <3>3, <3>5
  <2> QED BY <1>4, <2>1, <2>2 DEF DrainFail
<1>8. \A m \in Mem : Own(m) => Own(m)'
  <2> SUFFICES ASSUME NEW m \in Mem, Own(m) PROVE Own(m)'
    OBVIOUS
  <2>1. CASE m = row.mem /\ Fitting(row.mem)'
    BY <2>1 DEF Own
  <2>2. CASE index'[m] = index[m]
    BY <1>3, <1>6, <2>2 DEF Own, Clear, Fitting
  <2> QED BY <1>7, <2>1, <2>2
<1>9. Covered' /\ Vain'
  BY <1>3, <1>8, CoverKept DEF Full
<1>10. Done' /\ Resting'
  <2>1. \A u \in Worker : pc'[u] \notin {"done", "list", "reconcile"}
    BY <1>1, <1>2, Alone, Values DEF Locked
  <2> QED BY <2>1, NoHolder
<1> QED BY <1>9, <1>10 DEF Cover

\* The row that is deleted is the one whose work is done.
LEMMA DrainDoneCover ==
    ASSUME Shape, Cover, NEW w \in Worker, DrainDone(w)
    PROVE  Cover'
<1>1. TypeOK /\ w \in Thread /\ pc[w] = "done" /\ batch # <<>>
  BY Values DEF Shape, Roles, DrainDone
<1>2. /\ pc'[w] = "drain"
      /\ \A u \in Thread : u # w => pc'[u] = pc[u]
  BY <1>1, Moved DEF DrainDone, Places
<1>3. UNCHANGED <<table, index, ev, todo, lost>>
  BY DEF DrainDone
<1>4. PICK row : row = Head(batch)
  OBVIOUS
<1>5. /\ row.mem \in Mem \union {All}
      /\ Debt(row) \in Debts(repairs)
      /\ Debt(row).mem = row.mem /\ Debt(row).kind = row.kind /\ Debt(row).seq = row.seq
  BY <1>1, <1>4, HeadOf, DebtFields
<1>6. /\ Debts(repairs') \subseteq Debts(repairs)
      /\ \A d \in Debts(repairs) :
            d \in Debts(repairs') \/ d = Debt(row)
  <2>1. repairs \in Seq(Row) /\ Unique(repairs)
    BY DEF Shape, TypeOK, Ledger
  <2>2. /\ Debts(repairs') \subseteq Debts(repairs)
        /\ \A d \in Debts(repairs) :
              d \in Debts(repairs') \/ (d.mem = row.mem /\ d.seq = row.seq)
    BY <1>1, <1>4, DrainDoneLedger
  <2>3. \A d \in Debts(repairs) : d.mem = row.mem /\ d.seq = row.seq => d = Debt(row)
    BY <1>5, <2>1, OneDebt
  <2> QED BY <2>2, <2>3
<1>7. \A m \in Mem : InHand(m) => InHand(m)'
  <2>1. pc[w] \in Locked
    BY <1>1 DEF Locked
  <2> QED BY <1>1, <1>2, <1>3, <2>1, InHandBut
<1>8. Useless(row)
  BY <1>1, <1>4 DEF Cover, Done
<1>9. \A m \in Mem : Clear(m) => Clear(m)'
  BY <1>3, <1>7 DEF Clear
<1>10. \A m \in Mem : Own(m) => Own(m)'
  <2> SUFFICES ASSUME NEW m \in Mem, Own(m) PROVE Own(m)'
    OBVIOUS
  <2>1. CASE Clear(m)
    BY <1>9, <2>1 DEF Own
  <2>2. CASE Fitting(m) /\ ~Clear(m)
    <3>1. PICK d \in Debts(repairs) : d.mem = m /\ FitKind(d.kind, table[m])
      BY <2>2 DEF Fitting
    <3>2. d # Debt(row)
      <4>1. CASE row.mem = m
        <5>1. row.mem # All
          BY <4>1, Values
        <5>2. row.kind = "MemoryDerived" /\ table[m] = Gone
          BY <1>8, <2>2, <4>1, <5>1 DEF Useless
        <5> QED BY <1>5, <3>1, <5>2 DEF FitKind
      <4>2. CASE row.mem # m
        BY <1>5, <3>1, <4>2
      <4> QED BY <4>1, <4>2
    <3>3. d \in Debts(repairs')
      BY <1>6, <3>2
    <3> QED BY <1>3, <3>1, <3>3 DEF Own, Fitting
  <2> QED BY <2>1, <2>2 DEF Own
<1>11. Covered' /\ Vain'
  <2>1. Full => Full' \/ \A m \in Mem : Own(m)'
    <3>1. CASE row.mem = All
      BY <1>8, <1>10, <3>1 DEF Useless
    <3>2. CASE row.mem # All
      BY <1>5, <1>6, <3>2 DEF Full
    <3> QED BY <3>1, <3>2
  <2> QED BY <1>3, <1>6, <1>10, <2>1, CoverKept
<1>12. Done' /\ Resting'
  <2>1. \A u \in Worker : pc'[u] \notin {"done", "list", "reconcile"}
    BY <1>1, <1>2, Alone, Values DEF Locked
  <2> QED BY <2>1, NoHolder
<1> QED BY <1>11, <1>12 DEF Cover

\* The bookkeeping after a failed try, and the end of a drain.
LEMMA DrainRestCover ==
    ASSUME Shape, Cover, NEW w \in Worker, DrainFailed(w) \/ DrainEnd(w)
    PROVE  Cover'
<1>1. TypeOK /\ w \in Thread
  BY Values DEF Shape
<1>2. /\ pc[w] \in {"failed", "drain"} /\ pc'[w] \in {"drain", "idle"}
      /\ \A u \in Thread : u # w => pc'[u] = pc[u]
  BY <1>1, Moved DEF DrainFailed, DrainEnd, Places
<1>3. UNCHANGED <<table, index, ev, todo, lost>>
  BY DEF DrainFailed, DrainEnd, durable
<1>4. Debts(repairs') = Debts(repairs)
  <2>1. CASE DrainFailed(w)
    <3>1. batch # <<>>
      BY <2>1 DEF DrainFailed, Shape, Roles
    <3> QED BY <2>1, <3>1, DrainFailedLedger
  <2>2. CASE DrainEnd(w)
    BY <2>2 DEF DrainEnd, durable
  <2> QED BY <2>1, <2>2
<1>5. \A m \in Mem : InHand(m) => InHand(m)'
  <2>1. pc[w] \in Locked
    BY <1>2 DEF Locked
  <2> QED BY <1>2, <1>3, <2>1, InHandBut
<1>6. \A m \in Mem : Own(m) => Own(m)'
  BY <1>3, <1>4, <1>5 DEF Own, Clear, Fitting
<1>7. Covered' /\ Vain'
  BY <1>3, <1>4, <1>6, CoverKept DEF Full
<1>8. Done' /\ Resting'
  <2>1. \A u \in Worker : pc'[u] \notin {"done", "list", "reconcile"}
    BY <1>1, <1>2, Alone, Values DEF Locked
  <2> QED BY <2>1, NoHolder
<1> QED BY <1>7, <1>8 DEF Cover
----------------------------------------------------------------------------
(* Cover: import, reconcile and a death.                                   *)

\* After an import every memory is to be reconciled.
LEMMA ImportCover ==
    ASSUME Shape, NEW w \in Worker, Import(w)
    PROVE  Cover' /\ \A m \in Mem : InHand(m)'
<1>1. TypeOK /\ w \in Thread
  BY Values DEF Shape
<1>2. /\ pc'[w] = "list" /\ \A u \in Thread : u # w => pc'[u] = pc[u]
  BY <1>1, Moved DEF Import, Places
<1>3. LockFree /\ batch' = <<>> /\ repairs' = <<>>
  BY FreeLock DEF Import
<1>4. \A m : InHand(m)'
  BY <1>1, <1>2, <1>3 DEF InHand
<1>5. Debts(repairs') = {}
  BY <1>3 DEF Debts
<1>6. Covered' /\ Vain'
  BY <1>4, <1>5 DEF Covered, Vain, Own, Clear
<1>7. Done' /\ Resting'
  <2>1. \A u \in Worker : pc'[u] # "done"
    BY <1>2, <1>3, Values DEF LockFree, Locked
  <2> QED BY <1>3, <2>1, NoHolder
<1> QED BY <1>4, <1>6, <1>7 DEF Cover

LEMMA ListCover ==
    ASSUME Shape, Cover, NEW w \in Worker, List(w)
    PROVE  Cover'
<1>1. TypeOK /\ w \in Thread
  BY Values DEF Shape
<1>2. /\ pc[w] = "list" /\ pc'[w] = "reconcile"
      /\ \A u \in Thread : u # w => pc'[u] = pc[u]
  BY <1>1, Moved DEF List, Places
<1>3. /\ UNCHANGED <<table, repairs, index, ev, batch, lost>>
      /\ todo' = {m \in Mem : table[m] # Gone \/ index[m] # Gone}
  BY DEF List, durable
<1>4. \A m \in Mem : m \in todo' \/ Clear(m)'
  BY <1>3 DEF Clear
<1>5. \A m \in Mem : Own(m) => Own(m)'
  <2>1. CASE batch = <<>>
    BY <1>1, <1>2, <1>3, <1>4, <2>1 DEF Own, Clear, InHand
  <2>2. CASE batch # <<>>
    <3>1. \A m \in Mem : InHand(m) => InHand(m)'
      BY <1>2, <1>3, <2>2, InHandBut DEF Locked
    <3> QED BY <1>3, <3>1 DEF Own, Clear, Fitting
  <2> QED BY <2>1, <2>2
<1>6. Covered' /\ Vain'
  BY <1>3, <1>5, CoverKept DEF Full
<1>7. \A u \in Worker : u # w => pc'[u] \notin {"done", "list", "reconcile"}
  BY <1>1, <1>2, Alone, Values DEF Locked
<1>8. Done'
  BY <1>2, <1>7 DEF Done
<1>9. Resting'
  BY <1>2, <1>3, <1>4, <1>7 DEF Cover, Resting, Own
<1> QED BY <1>6, <1>8, <1>9 DEF Cover

\* A failed listing leaves the full row, which covers every memory.
LEMMA ListFailCover ==
    ASSUME Shape, Order, Cover, NEW w \in Worker, ListFail(w)
    PROVE  Cover' /\ Full'
<1>1. TypeOK /\ w \in Thread
  BY Values DEF Shape
<1>2. /\ pc[w] = "list" /\ pc'[w] \in {"idle", "failed"}
      /\ \A u \in Thread : u # w => pc'[u] = pc[u]
  BY <1>1, Moved DEF ListFail, Places
<1>3. UNCHANGED <<table, index, ev, batch, todo, lost>>
  BY DEF ListFail
<1>4. /\ Debts(repairs) \subseteq Debts(repairs')
      /\ Full'
      /\ \A d \in Debts(repairs') :
            d \in Debts(repairs) \/ d.mem = All \/ table[d.mem] # Gone
  BY ListFailLedger DEF Full
<1>5. Covered'
  BY <1>4 DEF Covered
<1>6. Vain'
  <2>1. CASE batch = <<>>
    <3>1. Debts(repairs) = {}
      BY <1>2, <2>1 DEF Order, Snapshot
    <3> QED BY <1>3, <1>4, <3>1, Values DEF Vain
  <2>2. CASE batch # <<>>
    <3>1. \A m \in Mem : InHand(m) => InHand(m)'
      BY <1>2, <1>3, <2>2, InHandBut DEF Locked
    <3>2. \A m \in Mem : Own(m) => Own(m)'
      BY <1>3, <1>4, <3>1 DEF Own, Clear, Fitting
    <3> QED BY <1>3, <1>4, <3>2, Values DEF Cover, Vain
  <2> QED BY <2>1, <2>2
<1>7. Done' /\ Resting'
  <2>1. \A u \in Worker : pc'[u] \notin {"done", "list", "reconcile"}
    BY <1>1, <1>2, Alone, Values DEF Locked
  <2> QED BY <2>1, NoHolder
<1> QED BY <1>4, <1>5, <1>6, <1>7 DEF Cover

\* What a reconcile still has to do besides m stays in hand.
LEMMA InHandReconcile ==
    ASSUME NEW m \in Mem, UNCHANGED <<pc, ev, batch>>, todo' = todo \ {m}
    PROVE  \A k \in Mem : /\ k # m /\ InHand(k) => InHand(k)'
                          /\ (\E t \in Thread : pc[t] = "sync" /\ ev[t].mem = k) => InHand(k)'
BY DEF InHand

LEMMA ReconcileOkCover ==
    ASSUME Shape, Order, Cover, NEW w \in Worker, NEW m \in Mem, ReconcileOk(w, m)
    PROVE  Cover' /\ Own(m)'
<1>1. TypeOK
  BY DEF Shape
<1>2. /\ UNCHANGED <<table, repairs, pc, ev, batch>> /\ pc[w] = "reconcile" /\ m \in todo
      /\ index' = [index EXCEPT ![m] = want[m]]
      /\ lost' = lost \ {m} /\ todo' = todo \ {m}
  BY DEF ReconcileOk
<1>3. \A k \in Mem : /\ k # m /\ InHand(k) => InHand(k)'
                     /\ (\E t \in Thread : pc[t] = "sync" /\ ev[t].mem = k) => InHand(k)'
  BY <1>2, InHandReconcile
<1>4. Clear(m)'
  <2>1. CASE want[m] = table[m]
    BY <1>1, <1>2, <2>1 DEF Clear, TypeOK
  <2>2. CASE \E t \in Thread : pc[t] = "sync" /\ ev[t].mem = m
    BY <1>3, <2>2 DEF Clear
  <2> QED BY <1>2, <2>1, <2>2 DEF Order, Snapshot
<1>5. \A k \in Mem : Own(k) => Own(k)'
  <2> SUFFICES ASSUME NEW k \in Mem, Own(k) PROVE Own(k)'
    OBVIOUS
  <2>1. CASE k = m
    BY <1>4, <2>1 DEF Own
  <2>2. CASE k # m
    <3>1. index'[k] = index[k]
      BY <1>1, <1>2, <2>2 DEF TypeOK
    <3> QED BY <1>2, <1>3, <2>2, <3>1 DEF Own, Clear, Fitting
  <2> QED BY <2>1, <2>2
<1>6. Covered' /\ Vain'
  BY <1>2, <1>5, CoverKept DEF Full
<1>7. Done'
  <2>1. \A u \in Worker : pc'[u] # "done"
    BY <1>2, Alone, Values DEF Locked
  <2> QED BY <2>1 DEF Done
<1>8. Resting'
  BY <1>2, <1>4, <1>5 DEF Cover, Resting, Own
<1> QED BY <1>4, <1>6, <1>7, <1>8 DEF Cover, Own

\* A memory whose reconcile fails gets a row that fits it, or has one.
LEMMA ReconcileFailCover ==
    ASSUME Shape, Order, Cover, NEW w \in Worker, NEW m \in Mem, ReconcileFail(w, m)
    PROVE  Cover' /\ Own(m)'
<1>1. TypeOK /\ w \in Thread
  BY Values DEF Shape
<1>2. /\ UNCHANGED <<table, pc, ev, batch, lost>> /\ pc[w] = "reconcile" /\ m \in todo
      /\ todo' = todo \ {m}
  BY DEF ReconcileFail
<1> DEFINE debt == [mem |-> m, kind |-> Kind(want[m]), seq |-> 0, late |-> FALSE]
<1>3. /\ Debts(repairs) \subseteq Debts(repairs')
      /\ Debts(repairs') \subseteq Debts(repairs) \union {debt}
      /\ \/ debt \in Debts(repairs')
         \/ \E d \in Debts(repairs) : d.mem = m /\ d.seq = 0
  BY ReconcileFailLedger
<1>4. debt.mem = m /\ debt.kind = Kind(want[m])
  OBVIOUS
<1> HIDE DEF debt
<1>5. \A k \in Mem : /\ k # m /\ InHand(k) => InHand(k)'
                     /\ (\E t \in Thread : pc[t] = "sync" /\ ev[t].mem = k) => InHand(k)'
  BY <1>2, InHandReconcile
<1>6. Own(m)'
  <2>1. CASE \E t \in Thread : pc[t] = "sync" /\ ev[t].mem = m
    BY <1>5, <2>1 DEF Own, Clear
  <2>2. CASE want[m] = table[m]
    <3>1. CASE debt \in Debts(repairs')
      <4>1. FitKind(debt.kind, table[m])
        BY <1>4, <2>2, KindFacts DEF FitKind
      <4> QED BY <1>2, <1>4, <3>1, <4>1 DEF Own, Fitting
    <3>2. CASE \E d \in Debts(repairs) : d.mem = m /\ d.seq = 0
      <4>1. PICK d \in Debts(repairs) : d.mem = m /\ d.seq = 0
        BY <3>2
      <4>2. d.kind \in {"MemoryDerived", "MemoryDeleted"}
        <5>1. d.kind \in Kinds
          BY <1>1, DebtsType DEF TypeOK, DebtSet
        <5>2. ProperKind(d.kind, d.mem) /\ d.mem # All
          BY <4>1, Values DEF Shape, Ledger
        <5> QED BY <5>1, <5>2 DEF ProperKind, Kinds
      <4>3. d.kind = "MemoryDeleted" => table[m] = Gone
        BY <4>1 DEF Order, Rows
      <4>4. CASE FitKind(d.kind, table[m])
        BY <1>2, <1>3, <4>1, <4>4 DEF Own, Fitting
      <4>5. CASE d.kind = "MemoryDerived" /\ table[m] = Gone
        <5>1. Own(m)
          BY <4>1, <4>5 DEF Cover, Vain
        <5>2. index'[m] = index[m]
          BY <1>1, <2>2, <4>5 DEF ReconcileFail, AfterFailure, TypeOK
        <5>3. batch # <<>>
          BY <1>2, <4>1 DEF Order, Snapshot
        <5>4. InHand(m) => InHand(m)'
          BY <1>2, <5>3 DEF InHand
        <5> QED BY <1>2, <1>3, <5>1, <5>2, <5>4 DEF Own, Clear, Fitting
      <4> QED BY <4>2, <4>3, <4>4, <4>5 DEF FitKind
    <3> QED BY <1>3, <3>1, <3>2
  <2> QED BY <1>2, <2>1, <2>2 DEF Order, Snapshot
<1>7. \A k \in Mem : Own(k) => Own(k)'
  <2> SUFFICES ASSUME NEW k \in Mem, Own(k) PROVE Own(k)'
    OBVIOUS
  <2>1. CASE k = m
    BY <1>6, <2>1
  <2>2. CASE k # m
    <3>1. want[m] \in Entry
      BY <1>1 DEF TypeOK
    <3>2. index'[k] = index[k]
      BY <1>1, <2>2, <3>1, FailedWrite DEF ReconcileFail
    <3> QED BY <1>2, <1>3, <1>5, <2>2, <3>2 DEF Own, Clear, Fitting
  <2> QED BY <2>1, <2>2
<1>8. Covered' /\ Vain'
  <2>1. Full => Full'
    BY <1>3 DEF Full
  <2>2. \A d \in Debts(repairs') : d \in Debts(repairs) \/ Own(d.mem)'
    BY <1>3, <1>4, <1>6
  <2> QED BY <1>2, <1>7, <2>1, <2>2, CoverKept
<1>9. Done'
  <2>1. \A u \in Worker : pc'[u] # "done"
    BY <1>1, <1>2, Alone, Values DEF Locked
  <2> QED BY <2>1 DEF Done
<1>10. Resting'
  BY <1>2, <1>6, <1>7 DEF Cover, Resting
<1> QED BY <1>6, <1>8, <1>9, <1>10 DEF Cover

LEMMA ReconcileEndCover ==
    ASSUME Shape, Cover, NEW w \in Worker, ReconcileEnd(w)
    PROVE  Cover'
<1>1. TypeOK /\ w \in Thread
  BY Values DEF Shape
<1>2. /\ pc[w] = "reconcile" /\ pc'[w] = IF batch = <<>> THEN "idle" ELSE "done"
      /\ \A u \in Thread : u # w => pc'[u] = pc[u]
  BY <1>1, Moved DEF ReconcileEnd, Places
<1>3. UNCHANGED <<table, repairs, index, ev, batch, todo, lost>> /\ todo = {}
  BY DEF ReconcileEnd, durable
<1>4. \A u \in Worker : u # w => pc'[u] \notin {"done", "list", "reconcile"}
  BY <1>1, <1>2, Alone, Values DEF Locked
<1>5. \A m \in Mem : InHand(m) => InHand(m)'
  <2>1. \A u \in Thread : u # w => pc[u] \notin {"list", "reconcile"}
    BY <1>1, <1>2, Alone DEF Locked
  <2> QED BY <1>2, <1>3, <2>1 DEF InHand
<1>6. \A m \in Mem : Own(m) => Own(m)'
  BY <1>3, <1>5 DEF Own, Clear, Fitting
<1>7. Covered' /\ Vain'
  BY <1>3, <1>6, CoverKept DEF Full
<1>8. Done'
  <2>1. pc'[w] = "done" => Useless(Head(batch))'
    <3>1. pc'[w] = "done" => Head(batch).mem = All /\ \A m \in Mem : Own(m)
      BY <1>2, <1>3 DEF Cover, Resting
    <3> QED BY <1>3, <1>6, <3>1 DEF Useless
  <2> QED BY <1>4, <2>1 DEF Done
<1>9. Resting'
  BY <1>2, <1>4 DEF Resting
<1> QED BY <1>7, <1>8, <1>9 DEF Cover

\* What a death takes out of a thread's hand is lost, unless it was done.
LEMMA CrashCover ==
    ASSUME Cover, Crash
    PROVE  Cover'
<1>1. /\ UNCHANGED <<table, repairs, index>>
      /\ batch' = <<>>
      /\ lost' = lost \union {m \in Mem : InHand(m) /\ index[m] # table[m]}
  BY DEF Crash, durable
<1>2. \A t \in Thread : pc'[t] = "idle"
  BY DEF Crash
<1>3. \A m \in Mem : Clear(m) => Clear(m)'
  BY <1>1 DEF Clear
<1>4. \A m \in Mem : Own(m) => Own(m)'
  BY <1>1, <1>3 DEF Own, Fitting
<1>5. Covered' /\ Vain'
  BY <1>1, <1>4, CoverKept DEF Full
<1>6. Done' /\ Resting'
  BY <1>1, <1>2, Values, NoHolder
<1> QED BY <1>5, <1>6 DEF Cover

LEMMA StepCover == Shape /\ Order /\ Cover /\ [Next]_vars => Cover'
<1> SUFFICES ASSUME Shape, Order, Cover, [Next]_vars PROVE Cover'
  OBVIOUS
<1>1. CASE Write
  BY <1>1, DeriveCover, CheckCover, CommitCover DEF Write
<1>2. ASSUME NEW t \in Thread, Sync(t) PROVE Cover'
  BY <1>2, SyncOkCover, SyncFailCover, QueueCover DEF Sync
<1>3. ASSUME NEW w \in Worker, Drain(w) \/ DrainStep(w) PROVE Cover'
  BY <1>3, DrainCover, DrainOkCover, DrainFailCover, DrainDoneCover, DrainRestCover
     DEF DrainStep
<1>4. ASSUME NEW w \in Worker, Import(w) \/ Reconcile(w) PROVE Cover'
  BY <1>4, ImportCover, ListCover, ListFailCover, ReconcileOkCover, ReconcileFailCover,
     ReconcileEndCover DEF Reconcile
<1>5. CASE Export \/ (\E i \in 1..Len(repairs) : Requeue(i)) \/ UNCHANGED vars
  BY <1>5, IdleCover
<1>6. CASE Crash
  BY <1>6, CrashCover
<1> QED BY <1>1, <1>2, <1>3, <1>4, <1>5, <1>6 DEF Next

Inv == Shape /\ Order /\ Cover

LEMMA InvHolds == Spec => []Inv
<1>1. Init => Inv
  BY InitShape, InitOrder, InitCover DEF Inv
<1>2. Inv /\ [Next]_vars => Inv'
  BY StepShape, StepOrder, StepCover DEF Inv
<1> QED BY <1>1, <1>2, PTL DEF Spec
----------------------------------------------------------------------------
(* The promise of LaggingCopy: what a step does to what is owed.           *)

Owed == {m \in Mem : InHand(m) \/ InQueue(m)}

InQueueMeans == \A m \in Mem : InQueue(m) <=> Full \/ Fitting(m)

LEMMA QueueMeans == InQueueMeans
<1> SUFFICES ASSUME NEW m \in Mem
             PROVE  InQueue(m) <=> Full \/ Fitting(m)
  BY DEF InQueueMeans
<1>1. \A i \in 1..Len(repairs) : /\ Debt(repairs[i]).mem = repairs[i].mem
                                 /\ Debt(repairs[i]).kind = repairs[i].kind
                                 /\ Debt(repairs[i]) \in Debts(repairs)
  BY DEF Debt, Debts
<1>2. \A d \in Debts(repairs) : \E i \in 1..Len(repairs) : d = Debt(repairs[i])
  BY DEF Debts
<1>3. ASSUME InQueue(m) PROVE Full \/ Fitting(m)
  BY <1>1, <1>3 DEF InQueue, Full, Fitting, FitKind
<1>4. ASSUME Full \/ Fitting(m) PROVE InQueue(m)
  BY <1>1, <1>2, <1>4 DEF InQueue, Full, Fitting, FitKind
<1> QED BY <1>3, <1>4

LEMMA QueueMeansNext == InQueueMeans'
BY QueueMeans, PTL

\* A memory whose entry is wrong is owed or lost.
Accounted == \A m \in Mem : index[m] = table[m] \/ m \in lost \/ m \in Owed

LEMMA CoverAccounts == Cover => Accounted
BY QueueMeans DEF InQueueMeans, Cover, Covered, Own, Clear, Owed, Accounted

LEMMA CoverAccountsNext == Cover' => Accounted'
BY CoverAccounts, PTL

\* Work on the entry of one memory.
LEMMA WorkPromise ==
    ASSUME Shape, Shape', Cover', NEW m \in Mem, UNCHANGED table,
           \A k \in Mem : k # m => /\ index'[k] = index[k]
                                   /\ k \in Owed <=> k \in Owed'
                                   /\ k \in lost <=> k \in lost'
    PROVE  Promise!Work(m)
<1>1. /\ index' \in [Mem -> Entry] /\ table \in [Mem -> Entry]
      /\ lost \subseteq Mem /\ lost' \subseteq Mem
  BY DEF Shape, TypeOK
<1>2. Owed \subseteq Mem /\ Owed' \subseteq Mem
  BY DEF Owed
<1>3. Owed' \in {Owed, Owed \union {m}, Owed \ {m}}
  BY <1>2
<1>4. lost' \in {lost, lost \union {m}, lost \ {m}}
  BY <1>1
<1>5. index'[m] = table[m] \/ m \in Owed' \union lost'
  <2>1. \A k \in Mem : index'[k] = table'[k] \/ k \in lost' \/ k \in Owed'
    BY CoverAccountsNext DEF Accounted
  <2> QED BY <2>1
<1> QED BY <1>1, <1>3, <1>4, <1>5 DEF Promise!Work, Owed

\* A step that touches neither the projection nor the index.
LEMMA ReckonPromise ==
    ASSUME Shape, Shape', Cover', UNCHANGED <<table, index>>
    PROVE  Promise!Reckon
<1>1. \A k \in Mem : index'[k] = table'[k] \/ k \in lost' \/ k \in Owed'
  BY CoverAccountsNext DEF Accounted
<1>2. lost' \subseteq Mem /\ Owed' \subseteq Mem
  BY DEF Shape, TypeOK, Owed
<1>3. \A k \in Owed \union lost : k \in Owed' \union lost' \/ index[k] = table[k]
  <2>1. \A k \in Owed : k \in Mem
    BY DEF Owed
  <2>2. \A k \in lost : k \in Mem
    BY DEF Shape, TypeOK
  <2> QED BY <1>1, <2>1, <2>2
<1> QED BY <1>2, <1>3 DEF Promise!Reckon, Owed

LEMMA InitPromise == Init => Promise!Init
<1> SUFFICES ASSUME Init PROVE Promise!Init
  OBVIOUS
<1>1. \A m \in Mem : ~InHand(m) /\ ~InQueue(m)
  BY DEF Init, InHand, InQueue
<1>2. table \in [Mem -> Entry] /\ index = table /\ lost = {}
  BY Values DEF Init, Nothing
<1> QED BY <1>1, <1>2 DEF Promise!Init

\* A memory that is in hand or in the queue because of the same threads and
\* the same rows is owed as before.
LEMMA OwedSame ==
    ASSUME NEW k \in Mem, InHand(k) <=> InHand(k)', table'[k] = table[k],
           (\E d \in Debts(repairs) : d.mem = All) <=> \E d \in Debts(repairs') : d.mem = All,
           \A d \in Debts(repairs) \union Debts(repairs') :
              d.mem = k => (d \in Debts(repairs) <=> d \in Debts(repairs'))
    PROVE  k \in Owed <=> k \in Owed'
<1>1. Full <=> Full'
  BY DEF Full
<1>2. Fitting(k) <=> Fitting(k)'
  BY DEF Fitting
<1>3. InQueue(k) <=> Full \/ Fitting(k)
  BY QueueMeans DEF InQueueMeans
<1>4. InQueue(k)' <=> Full' \/ Fitting(k)'
  BY QueueMeansNext DEF InQueueMeans
<1> QED BY <1>1, <1>2, <1>3, <1>4 DEF Owed
----------------------------------------------------------------------------
(* The promise of LaggingCopy, step by step.                               *)

\* A write owes its memory and changes no other debt.
LEMMA WritePromise ==
    ASSUME Shape, Shape', NEW m \in Mem, InHand(m)',
           \A k \in Mem : k # m => table'[k] = table[k] /\ (InHand(k) <=> InHand(k)'),
           UNCHANGED <<repairs, index, lost>>
    PROVE  Promise!Write(m)
<1>1. table' \in [Mem -> Entry]
  BY DEF Shape, TypeOK
<1>2. \A k \in Mem : k # m => (k \in Owed <=> k \in Owed')
  BY OwedSame
<1>3. m \in Owed'
  BY DEF Owed
<1>4. Owed' = Owed \union {m}
  <2>1. Owed \subseteq Mem /\ Owed' \subseteq Mem
    BY DEF Owed
  <2> QED BY <1>2, <1>3, <2>1
<1> QED BY <1>1, <1>4 DEF Promise!Write, Owed

LEMMA DerivePromise ==
    ASSUME Shape, Shape', NEW w \in Worker, NEW m \in Mem, NEW text \in Text, Derive(w, m, text)
    PROVE  Promise!Write(m)
<1>1. TypeOK /\ w \in Thread
  BY Values DEF Shape
<1>2. /\ pc'[w] = "sync" /\ pc[w] = "idle"
      /\ \A u \in Thread : u # w => pc'[u] = pc[u]
  BY <1>1, Moved DEF Derive, Places
<1>3. UNCHANGED <<repairs, index, lost, batch, todo>>
  BY DEF Derive
<1>4. ev'[w].mem = m /\ \A u \in Thread : u # w => ev'[u] = ev[u]
  <2> DEFINE e == [mem |-> m, text |-> text, seq |-> seq + 1, late |-> FALSE]
  <2>1. ev' = [ev EXCEPT ![w] = e] /\ ev \in [Thread -> Event] /\ e.mem = m
    BY <1>1 DEF Derive, TypeOK
  <2> HIDE DEF e
  <2> QED BY <1>1, <2>1
<1>5. InHand(m)'
  BY <1>1, <1>2, <1>4 DEF InHand
<1>6. \A k \in Mem : k # m => table'[k] = table[k]
  BY <1>1 DEF Derive, TypeOK
<1>7. \A k \in Mem : k # m => (InHand(k) <=> InHand(k)')
  BY <1>2, <1>3, <1>4 DEF InHand
<1> QED BY <1>3, <1>5, <1>6, <1>7, WritePromise

LEMMA CommitPromise ==
    ASSUME Shape, Shape', Commit
    PROVE  \E m \in Mem : Promise!Write(m)
<1>1. TypeOK /\ Loop \in Thread
  BY Values DEF Shape
<1>2. /\ pc'[Loop] = "sync" /\ pc[Loop] = "checked"
      /\ \A u \in Thread : u # Loop => pc'[u] = pc[u]
  BY <1>1, Moved DEF Commit, Places
<1>3. UNCHANGED <<repairs, index, lost, batch, todo>>
  BY DEF Commit
<1>4. PICK m \in Mem : m = ev[Loop].mem
  BY <1>1, <1>2, EventOf DEF HasEvent
<1>5. ev'[Loop].mem = m /\ \A u \in Thread : u # Loop => ev'[u] = ev[u]
  BY <1>4, CommitEvent
<1>6. InHand(m)'
  BY <1>1, <1>2, <1>5 DEF InHand
<1>7. \A k \in Mem : k # m => table'[k] = table[k]
  BY <1>1, <1>4 DEF Commit, TypeOK
<1>8. \A k \in Mem : k # m => (InHand(k) <=> InHand(k)')
  BY <1>2, <1>3, <1>5 DEF InHand
<1> QED BY <1>3, <1>6, <1>7, <1>8, WritePromise

LEMMA SyncPromise ==
    ASSUME Shape, Shape', Cover', NEW t \in Thread, SyncOk(t) \/ SyncFail(t)
    PROVE  \E m \in Mem : Promise!Work(m)
<1>1. TypeOK
  BY DEF Shape
<1>2. /\ pc'[t] \in {"idle", "queue"} /\ pc[t] = "sync" /\ LockFree
      /\ pc'[t] = "queue" => ev'[t].mem = ev[t].mem
      /\ \A u \in Thread : u # t => pc'[u] = pc[u]
  <2>1. CASE SyncOk(t)
    BY <1>1, <2>1, Moved DEF SyncOk, Places
  <2>2. CASE SyncFail(t)
    <3>1. ev' = Overtaken(t)
      BY <2>2 DEF SyncFail
    <3>2. /\ pc'[t] = "queue" /\ pc[t] = "sync" /\ LockFree
          /\ \A u \in Thread : u # t => pc'[u] = pc[u]
      BY <1>1, <2>2, Moved DEF SyncFail, Places
    <3> QED BY <3>1, <3>2, OvertakenFacts
  <2> QED BY <2>1, <2>2
<1>3. PICK m \in Mem : m = ev[t].mem /\ ev[t].text \in Entry
  BY <1>2, EventOf DEF HasEvent, Live
<1>4. UNCHANGED <<table, repairs, batch, todo>>
  BY DEF SyncOk, SyncFail
<1>5. \A u \in Thread : u # t => ev'[u].mem = ev[u].mem
  <2> DEFINE marked == Overtaken(t)
  <2>1. marked \in [Thread -> Event] /\ \A u \in Thread : marked[u].mem = ev[u].mem
    BY OvertakenFacts
  <2>2. ev' = [marked EXCEPT ![t] = NoEvent] \/ ev' = marked
    BY DEF SyncOk, SyncFail
  <2> HIDE DEF marked
  <2> QED BY <2>1, <2>2
<1>6. \A k \in Mem : k # m => index'[k] = index[k] /\ (k \in lost <=> k \in lost')
  <2>1. CASE SyncOk(t)
    BY <1>1, <1>3, <2>1 DEF SyncOk, TypeOK
  <2>2. CASE SyncFail(t)
    <3>1. \A k \in Mem \ {m} : index'[k] = index[k]
      BY <1>1, <1>3, <2>2, FailedWrite DEF SyncFail
    <3> QED BY <1>3, <2>2, <3>1 DEF SyncFail
  <2> QED BY <2>1, <2>2
<1>7. \A k \in Mem : k # m => (InHand(k) <=> InHand(k)')
  <2>1. \A u \in Thread : pc[u] \notin {"list", "reconcile"} /\ pc'[u] \notin {"list", "reconcile"}
    BY <1>2 DEF LockFree, Locked
  <2> QED BY <1>2, <1>3, <1>5, <2>1 DEF InHand
<1>8. \A k \in Mem : k # m => (k \in Owed <=> k \in Owed')
  BY <1>4, <1>7, OwedSame
<1> QED BY <1>4, <1>6, <1>8, WorkPromise

\* The threads that are not in the drain have in hand what they had.
LEMMA InHandSame ==
    ASSUME Shape, NEW w \in Worker, pc[w] \in Locked,
           pc[w] \notin {"queue", "list", "reconcile"},
           pc'[w] \notin {"sync", "queue", "list", "reconcile"} \/ (pc'[w] = "list" /\ batch # <<>>),
           \A u \in Thread : u # w => pc'[u] = pc[u],
           UNCHANGED <<ev, batch, todo>>
    PROVE  \A k \in Mem : InHand(k) <=> InHand(k)'
<1>1. w \in Thread /\ \A u \in Thread : u # w => pc[u] \notin Locked
  BY Values, Alone
<1>2. pc[w] \notin {"sync", "queue"}
  BY DEF Locked
<1> QED BY <1>1, <1>2 DEF InHand, Locked

LEMMA DrainOkPromise ==
    ASSUME Shape, Shape', Cover', NEW w \in Worker, DrainOk(w)
    PROVE  Promise!Next
<1>1. TypeOK /\ w \in Thread
  BY Values DEF Shape
<1>2. /\ pc[w] = "drain" /\ pc'[w] \in {"done", "list"} /\ batch # <<>>
      /\ \A u \in Thread : u # w => pc'[u] = pc[u]
  BY <1>1, Moved DEF DrainOk, Places
<1>3. UNCHANGED <<table, repairs, ev, batch, todo>>
  BY DEF DrainOk
<1>4. CASE UNCHANGED index
  <2>1. Promise!Reckon
    BY <1>3, <1>4, ReckonPromise
  <2> QED BY <2>1 DEF Promise!Next
<1>5. ASSUME NEW m \in Mem, m = Head(batch).mem,
             \E text \in Entry : index' = [index EXCEPT ![m] = text],
             lost' \in {lost \union {m}, lost \ {m}}
      PROVE  Promise!Work(m)
  <2>1. \A k \in Mem : InHand(k) <=> InHand(k)'
    BY <1>2, <1>3, InHandSame DEF Locked
  <2>2. \A k \in Mem : k \in Owed <=> k \in Owed'
    BY <1>3, <2>1, OwedSame
  <2>3. \A k \in Mem : k # m => index'[k] = index[k] /\ (k \in lost <=> k \in lost')
    BY <1>1, <1>5 DEF TypeOK
  <2> QED BY <1>3, <2>2, <2>3, WorkPromise
<1>6. CASE ~UNCHANGED index
  <2>1. Head(batch).mem \in Mem
    <3>1. ProperKind(Head(batch).kind, Head(batch).mem) /\ Head(batch).mem \in Mem \union {All}
      BY <1>2, HeadOf
    <3>2. Head(batch).kind # "MemoryIndexReconcile"
      BY <1>6 DEF DrainOk
    <3> QED BY <3>1, <3>2 DEF ProperKind
  <2>2. PICK m \in Mem : m = Head(batch).mem
    BY <2>1
  <2>3. /\ \E text \in Entry : index' = [index EXCEPT ![m] = text]
        /\ lost' \in {lost \union {m}, lost \ {m}}
    BY <1>1, <1>6, <2>2, Values DEF DrainOk, TypeOK
  <2>4. Promise!Work(m)
    BY <1>5, <2>2, <2>3
  <2> QED BY <2>4 DEF Promise!Next
<1> QED BY <1>4, <1>6

LEMMA DrainFailPromise ==
    ASSUME Shape, Shape', Cover', NEW w \in Worker, DrainFail(w)
    PROVE  Promise!Next
<1>1. TypeOK /\ w \in Thread
  BY Values DEF Shape
<1>2. /\ pc[w] = "drain" /\ pc'[w] = "failed" /\ batch # <<>>
      /\ \A u \in Thread : u # w => pc'[u] = pc[u]
  BY <1>1, Moved DEF DrainFail, Places
<1>3. UNCHANGED <<table, repairs, ev, batch, todo, lost>>
  BY DEF DrainFail
<1>4. CASE UNCHANGED index
  <2>1. Promise!Reckon
    BY <1>3, <1>4, ReckonPromise
  <2> QED BY <2>1 DEF Promise!Next
<1>5. CASE ~UNCHANGED index
  <2>1. Head(batch).kind = "MemoryDerived" /\ Head(batch).mem \in Mem
    <3>1. ProperKind(Head(batch).kind, Head(batch).mem) /\ Head(batch).mem \in Mem \union {All}
      BY <1>2, HeadOf
    <3>2. Head(batch).kind = "MemoryDerived"
      BY <1>5 DEF DrainFail
    <3> QED BY <3>1, <3>2 DEF ProperKind
  <2>2. PICK m \in Mem : m = Head(batch).mem
    BY <2>1
  <2>3. \E left \in AfterFailure(m, table[m]) : index' = [index EXCEPT ![m] = left]
    BY <1>5, <2>2 DEF DrainFail
  <2>4. \A k \in Mem : k # m => index'[k] = index[k]
    <3>1. table[m] \in Entry
      BY <1>1 DEF TypeOK
    <3> QED BY <1>1, <2>3, <3>1, FailedWrite
  <2>5. \A k \in Mem : InHand(k) <=> InHand(k)'
    BY <1>2, <1>3, InHandSame DEF Locked
  <2>6. \A k \in Mem : k \in Owed <=> k \in Owed'
    BY <1>3, <2>5, OwedSame
  <2>7. Promise!Work(m)
    BY <1>3, <2>4, <2>6, WorkPromise
  <2> QED BY <2>7 DEF Promise!Next
<1> QED BY <1>4, <1>5

LEMMA ImportPromise ==
    ASSUME Shape, Shape', NEW w \in Worker, Import(w)
    PROVE  Promise!Replace
<1>1. Owed' = Mem
  BY ImportCover DEF Owed
<1>2. table' \in [Mem -> Entry]
  BY DEF Shape, TypeOK
<1>3. UNCHANGED index /\ lost' \subseteq lost
  BY DEF Import
<1> QED BY <1>1, <1>2, <1>3 DEF Promise!Replace, Owed

LEMMA ReconcilePromise ==
    ASSUME Shape, Shape', Cover', NEW w \in Worker, NEW m \in Mem,
           ReconcileOk(w, m) \/ ReconcileFail(w, m)
    PROVE  Promise!Work(m)
<1>1. TypeOK
  BY DEF Shape
<1>2. UNCHANGED <<table, pc, ev, batch>> /\ todo' = todo \ {m}
  BY DEF ReconcileOk, ReconcileFail
<1>3. \A k \in Mem : k # m => index'[k] = index[k] /\ (k \in lost <=> k \in lost')
  <2>1. CASE ReconcileOk(w, m)
    BY <1>1, <2>1 DEF ReconcileOk, TypeOK
  <2>2. CASE ReconcileFail(w, m)
    <3>1. want[m] \in Entry
      BY <1>1 DEF TypeOK
    <3> QED BY <1>1, <2>2, <3>1, FailedWrite DEF ReconcileFail
  <2> QED BY <2>1, <2>2
<1>4. /\ (\E d \in Debts(repairs) : d.mem = All) <=> \E d \in Debts(repairs') : d.mem = All
      /\ \A d \in Debts(repairs) \union Debts(repairs') :
            d.mem # m => (d \in Debts(repairs) <=> d \in Debts(repairs'))
  <2>1. CASE ReconcileOk(w, m)
    BY <2>1 DEF ReconcileOk
  <2>2. CASE ReconcileFail(w, m)
    <3> DEFINE debt == [mem |-> m, kind |-> Kind(want[m]), seq |-> 0, late |-> FALSE]
    <3>1. /\ Debts(repairs) \subseteq Debts(repairs')
          /\ Debts(repairs') \subseteq Debts(repairs) \union {debt}
      BY <2>2, ReconcileFailLedger
    <3>2. debt.mem = m /\ m # All
      BY Values
    <3> HIDE DEF debt
    <3> QED BY <3>1, <3>2
  <2> QED BY <2>1, <2>2
<1>5. \A k \in Mem : k # m => (InHand(k) <=> InHand(k)')
  BY <1>2 DEF InHand
<1>6. \A k \in Mem : k # m => (k \in Owed <=> k \in Owed')
  BY <1>2, <1>4, <1>5, OwedSame
<1> QED BY <1>2, <1>3, <1>6, WorkPromise

LEMMA StepPromise == Inv /\ Inv' /\ [Next]_vars => [Promise!Next]_(Promise!vars)
<1> SUFFICES ASSUME Inv, Inv', [Next]_vars
             PROVE  Promise!Next
  OBVIOUS
<1>1. Shape /\ Shape' /\ Cover'
  BY DEF Inv
<1>2. ASSUME UNCHANGED <<table, index>> PROVE Promise!Next
  BY <1>1, <1>2, ReckonPromise DEF Promise!Next
<1>3. CASE Write
  <2>1. CASE Commit
    BY <1>1, <2>1, CommitPromise DEF Promise!Next
  <2>2. ASSUME NEW m \in Mem, NEW text \in Entry, Check(m, text) PROVE Promise!Next
    BY <1>2, <2>2 DEF Check, durable
  <2>3. ASSUME NEW m \in Mem, NEW text \in Text, NEW w \in Worker, Derive(w, m, text)
        PROVE  Promise!Next
    BY <1>1, <2>3, DerivePromise DEF Promise!Next
  <2> QED BY <1>3, <2>1, <2>2, <2>3 DEF Write
<1>4. ASSUME NEW t \in Thread, Sync(t) PROVE Promise!Next
  <2>1. CASE SyncOk(t) \/ SyncFail(t)
    BY <1>1, <2>1, SyncPromise DEF Promise!Next
  <2>2. CASE Queue(t)
    BY <1>2, <2>2 DEF Queue
  <2> QED BY <1>4, <2>1, <2>2 DEF Sync
<1>5. ASSUME NEW w \in Worker, Drain(w) \/ DrainStep(w) PROVE Promise!Next
  <2>1. CASE DrainDone(w)
    <3>1. UNCHANGED <<table, index>>
      BY <2>1 DEF DrainDone
    <3> QED BY <1>2, <3>1
  <2>2. CASE Drain(w) \/ DrainFailed(w) \/ DrainEnd(w)
    <3>1. UNCHANGED <<table, index>>
      BY <2>2 DEF Drain, DrainFailed, DrainEnd, durable
    <3> QED BY <1>2, <3>1
  <2> QED BY <1>1, <1>5, <2>1, <2>2, DrainOkPromise, DrainFailPromise DEF DrainStep
<1>6. ASSUME NEW w \in Worker, Import(w) PROVE Promise!Next
  BY <1>1, <1>6, ImportPromise DEF Promise!Next
<1>7. ASSUME NEW w \in Worker, Reconcile(w) PROVE Promise!Next
  <2>1. CASE List(w) \/ ListFail(w) \/ ReconcileEnd(w)
    BY <1>2, <2>1 DEF List, ListFail, ReconcileEnd, durable
  <2>2. ASSUME NEW m \in Mem, ReconcileOk(w, m) \/ ReconcileFail(w, m) PROVE Promise!Next
    BY <1>1, <2>2, ReconcilePromise DEF Promise!Next
  <2> QED BY <1>7, <2>1, <2>2 DEF Reconcile
<1>8. CASE Export \/ Crash \/ UNCHANGED vars \/ \E i \in 1..Len(repairs) : Requeue(i)
  BY <1>2, <1>8 DEF Export, Crash, Requeue, vars, durable
<1> QED BY <1>3, <1>4, <1>5, <1>6, <1>7, <1>8 DEF Next

\* However commits, syncs, drains, imports, failing calls and deaths interleave,
\* the search index is a lagging copy of the memories: it disagrees about a
\* memory only while a thread or a repair row is still bound to bring it up to
\* date, or after the entry was lost for one of the named reasons
\* (kernel.py:93, memory_index_sync.py:123).
THEOREM CopyKept == Spec => CopyPromise
<1>1. Inv /\ [Next]_vars => Inv'
  BY StepShape, StepOrder, StepCover DEF Inv
<1>2. Inv /\ [Next]_vars => [Promise!Next]_(Promise!vars)
  BY <1>1, StepPromise
<1> QED BY <1>2, InitPromise, InvHolds, PTL DEF Spec, CopyPromise, Promise!Spec

\* What that comes to in the state: a search that finds a deleted memory, misses
\* one or finds its old text does so because of a sync in hand, a repair row that
\* fits, or a named loss; a drain never deletes the last such row too early
\* (memory_index_sync.py:267).
THEOREM NoSilentDrift ==
    Spec => [](\A m \in Mem : \/ index[m] = table[m] \/ m \in lost
                              \/ InHand(m) \/ InQueue(m))
<1>1. Inv => \A m \in Mem : \/ index[m] = table[m] \/ m \in lost
                            \/ InHand(m) \/ InQueue(m)
  BY CoverAccounts DEF Inv, Accounted, Owed
<1> QED BY <1>1, InvHolds, PTL
=============================================================================
