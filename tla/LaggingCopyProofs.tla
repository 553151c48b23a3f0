-------------------------- MODULE LaggingCopyProofs --------------------------
(***************************************************************************)
(* What the promise of LaggingCopy comes to: whoever implements it never   *)
(* lets the copy go wrong silently.                                        *)
(***************************************************************************)
EXTENDS LaggingCopy, TLAPS

TypeInv ==
    /\ source \in [Key -> Value]
    /\ copy \in [Key -> Value]
    /\ owed \subseteq Key
    /\ lost \subseteq Key

Inv == TypeInv /\ NoSilentDrift

LEMMA InitInv == Init => Inv
BY DEF Init, Inv, TypeInv, NoSilentDrift

\* A change of one entry of the source leaves that entry owed.
LEMMA WriteInv ==
    ASSUME Inv, NEW k \in Key, Write(k)
    PROVE  Inv'
<1>1. TypeInv'
  BY DEF Inv, TypeInv, Write
<1>2. ASSUME NEW j \in Key
      PROVE  copy'[j] = source'[j] \/ j \in owed' \union lost'
  <2>1. CASE j = k
    BY <2>1 DEF Write
  <2>2. CASE j # k
    <3>1. source'[j] = source[j] /\ copy'[j] = copy[j]
      BY <2>2 DEF Write
    <3>2. copy[j] = source[j] \/ j \in owed \union lost
      BY DEF Inv, NoSilentDrift
    <3> QED BY <3>1, <3>2 DEF Write
  <2> QED BY <2>1, <2>2
<1> QED BY <1>1, <1>2 DEF Inv, NoSilentDrift

\* Work on one entry ends right, or the entry stays accounted for; the debts
\* on every other entry stay as they are.
LEMMA WorkInv ==
    ASSUME Inv, NEW k \in Key, Work(k)
    PROVE  Inv'
<1>1. TypeInv'
  BY DEF Inv, TypeInv, Work
<1>2. ASSUME NEW j \in Key
      PROVE  copy'[j] = source'[j] \/ j \in owed' \union lost'
  <2>1. CASE j = k
    BY <2>1 DEF Work
  <2>2. CASE j # k
    <3>1. source'[j] = source[j] /\ copy'[j] = copy[j]
      BY <2>2 DEF Work
    <3>2. copy[j] = source[j] \/ j \in owed \union lost
      BY DEF Inv, NoSilentDrift
    <3>3. j \in owed => j \in owed'
      BY <2>2 DEF Work
    <3>4. j \in lost => j \in lost'
      BY <2>2 DEF Work
    <3> QED BY <3>1, <3>2, <3>3, <3>4
  <2> QED BY <2>1, <2>2
<1> QED BY <1>1, <1>2 DEF Inv, NoSilentDrift

LEMMA ReckonInv ==
    ASSUME Inv, Reckon
    PROVE  Inv'
BY DEF Inv, TypeInv, NoSilentDrift, Reckon

LEMMA ReplaceInv ==
    ASSUME Inv, Replace
    PROVE  Inv'
BY DEF Inv, TypeInv, NoSilentDrift, Replace

LEMMA NextInv == Inv /\ [Next]_vars => Inv'
<1>1. CASE UNCHANGED vars
  BY <1>1 DEF Inv, TypeInv, NoSilentDrift, vars
<1>2. CASE Next
  BY <1>2, WriteInv, WorkInv, ReckonInv, ReplaceInv DEF Next
<1> QED BY <1>1, <1>2

\* An entry of the copy that differs from the source is owed or lost, in
\* every store that keeps the promise: CopyPromise of MemoryIndex is this one
\* for the vector index (memory_index_sync.py:109).
THEOREM NeverSilent == Spec => []NoSilentDrift
<1>1. Spec => []Inv
  BY InitInv, NextInv, PTL DEF Spec
<1>2. Inv => NoSilentDrift
  BY DEF Inv
<1> QED BY <1>1, <1>2, PTL
=============================================================================
