----------------------------- MODULE LaggingCopy -----------------------------
(***************************************************************************)
(* What the memory store promises of its search index: a copy of the       *)
(* memories that may lag behind them, but that disagrees about a memory    *)
(* only while some work is owed on it, or after it was lost to a fault the *)
(* store does not record.  Implemented by MemoryIndex.                     *)
(***************************************************************************)
CONSTANTS
    Key,            \* what the source and its copy are indexed by
    Value           \* what they may hold for a key

VARIABLES
    source,
    copy,
    owed,           \* keys somebody is still bound to bring up to date
    lost            \* keys nobody will bring up to date any more

vars == <<source, copy, owed, lost>>

Init ==
    /\ source \in [Key -> Value]
    /\ copy = source
    /\ owed = {}
    /\ lost = {}

\* The owner changes one entry, and from then on owes the copy that entry.
Write(k) ==
    /\ source' \in [Key -> Value]
    /\ \A other \in Key \ {k} : source'[other] = source[other]
    /\ owed' = owed \union {k}
    /\ UNCHANGED <<copy, lost>>

\* Work on one entry: it ends right, or it is still owed, or it is lost.
Work(k) ==
    /\ copy' \in [Key -> Value]
    /\ \A other \in Key \ {k} : copy'[other] = copy[other]
    /\ owed' \in {owed, owed \union {k}, owed \ {k}}
    /\ lost' \in {lost, lost \union {k}, lost \ {k}}
    /\ copy'[k] = source[k] \/ k \in owed' \union lost'
    /\ UNCHANGED source

\* Debts appear or are dropped without touching the copy: none is dropped
\* while the copy is wrong, unless the entry is lost.
Reckon ==
    /\ owed' \subseteq Key
    /\ lost' \subseteq Key
    /\ \A k \in owed \union lost :
          k \in owed' \union lost' \/ copy[k] = source[k]
    /\ UNCHANGED <<source, copy>>

\* The source is replaced as a whole: every entry is owed again.
Replace ==
    /\ source' \in [Key -> Value]
    /\ owed' = Key
    /\ lost' \subseteq lost
    /\ UNCHANGED copy

Next == Replace \/ Reckon \/ \E k \in Key : Write(k) \/ Work(k)

Spec == Init /\ [][Next]_vars

\* A wrong entry is owed or lost.
NoSilentDrift == \A k \in Key : copy[k] = source[k] \/ k \in owed \union lost
=============================================================================
