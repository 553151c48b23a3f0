----------------------------- MODULE MemoryIndex -----------------------------
(***************************************************************************)
(* Memories: the event log and the projection written in one transaction   *)
(* (kernel.emit_event), the vector index brought up to date after the      *)
(* commit (kernel/memory_index_sync.py), the durable repair queue drained  *)
(* by the maintenance tick, and the import of a backup, which replaces the *)
(* log and then reconciles the index (kernel/sovereignty_ops.py).          *)
(*                                                                         *)
(* Real threads run this code.  The loop thread edits and deletes; worker  *)
(* threads create, drain and import.  A commit takes no lock but the       *)
(* database's; the index work after it takes memory_index_operation_lock,  *)
(* so commits and index work may happen in different orders.  An action is *)
(* one commit or one call of the index; the process may die between two.   *)
(*                                                                         *)
(* A memory's embedding_id, category, confidence and claim status are left *)
(* out: the index work does not depend on them.  No writer stores an empty *)
(* text, so the branches for one are left out too.                         *)
(*                                                                         *)
(* A definition whose name starts with Bug is a seeded fault: no action    *)
(* uses it; in the place of the definition after it, it breaks a property. *)
(***************************************************************************)
EXTENDS Naturals, Sequences, FiniteSets, SequencesExt

CONSTANTS
    Mem,            \* memory ids
    Text,           \* contents a memory may have
    Gone,           \* no row in memories, or no vector in the index
    All,            \* MEMORY_INDEX_RECONCILE_AGGREGATE
    Loop,           \* the asyncio thread
    Worker,         \* threads of asyncio.to_thread
    MaxRetries,     \* max_retries of the drain
    MaxBatch,       \* batch_size of the drain
    MaxEvents,      \* bound: seq of the last event
    MaxFaults,      \* bound: failing index calls and repair writes
    MaxCrashes,     \* bound: process deaths
    MaxImports,     \* bound: imports of a backup
    MaxRequeues     \* bound: operator retries of a failed_permanent row

ASSUME MemoryIndexAssumption ==
    /\ Gone \notin Text /\ All \notin Mem
    /\ Loop \notin Worker
    /\ {MaxRetries, MaxBatch} \subseteq Nat \ {0}
    /\ {MaxEvents, MaxFaults, MaxCrashes, MaxImports, MaxRequeues} \subseteq Nat

VARIABLES
    table,          \* memories.content by id
    seq,            \* event_log: the last seq
    repairs,        \* memory_index_repairs, by id
    index,          \* the vector collection
    backup,         \* an exported snapshot of the log, as what it rebuilds
    fresh,          \* ids no MemoryDerived has used (each is a new uuid)
    pc,             \* where each thread is
    ev,             \* the event each thread commits or has committed
    batch,          \* rows left in the drain of the thread holding the lock
    todo,           \* memories left in its reconcile
    want,           \* what that reconcile read from the projection
    lost,           \* history: entries no debt covers, for a named reason
    spent           \* history: faults, crashes, imports and requeues so far

durable == <<table, seq, repairs, index, backup>>
threads == <<pc, ev, batch, todo, want>>
vars    == <<durable, fresh, threads, lost, spent>>
----------------------------------------------------------------------------
Thread == Worker \union {Loop}
Entry  == Text \union {Gone}

NoEvent == [mem |-> All, text |-> Gone, seq |-> 0, late |-> FALSE]
Event   == [mem : Mem, text : Entry, seq : Nat, late : BOOLEAN] \union {NoEvent}

Kinds == {"MemoryDerived", "MemoryDeleted", "MemoryIndexReconcile"}
Row   == [mem : Mem \union {All}, kind : Kinds, seq : Nat, tries : Nat,
          dead : BOOLEAN, late : BOOLEAN]

Places == {"idle", "checked", "sync", "queue", "drain", "done", "failed",
           "list", "reconcile"}
Locked == {"queue", "drain", "done", "failed", "list", "reconcile"}
Spent  == {"faults", "crashes", "imports", "requeues"}

Nothing  == [m \in Mem |-> Gone]
NoBackup == [table |-> Nothing, seq |-> 0, taken |-> FALSE]

TypeOK ==
    /\ table \in [Mem -> Entry]
    /\ index \in [Mem -> Entry]
    /\ seq \in Nat
    /\ repairs \in Seq(Row)
    /\ backup \in [table : [Mem -> Entry], seq : Nat, taken : BOOLEAN]
    /\ fresh \subseteq Mem
    /\ pc \in [Thread -> Places]
    /\ ev \in [Thread -> Event]
    /\ batch \in Seq(Row)
    /\ todo \subseteq Mem
    /\ want \in [Mem -> Entry]
    /\ lost \subseteq Mem
    /\ spent \in [Spent -> Nat]

Init ==
    /\ table = Nothing
    /\ seq = 0
    /\ repairs = <<>>
    /\ index = Nothing
    /\ backup = NoBackup
    /\ fresh = Mem
    /\ pc = [t \in Thread |-> "idle"]
    /\ ev = [t \in Thread |-> NoEvent]
    /\ batch = <<>>
    /\ todo = {}
    /\ want = Nothing
    /\ lost = {}
    /\ spent = [s \in Spent |-> 0]
----------------------------------------------------------------------------
LockFree == \A t \in Thread : pc[t] \notin Locked

Goto(t, place) == pc' = [pc EXCEPT ![t] = place]

CanFail == spent["faults"] < MaxFaults
Spend(what) == spent' = [spent EXCEPT ![what] = @ + 1]

Kind(text) == IF text = Gone THEN "MemoryDeleted" ELSE "MemoryDerived"

NewRow(m, kind, s, late) ==
    [mem |-> m, kind |-> kind, seq |-> s, tries |-> 0, dead |-> FALSE, late |-> late]

BugPersist(rows, row) ==
    IF \E i \in 1..Len(rows) : rows[i].mem = row.mem THEN rows ELSE Append(rows, row)

\* One row per (aggregate_id, event_seq): the row that is there stays as it is.
Persist(rows, row) ==
    IF \E i \in 1..Len(rows) : rows[i].mem = row.mem /\ rows[i].seq = row.seq
    THEN rows
    ELSE Append(rows, row)

SameRow(a, b) == a.mem = b.mem /\ a.seq = b.seq

\* What index_memory may leave behind when it raises: it deletes, then adds.
\* delete_memory leaves the vector.
AfterFailure(m, text) == IF text = Gone THEN {index[m]} ELSE {index[m], Gone, text}
----------------------------------------------------------------------------
\* emit_event(MemoryDerived) in a worker thread: the row, then the sync.
Derive(w, m, text) ==
    /\ pc[w] = "idle"
    /\ m \in fresh
    /\ seq < MaxEvents
    /\ fresh' = fresh \ {m}
    /\ seq' = seq + 1
    /\ table' = [table EXCEPT ![m] = text]
    /\ ev' = [ev EXCEPT ![w] = [mem |-> m, text |-> text, seq |-> seq + 1, late |-> FALSE]]
    /\ Goto(w, "sync")
    /\ UNCHANGED <<repairs, index, backup, batch, todo, want, lost, spent>>

\* PUT and DELETE look the memory up before they emit.
Check(m, text) ==
    /\ pc[Loop] = "idle"
    /\ table[m] # Gone
    /\ seq < MaxEvents
    /\ ev' = [ev EXCEPT ![Loop] = [mem |-> m, text |-> text, seq |-> 0, late |-> FALSE]]
    /\ Goto(Loop, "checked")
    /\ UNCHANGED <<durable, fresh, batch, todo, want, lost, spent>>

\* emit_event(MemoryUpdated or MemoryDeleted): an update of a row that an
\* import has removed in between changes no row, but is indexed all the same.
Commit ==
    /\ pc[Loop] = "checked"
    /\ seq' = seq + 1
    /\ LET m == ev[Loop].mem IN
          /\ table' = [table EXCEPT ![m] = IF @ = Gone THEN Gone ELSE ev[Loop].text]
          /\ ev' = [ev EXCEPT ![Loop].seq = seq + 1,
                              ![Loop].late = table[m] = Gone]
    /\ Goto(Loop, "sync")
    /\ UNCHANGED <<repairs, index, backup, fresh, batch, todo, want, lost, spent>>

\* A later event of the same memory is being synced: what other threads
\* have yet to sync for it is late.
Overtaken(t) ==
    [u \in Thread |->
        IF /\ u # t /\ pc[u] = "sync"
           /\ ~ev[t].late
           /\ ev[u].mem = ev[t].mem /\ ev[u].seq < ev[t].seq
        THEN [ev[u] EXCEPT !.late = TRUE]
        ELSE ev[u]]

\* The index gets the text of the event, not of the projection.
SyncOk(t) ==
    /\ pc[t] = "sync"
    /\ LockFree
    /\ LET m == ev[t].mem IN
          /\ index' = [index EXCEPT ![m] = ev[t].text]
          /\ lost' = IF ev[t].late THEN lost \union {m} ELSE lost \ {m}
    /\ ev' = [Overtaken(t) EXCEPT ![t] = NoEvent]
    /\ Goto(t, "idle")
    /\ UNCHANGED <<table, seq, repairs, backup, fresh, batch, todo, want, spent>>

\* The index raises; the compensating delete may raise too.
SyncFail(t) ==
    /\ pc[t] = "sync"
    /\ LockFree
    /\ CanFail /\ Spend("faults")
    /\ LET m == ev[t].mem IN
          /\ \E left \in AfterFailure(m, ev[t].text) : index' = [index EXCEPT ![m] = left]
          /\ lost' = IF ev[t].late THEN lost \union {m} ELSE lost
    /\ ev' = Overtaken(t)
    /\ Goto(t, "queue")
    /\ UNCHANGED <<table, seq, repairs, backup, fresh, batch, todo, want>>

\* An import sets the seq back, so a new event may find the row of an event
\* of the replaced log under its own (aggregate_id, event_seq).
Outdated(e) ==
    \E i \in 1..Len(repairs) :
        repairs[i].mem = e.mem /\ repairs[i].seq = e.seq /\ repairs[i].late

\* persist_memory_index_repair: a write that fails is logged and forgotten.
Queue(t) ==
    /\ pc[t] = "queue"
    /\ LET e == ev[t] IN
          \/ /\ repairs' = Persist(repairs, NewRow(e.mem, Kind(e.text), e.seq, e.late))
             /\ lost' = IF Outdated(e) THEN lost \union {e.mem} ELSE lost
             /\ UNCHANGED spent
          \/ /\ CanFail /\ Spend("faults")
             /\ lost' = lost \union {e.mem}
             /\ UNCHANGED repairs
    /\ ev' = [ev EXCEPT ![t] = NoEvent]
    /\ Goto(t, "idle")
    /\ UNCHANGED <<table, seq, index, backup, fresh, batch, todo, want>>
----------------------------------------------------------------------------
BugAlive(row) == row.tries = 0
Alive(row) == ~row.dead

\* The maintenance tick takes the lock and reads a batch: the oldest pending
\* rows, as many as there are up to MaxBatch.
Drain(w) ==
    /\ pc[w] = "idle"
    /\ LockFree
    /\ LET pending == {i \in 1..Len(repairs) : Alive(repairs[i])} IN
          \E n \in 1..MaxBatch : \E order \in [1..n -> pending] :
             /\ \A j, k \in 1..n : j < k => order[j] < order[k]
             /\ \A i \in pending :
                   \/ \E k \in 1..n : order[k] = i
                   \/ n = MaxBatch /\ order[n] < i
             /\ batch' = [k \in 1..n |-> repairs[order[k]]]
    /\ Goto(w, "drain")
    /\ UNCHANGED <<durable, fresh, ev, todo, want, lost, spent>>

\* The index work of one row.  A deleted memory's row asks for nothing: the
\* deletion has a sync, and a row, of its own.
DrainOk(w) ==
    /\ pc[w] = "drain"
    /\ batch # <<>>
    /\ LET row == Head(batch)
           m   == row.mem
       IN  \/ /\ row.kind = "MemoryIndexReconcile"
              /\ Goto(w, "list")
              /\ UNCHANGED <<index, lost>>
           \/ /\ row.kind = "MemoryDeleted"
              /\ index' = [index EXCEPT ![m] = Gone]
              /\ lost' = IF row.late THEN lost \union {m} ELSE lost \ {m}
              /\ Goto(w, "done")
           \/ /\ row.kind = "MemoryDerived" /\ table[m] = Gone
              /\ Goto(w, "done")
              /\ UNCHANGED <<index, lost>>
           \/ /\ row.kind = "MemoryDerived" /\ table[m] # Gone
              /\ index' = [index EXCEPT ![m] = table[m]]
              /\ lost' = lost \ {m}
              /\ Goto(w, "done")
    /\ UNCHANGED <<table, seq, repairs, backup, fresh, ev, batch, todo, want, spent>>

\* No compensating delete here: the row is tried again.
DrainFail(w) ==
    /\ pc[w] = "drain"
    /\ batch # <<>>
    /\ CanFail /\ Spend("faults")
    /\ LET row == Head(batch)
           m   == row.mem
       IN  \/ /\ row.kind = "MemoryDeleted"
              /\ UNCHANGED index
           \/ /\ row.kind = "MemoryDerived" /\ table[m] # Gone
              /\ \E left \in AfterFailure(m, table[m]) : index' = [index EXCEPT ![m] = left]
    /\ Goto(w, "failed")
    /\ UNCHANGED <<table, seq, repairs, backup, fresh, ev, batch, todo, want, lost>>

\* DELETE FROM memory_index_repairs by its unique key, and on to the next row.
DrainDone(w) ==
    /\ pc[w] = "done"
    /\ repairs' = RemoveFirstMatch(repairs, LAMBDA row : SameRow(row, Head(batch)))
    /\ batch' = Tail(batch)
    /\ Goto(w, "drain")
    /\ UNCHANGED <<table, seq, index, backup, fresh, ev, todo, want, lost, spent>>

\* retry_count + 1; failed_permanent when the budget is spent.
BugBump(row) == [row EXCEPT !.tries = Head(batch).tries - 1]
Bump(row) ==
    [row EXCEPT !.tries = Head(batch).tries + 1,
                !.dead = Head(batch).tries + 1 >= MaxRetries]

DrainFailed(w) ==
    /\ pc[w] = "failed"
    /\ repairs' = [i \in 1..Len(repairs) |->
                      IF SameRow(repairs[i], Head(batch)) THEN Bump(repairs[i]) ELSE repairs[i]]
    /\ batch' = Tail(batch)
    /\ Goto(w, "drain")
    /\ UNCHANGED <<table, seq, index, backup, fresh, ev, todo, want, lost, spent>>

DrainEnd(w) ==
    /\ pc[w] = "drain"
    /\ batch = <<>>
    /\ Goto(w, "idle")
    /\ UNCHANGED <<durable, fresh, ev, batch, todo, want, lost, spent>>

\* retry_memory_index_repair: the operator puts a failed row back.
Requeue(i) ==
    /\ spent["requeues"] < MaxRequeues /\ Spend("requeues")
    /\ repairs[i].dead
    /\ repairs' = [repairs EXCEPT ![i].dead = FALSE, ![i].tries = 0]
    /\ UNCHANGED <<table, seq, index, backup, fresh, threads, lost>>
----------------------------------------------------------------------------
\* An export reads one WAL snapshot: a prefix of the log.
Export ==
    /\ backup' = [table |-> table, seq |-> seq, taken |-> TRUE]
    /\ backup # backup'
    /\ UNCHANGED <<table, seq, repairs, index, fresh, threads, lost, spent>>

\* One transaction replaces the log, the projections and the repair rows;
\* the lock is held from before it until the index is reconciled.
Import(w) ==
    /\ pc[w] = "idle"
    /\ LockFree
    /\ backup.taken
    /\ spent["imports"] < MaxImports /\ Spend("imports")
    /\ table' = backup.table
    /\ seq' = backup.seq
    /\ repairs' = <<>>
    /\ lost' = {}
    /\ ev' = [t \in Thread |-> IF pc[t] = "sync" THEN [ev[t] EXCEPT !.late = TRUE] ELSE ev[t]]
    /\ Goto(w, "list")
    /\ UNCHANGED <<index, backup, fresh, batch, todo, want>>

\* _reconcile_memory_index_after_restore: read the projection, list the index.
List(t) ==
    /\ pc[t] = "list"
    /\ want' = table
    /\ todo' = {m \in Mem : table[m] # Gone \/ index[m] # Gone}
    /\ Goto(t, "reconcile")
    /\ UNCHANGED <<durable, fresh, ev, batch, lost, spent>>

\* The rows a failed listing leaves: the full one first, then one for each
\* memory of the projection.
PersistAll(rows, mems) ==
    LET new == {m \in mems : ~\E i \in 1..Len(rows) : rows[i].mem = m /\ rows[i].seq = 0}
    IN  rows \o SetToSeq({NewRow(m, "MemoryDerived", 0, FALSE) : m \in new})

\* A reconcile of an import ends here; one of the drain is a failed try.
ListFail(t) ==
    /\ pc[t] = "list"
    /\ CanFail /\ Spend("faults")
    /\ repairs' = PersistAll(Persist(repairs, NewRow(All, "MemoryIndexReconcile", 0, FALSE)),
                             {m \in Mem : table[m] # Gone})
    /\ Goto(t, IF batch = <<>> THEN "idle" ELSE "failed")
    /\ UNCHANGED <<table, seq, index, backup, fresh, ev, batch, todo, want, lost>>

ReconcileOk(t, m) ==
    /\ pc[t] = "reconcile"
    /\ m \in todo
    /\ index' = [index EXCEPT ![m] = want[m]]
    /\ lost' = lost \ {m}
    /\ todo' = todo \ {m}
    /\ UNCHANGED <<table, seq, repairs, backup, fresh, pc, ev, batch, want, spent>>

ReconcileFail(t, m) ==
    /\ pc[t] = "reconcile"
    /\ m \in todo
    /\ CanFail /\ Spend("faults")
    /\ \E left \in AfterFailure(m, want[m]) : index' = [index EXCEPT ![m] = left]
    /\ repairs' = Persist(repairs, NewRow(m, Kind(want[m]), 0, FALSE))
    /\ todo' = todo \ {m}
    /\ UNCHANGED <<table, seq, backup, fresh, pc, ev, batch, want, lost>>

ReconcileEnd(t) ==
    /\ pc[t] = "reconcile"
    /\ todo = {}
    /\ want' = Nothing
    /\ Goto(t, IF batch = <<>> THEN "idle" ELSE "done")
    /\ UNCHANGED <<durable, fresh, ev, batch, todo, lost, spent>>
----------------------------------------------------------------------------
\* Index work that a thread has in hand and that no repair row records.
InHand(m) ==
    \E t \in Thread :
        \/ pc[t] \in {"sync", "queue"} /\ ev[t].mem = m
        \/ pc[t] = "list" /\ batch = <<>>
        \/ pc[t] = "reconcile" /\ batch = <<>> /\ m \in todo

\* A repair row that will bring m up to date: a MemoryDeleted row deletes,
\* any other indexes what the projection holds.
InQueue(m) ==
    \E i \in 1..Len(repairs) :
        \/ repairs[i].mem = All
        \/ repairs[i].mem = m /\ (repairs[i].kind = "MemoryDeleted") = (table[m] = Gone)

\* The process dies; at the next boot nothing compares the index with the
\* projection, so what was in hand is lost.
Crash ==
    /\ spent["crashes"] < MaxCrashes /\ Spend("crashes")
    /\ lost' = lost \union {m \in Mem : InHand(m) /\ index[m] # table[m]}
    /\ pc' = [t \in Thread |-> "idle"]
    /\ ev' = [t \in Thread |-> NoEvent]
    /\ batch' = <<>>
    /\ todo' = {}
    /\ want' = Nothing
    /\ UNCHANGED <<durable, fresh>>

Write ==
    \/ Commit
    \/ \E m \in Mem : \/ \E text \in Entry : Check(m, text)
                      \/ \E text \in Text, w \in Worker : Derive(w, m, text)

Sync(t) == SyncOk(t) \/ SyncFail(t) \/ Queue(t)

DrainStep(w) == DrainOk(w) \/ DrainFail(w) \/ DrainDone(w) \/ DrainFailed(w) \/ DrainEnd(w)

Reconcile(t) ==
    \/ List(t) \/ ListFail(t) \/ ReconcileEnd(t)
    \/ \E m \in Mem : ReconcileOk(t, m) \/ ReconcileFail(t, m)

Next ==
    \/ Write
    \/ \E t \in Thread : Sync(t)
    \/ \E w \in Worker : Drain(w) \/ DrainStep(w) \/ Import(w) \/ Reconcile(w)
    \/ \E i \in 1..Len(repairs) : Requeue(i)
    \/ Export
    \/ Crash

Spec == Init /\ [][Next]_vars

\* A thread in the middle of something goes on, and the tick comes round.
Fairness ==
    /\ WF_vars(Commit)
    /\ \A t \in Thread : WF_vars(Sync(t))
    /\ \A w \in Worker : WF_vars(DrainStep(w)) /\ WF_vars(Reconcile(w))
    /\ WF_vars(\E w \in Worker : Drain(w))

FairSpec == Spec /\ Fairness
----------------------------------------------------------------------------
\* The index is a LaggingCopy of the projection: they disagree about a memory
\* only while its sync, its reconcile or a fitting repair row is still there,
\* or after one of the events that lose it: a death before the work was
\* recorded, a sync overtaken by a later one or by an import, a repair row
\* that could not be written (kernel.py:93, memory_index_sync.py:123).
Promise ==
    INSTANCE LaggingCopy WITH
        Key    <- Mem,
        Value  <- Entry,
        source <- table,
        copy   <- index,
        owed   <- {m \in Mem : InHand(m) \/ InQueue(m)},
        lost   <- lost

CopyPromise == Promise!Spec

\* When writers and faults stop, the index comes to hold exactly the
\* memories, apart from the lost ones and those whose repair has failed
\* for good (runtime_loop.py:343, memory_index_sync.py:267).
Converges ==
    <>[](\A m \in Mem : \/ index[m] = table[m]
                        \/ m \in lost
                        \/ \E i \in 1..Len(repairs) :
                              repairs[i].mem \in {m, All} /\ repairs[i].dead)
=============================================================================
