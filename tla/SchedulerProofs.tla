-------------------------- MODULE SchedulerProofs --------------------------
(***************************************************************************)
(* Proofs about the scheduler, for every number of executions and every    *)
(* retry budget, queue cap and concurrency cap.                            *)
(***************************************************************************)
EXTENDS Scheduler, SequenceTheorems, FiniteSetTheorems, TLAPS

(***************************************************************************)
(* What TypeOK needs to be inductive: a used task slot holds an object of  *)
(* its own execution, _active maps an id to such a slot, the callback      *)
(* in progress has what its next step reads, an execution nobody requested *)
(* is nowhere in memory, and a process that is not up runs no task.        *)
(***************************************************************************)
TaskOK ==
    \A t \in Task :
        /\ task[t].pc = "none" => task[t] = FreeTask
        /\ task[t].pc # "none" => /\ task[t].obj \in Obj
                                  /\ ExecOf(task[t].obj) = ExecOf(t)

ActiveOK ==
    \A e \in Exec : active[e] # NoTask => /\ ExecOf(active[e]) = e
                                          /\ task[active[e]].pc # "none"

SegOK ==
    /\ seg.op = "idle" => seg = Idle
    /\ seg.op \in {"enqueue", "reject"} => seg.left \in 1..Fanout
    /\ seg.op = "enqueue" => Len(queue) + seg.left <= MaxPending
    /\ seg.at \in {"fail", "retrying", "pending", "drop"} => seg.obj \in Obj
    /\ seg.at = "retrying" => /\ seg.op = "reclaim"
                              /\ mem[seg.obj].retry < MaxRetries
    /\ seg.at = "pending" => seg.op \in {"reclaim", "recover", "replay"}
    /\ seg.at = "drop" => seg.op \in {"sleep", "reclaim"}

Unborn ==
    \A e \in Exec : row[e].status = "absent" =>
        /\ ~Queued(e)
        /\ \A t \in Task : ExecOf(t) = e => task[t] = FreeTask

BootOK ==
    /\ mode # "up" => \A t \in Task : task[t] = FreeTask
    /\ mode = "down" => seg = Idle /\ queue = <<>>
    /\ mode = "boot" => seg.op \in {"idle", "recover"}
    /\ seg.op = "recover" => mode = "boot"
    /\ mode = "boot" => \A i \in DOMAIN queue :
                            row[ExecOf(queue[i])].status \in {"pending", "retrying"}

TypeInv == TypeOK /\ TaskOK /\ ActiveOK /\ SegOK /\ Unborn /\ BootOK
----------------------------------------------------------------------------
(* Facts about the operators the scheduler is built from.                  *)

\* Removing one entry of a queue leaves a queue that is one shorter and has
\* no entry the old one did not have.
LEMMA RemoveAtFacts ==
    ASSUME NEW S, NEW q \in Seq(S), NEW k \in DOMAIN q
    PROVE  /\ RemoveAt(q, k) \in Seq(S)
           /\ Len(RemoveAt(q, k)) = Len(q) - 1
           /\ \A i \in DOMAIN RemoveAt(q, k) :
                  \/ i \in DOMAIN q /\ i < k /\ RemoveAt(q, k)[i] = q[i]
                  \/ i + 1 \in DOMAIN q /\ i >= k /\ RemoveAt(q, k)[i] = q[i + 1]
<1>1. Len(q) \in Nat /\ k \in 1..Len(q)
  OBVIOUS
<1>2. \A i \in 1..(Len(q) - 1) : RemoveAt(q, k)[i] \in S
  BY <1>1 DEF RemoveAt
<1>3. RemoveAt(q, k) \in Seq(S)
  BY <1>1, <1>2, IsASeq DEF RemoveAt
<1>4. Len(RemoveAt(q, k)) = Len(q) - 1
  BY <1>1, <1>3 DEF RemoveAt
<1>5. QED
  BY <1>1, <1>3, <1>4 DEF RemoveAt

\* The execution of a task or of an object is an execution, and the two null
\* values are neither.
LEMMA Ids ==
    /\ NoTask \notin Task /\ NoObj \notin Obj
    /\ \A t \in Task : ExecOf(t) \in Exec
    /\ \A o \in Obj : ExecOf(o) \in Exec
BY SchedulerAssumption DEF Task, Obj, NoTask, NoObj, ExecOf, Exec

\* The literals of the code are in the sets their variables range over.
LEMMA Literals ==
    /\ 0 \in 0..MaxRetries /\ 0 \in 0..Fanout
    /\ \A s \in Status : s \in RowStatus
    /\ "pending" \in Status /\ "running" \in Status /\ "retrying" \in Status
    /\ "completed" \in Status /\ "failed" \in Status
    /\ "" \in Errors /\ "error" \in Errors /\ "timeout" \in Errors
    /\ "interrupted" \in Errors /\ "cancelled" \in Errors
    /\ "queue_full" \in Errors /\ "no_handler" \in Errors /\ "replay" \in Errors
    /\ "none" \in Ages /\ "fresh" \in Ages /\ "stale" \in Ages
    /\ "none" \in Pcs /\ "created" \in Pcs /\ "handler" \in Pcs
    /\ "sleep" \in Pcs /\ "done" \in Pcs
    /\ "idle" \in Ops /\ "enqueue" \in Ops /\ "reject" \in Ops /\ "begin" \in Ops
    /\ "cancel" \in Ops /\ "sleep" \in Ops /\ "reclaim" \in Ops
    /\ "recover" \in Ops /\ "replay" \in Ops
    /\ "" \in Ats /\ "request" \in Ats /\ "fail" \in Ats /\ "retrying" \in Ats
    /\ "pending" \in Ats /\ "drop" \in Ats
BY SchedulerAssumption DEF Status, Open, RowStatus, Errors, Ages, Pcs, Ops, Ats

\* A set of positions of a sequence has a first one.
LEMMA LeastOf ==
    ASSUME NEW n \in Nat, NEW K \in SUBSET (1..n), K # {}
    PROVE  \E k \in K : \A j \in K : k <= j
<1> DEFINE F == {1..k : k \in K}
           R == StrictSubsetOrdering(1..n)
<1>1. F \subseteq FiniteSubsetsOf(1..n)
  <2>1. \A k \in K : 1..k \subseteq 1..n /\ IsFiniteSet(1..k)
    BY FS_Interval
  <2>2. QED
    BY <2>1 DEF FiniteSubsetsOf
<1>2. F # {}
  OBVIOUS
<1>3. IsWellFoundedOn(R, FiniteSubsetsOf(1..n))
  BY FS_StrictSubsetOrderingWellFounded
<1>4. PICK x \in F : \A y \in F : ~ (<<y, x>> \in R)
  <2> HIDE DEF F, R
  <2> QED BY <1>1, <1>2, <1>3, WFMin
<1>5. PICK k \in K : x = 1..k
  OBVIOUS
<1>6. ASSUME NEW j \in K, j < k
      PROVE  FALSE
  <2>1. 1..j \subseteq 1..k /\ k \in 1..k /\ k \notin 1..j
    BY <1>6
  <2>2. 1..j \in SUBSET (1..n) /\ 1..k \in SUBSET (1..n) /\ 1..j # 1..k
    BY <2>1
  <2>3. <<1..j, 1..k>> \in R
    BY <2>1, <2>2 DEF StrictSubsetOrdering
  <2>4. QED
    BY <2>3, <1>4, <1>5
<1>7. QED
  BY <1>6

\* The first entry of a queued execution is one of its entries.
LEMMA FirstOfFacts ==
    ASSUME queue \in Seq(Obj), NEW e \in Exec, Queued(e)
    PROVE  /\ FirstOf(queue, e) \in DOMAIN queue
           /\ ExecOf(queue[FirstOf(queue, e)]) = e
<1> DEFINE K == {k \in DOMAIN queue : ExecOf(queue[k]) = e}
<1>1. /\ DOMAIN queue = 1..Len(queue) /\ Len(queue) \in Nat
      /\ K \in SUBSET (1..Len(queue)) /\ K # {}
  BY DEF Queued
<1>2. PICK k \in K : \A j \in K : k <= j
  <2> HIDE DEF K
  <2> QED BY <1>1, LeastOf
<1>3. \A j \in 1..(k - 1) : ExecOf(queue[j]) # e
  BY <1>1, <1>2
<1>4. QED
  BY <1>2, <1>3 DEF FirstOf

\* Each projector writes the row of its own execution and no other.
RowWritten(e) == /\ row' \in [Exec -> RowType]
                 /\ row'[e].status # "absent"
                 /\ \A f \in Exec \ {e} : row'[f] = row[f]

\* No row goes back to a state before its request.
RowKept == /\ row' \in [Exec -> RowType]
           /\ \A e \in Exec : row'[e].status = "absent" => row[e].status = "absent"

\* Writing one row leaves every row requested that was.
LEMMA RowWrittenKept ==
    ASSUME NEW e \in Exec, RowWritten(e)
    PROVE  RowKept
BY DEF RowWritten, RowKept

\* ExecutionRequested leaves a pending row.
LEMMA RequestedFacts ==
    ASSUME row \in [Exec -> RowType], NEW e \in Exec, Requested(e)
    PROVE  RowWritten(e) /\ row'[e].status = "pending"
<1>1. [status |-> "pending", retry |-> 0, error |-> "", dead |-> FALSE] \in RowType
  BY Literals DEF RowType
<1>2. QED
  BY <1>1 DEF Requested, RowWritten

\* ExecutionStarted leaves a running row.
LEMMA StartedFacts ==
    ASSUME row \in [Exec -> RowType], NEW e \in Exec, Started(e)
    PROVE  RowWritten(e) /\ row'[e].status = "running"
BY Literals DEF Started, RowType, RowWritten

\* ExecutionCompleted leaves a completed row.
LEMMA CompletedFacts ==
    ASSUME row \in [Exec -> RowType], NEW e \in Exec, Completed(e)
    PROVE  RowWritten(e) /\ row'[e].status = "completed"
BY Literals DEF Completed, RowType, RowWritten

\* ExecutionFailed leaves a failed row with the fields of the event.
LEMMA FailedFacts ==
    ASSUME row \in [Exec -> RowType], NEW e \in Exec, NEW r \in 0..MaxRetries,
           NEW x \in Errors, NEW d \in BOOLEAN, Failed(e, r, x, d)
    PROVE  /\ RowWritten(e)
           /\ row'[e] = [status |-> "failed", retry |-> r, error |-> x, dead |-> d]
BY Literals DEF Failed, RowType, RowWritten

\* ExecutionRetried leaves the row of the event, no dead letter.
LEMMA RetriedFacts ==
    ASSUME row \in [Exec -> RowType], NEW e \in Exec, NEW s \in Status,
           NEW r \in 0..MaxRetries, NEW x \in Errors, Retried(e, s, r, x)
    PROVE  /\ RowWritten(e)
           /\ row'[e] = [status |-> s, retry |-> r, error |-> x, dead |-> FALSE]
<1>1. [status |-> s, retry |-> r, error |-> x, dead |-> FALSE] \in RowType
  BY Literals DEF RowType
<1>2. s # "absent"
  BY DEF Status, Open
<1>3. QED
  BY <1>1, <1>2 DEF Retried, RowWritten

\* Ending a task changes that task alone, and keeps its object.
LEMMA EndTaskFacts ==
    ASSUME task \in [Task -> TaskType], NEW t \in Task, EndTask(t)
    PROVE  /\ task' \in [Task -> TaskType]
           /\ \A u \in Task \ {t} : task'[u] = task[u]
           /\ task'[t].pc = "done" /\ ~task'[t].cancelled
           /\ task'[t].obj = task[t].obj
BY Literals DEF EndTask, TaskType

\* Cancelling a task sets a mark on it if it still works, and does no more.
LEMMA CancelTaskFacts ==
    ASSUME task \in [Task -> TaskType], NEW t \in Task \union {NoTask},
           CancelTask(t)
    PROVE  /\ task' \in [Task -> TaskType]
           /\ \A u \in Task : /\ task'[u].pc = task[u].pc
                              /\ task'[u].obj = task[u].obj
                              /\ task'[u] # task[u] => u = t /\ Unfinished(t)
           /\ t # NoTask /\ Unfinished(t) => task'[t].cancelled
BY DEF CancelTask, TaskType, Unfinished

\* A free heap cell, if there is one, is what FreshObj returns.
LEMMA FreshObjFacts ==
    ASSUME NEW e \in Exec, HasFreshObj(e)
    PROVE  FreshObj(e) \in Obj /\ ExecOf(FreshObj(e)) = e /\ ~Referenced(FreshObj(e))
BY DEF FreshObj, HasFreshObj, Obj, ExecOf

\* An execution that is in no queue entry and no task has all its cells free.
LEMMA UnreferencedHasFresh ==
    ASSUME TypeOK, TaskOK, NEW e \in Exec, ~Queued(e),
           \A t \in Task : ExecOf(t) = e => task[t] = FreeTask
    PROVE  HasFreshObj(e)
<1>1. PICK c \in Copy : TRUE
  BY SchedulerAssumption
<1>2. ~InQueue(<<e, c>>)
  BY DEF InQueue, Queued, ExecOf
<1>3. ASSUME NEW t \in Task, task[t].obj = <<e, c>>
      PROVE  FALSE
  <2>1. CASE task[t].pc = "none"
    BY <2>1, <1>3 DEF TaskOK, FreeTask, NoObj, Exec
  <2>2. CASE task[t].pc # "none"
    BY <2>2, <1>3 DEF TaskOK, ExecOf, FreeTask
  <2>3. QED
    BY <2>1, <2>2
<1>4. QED
  BY <1>1, <1>2, <1>3 DEF HasFreshObj, Referenced
----------------------------------------------------------------------------
(* The type invariant is inductive.                                        *)

\* The variables TypeInv does not relate to each other are typed.
LEMMA Types ==
    ASSUME TypeInv
    PROVE  /\ row \in [Exec -> RowType]
           /\ mem \in [Obj -> ObjType]
           /\ queue \in Seq(Obj)
           /\ task \in [Task -> TaskType]
           /\ active \in [Exec -> Task \union {NoTask}]
           /\ seg \in SegType
           /\ mode \in {"up", "down", "boot"}
BY DEF TypeInv, TypeOK

\* While the process is up and a step neither takes nor frees a task slot,
\* only types, the callback in progress and the birth of rows need a look.
LEMMA UpFrame ==
    ASSUME TypeInv, TypeOK', SegOK', mode = "up", mode' = "up",
           seg'.op # "recover",
           \A t \in Task : /\ task'[t].pc = "none" <=> task[t].pc = "none"
                           /\ task'[t].obj = task[t].obj
                           /\ task[t] = FreeTask => task'[t] = FreeTask,
           \A e \in Exec : active'[e] \in {active[e], NoTask},
           \A e \in Exec : row'[e].status = "absent" =>
               row[e].status = "absent" /\ (Queued(e)' => Queued(e))
    PROVE  TypeInv'
<1>1. TaskOK'
  BY DEF TypeInv, TaskOK, FreeTask
<1>2. ActiveOK'
  <2>1. active \in [Exec -> Task \union {NoTask}] /\ ActiveOK
    BY Types DEF TypeInv
  <2>2. ASSUME NEW e \in Exec, active'[e] # NoTask
        PROVE  ExecOf(active'[e]) = e /\ task'[active'[e]].pc # "none"
    <3>1. active'[e] = active[e] /\ active[e] \in Task
      BY <2>1, <2>2
    <3>2. QED
      BY <2>1, <2>2, <3>1 DEF ActiveOK
  <2>3. QED
    BY <2>2 DEF ActiveOK
<1>3. Unborn'
  BY DEF TypeInv, Unborn
<1>4. BootOK'
  BY DEF BootOK
<1>5. QED
  BY <1>1, <1>2, <1>3, <1>4 DEF TypeInv

\* The fields of the idle callback.
LEMMA IdleFields == Idle.op = "idle" /\ Idle.at = ""
BY DEF Idle

\* With no callback in progress there is nothing to say about it.
LEMMA IdleSeg ==
    ASSUME seg' = Idle
    PROVE  SegOK' /\ seg' \in SegType /\ seg'.op # "recover"
BY Literals DEF SegOK, Idle, SegType

\* A cancelled object and its row are both failed.
LEMMA MarkCancelledFacts ==
    ASSUME row \in [Exec -> RowType], mem \in [Obj -> ObjType],
           NEW o \in Obj, MarkCancelled(o)
    PROVE  /\ RowWritten(ExecOf(o))
           /\ row'[ExecOf(o)].status = "failed"
           /\ mem' \in [Obj -> ObjType]
           /\ mem'[o].status = "failed"
           /\ \A p \in Obj \ {o} : mem'[p] = mem[p]
<1>1. mem[o].retry \in 0..MaxRetries /\ ExecOf(o) \in Exec
  BY Ids DEF ObjType
<1>2. Failed(ExecOf(o), mem[o].retry, "cancelled", FALSE)
  BY DEF MarkCancelled
<1>3. RowWritten(ExecOf(o)) /\ row'[ExecOf(o)].status = "failed"
  <2>1. "cancelled" \in Errors
    BY Literals
  <2>2. /\ RowWritten(ExecOf(o))
        /\ row'[ExecOf(o)] = [status |-> "failed", retry |-> mem[o].retry,
                              error |-> "cancelled", dead |-> FALSE]
    BY <1>1, <1>2, <2>1, FailedFacts
  <2>3. QED
    BY <2>2
<1>4. /\ mem' \in [Obj -> ObjType]
      /\ mem'[o].status = "failed"
      /\ \A p \in Obj \ {o} : mem'[p] = mem[p]
  BY Literals DEF MarkCancelled, ObjType
<1>5. QED
  BY <1>3, <1>4

\* The object a task in use works on, and the row behind it.
LEMMA TaskObj ==
    ASSUME TypeInv, NEW t \in Task, task[t].pc # "none"
    PROVE  /\ task[t].obj \in Obj
           /\ ExecOf(task[t].obj) = ExecOf(t) /\ ExecOf(t) \in Exec
           /\ mem[task[t].obj] \in ObjType
           /\ mem[task[t].obj].retry \in 0..MaxRetries
           /\ mem[task[t].obj].error \in Errors
<1>1. task[t].obj \in Obj /\ ExecOf(task[t].obj) = ExecOf(t) /\ ExecOf(t) \in Exec
  BY Ids DEF TypeInv, TaskOK
<1>2. mem[task[t].obj] \in ObjType
  BY <1>1, Types
<1>3. QED
  BY <1>1, <1>2 DEF ObjType

\* Every way a task ends preserves the invariant.
LEMMA FinishStep ==
    ASSUME TypeInv, NEW t \in Task, task[t].pc # "none", EndTask(t),
           mode = "up", seg' = Idle,
           mem' \in [Obj -> ObjType], RowKept,
           flags' \in SUBSET Exec,
           UNCHANGED <<lease, queue, active, mode, attempt, starts, acked,
                       replays, crashes>>
    PROVE  TypeInv'
<1>1. /\ task' \in [Task -> TaskType]
      /\ \A u \in Task : /\ task'[u].pc = "none" <=> task[u].pc = "none"
                         /\ task'[u].obj = task[u].obj
                         /\ task[u] = FreeTask => task'[u] = FreeTask
  <2>1. /\ task' \in [Task -> TaskType]
        /\ \A u \in Task \ {t} : task'[u] = task[u]
        /\ task'[t].pc = "done" /\ task'[t].obj = task[t].obj
    BY Types, EndTaskFacts
  <2>2. task[t] # FreeTask
    BY DEF FreeTask
  <2>3. QED
    BY <2>1, <2>2
<1>2. TypeOK'
  BY <1>1, IdleSeg DEF TypeInv, TypeOK, RowKept
<1>3. SegOK' /\ seg'.op # "recover"
  BY IdleSeg
<1>4. \A e \in Exec : active'[e] \in {active[e], NoTask}
  OBVIOUS
<1>5. \A e \in Exec : Queued(e)' => Queued(e)
  BY DEF Queued
<1>6. QED
  BY <1>1, <1>2, <1>3, <1>4, <1>5, UpFrame DEF RowKept

\* A handler that returns completes its row or acknowledges a cancel.
LEMMA HandlerOkStep == ASSUME TypeInv, NEW t \in Task, HandlerOk(t) PROVE TypeInv'
<1> DEFINE o == task[t].obj
<1>1. /\ task[t].pc # "none" /\ EndTask(t) /\ mode = "up" /\ seg' = Idle
      /\ UNCHANGED <<lease, queue, active, mode, attempt, starts, acked,
                     replays, crashes>>
  BY DEF HandlerOk, Returning, Turn, history
<1>2. /\ mem' \in [Obj -> ObjType]
      /\ RowKept
  <2>1. CASE UNCHANGED <<mem, row>>
    BY <2>1, Types DEF RowKept
  <2>2. CASE MarkCancelled(o)
    BY <2>2, <1>1, Types, TaskObj, MarkCancelledFacts, RowWrittenKept
  <2>3. CASE /\ mem' = [mem EXCEPT ![o].status = "completed", ![o].error = ""]
             /\ Completed(ExecOf(t))
    <3>1. mem' \in [Obj -> ObjType]
      BY <2>3, <1>1, Types, TaskObj, Literals DEF ObjType
    <3>2. QED
      BY <2>3, <3>1, <1>1, Types, TaskObj, CompletedFacts, RowWrittenKept
  <2>4. QED
    BY <2>1, <2>2, <2>3 DEF HandlerOk
<1>3. flags' \in SUBSET Exec
  BY DEF HandlerOk, TypeInv, TypeOK
<1>4. QED
  BY <1>1, <1>2, <1>3, FinishStep

\* A handler that fails retries, or its row is a dead letter.
LEMMA HandlerFailsStep ==
    ASSUME TypeInv, NEW t \in Task, HandlerFails(t) PROVE TypeInv'
<1> DEFINE o == task[t].obj
<1>1. /\ task[t].pc = "handler" /\ mode = "up" /\ seg = Idle /\ seg' = Idle
      /\ UNCHANGED <<lease, queue, active, flags, mode, attempt, starts, acked,
                     replays, crashes>>
  BY DEF HandlerFails, Returning, Turn, history
<1>2. flags' \in SUBSET Exec
  BY <1>1 DEF TypeInv, TypeOK
<1>3. CASE /\ CanRetry(o)
           /\ mem' = [mem EXCEPT ![o] = [status |-> "retrying",
                                         retry |-> @.retry + 1,
                                         error |-> "error"]]
           /\ Retried(ExecOf(t), "retrying", mem[o].retry + 1, "error")
           /\ task' = [task EXCEPT ![t].pc = "sleep"]
  <2>1. mem[o].retry + 1 \in 0..MaxRetries
    BY <1>1, <1>3, TaskObj, SchedulerAssumption DEF CanRetry
  <2>2. mem' \in [Obj -> ObjType]
    BY <1>3, <2>1, Types, Literals DEF ObjType
  <2>3. RowKept
    <3>1. ExecOf(t) \in Exec /\ row \in [Exec -> RowType]
      BY <1>1, Types, TaskObj
    <3>2. "retrying" \in Status /\ "error" \in Errors
      BY Literals
    <3>3. RowWritten(ExecOf(t))
      BY <1>3, <2>1, <3>1, <3>2, RetriedFacts
    <3>4. QED
      BY <3>1, <3>3, RowWrittenKept
  <2>4. /\ task' \in [Task -> TaskType]
        /\ \A u \in Task : /\ task'[u].pc = "none" <=> task[u].pc = "none"
                           /\ task'[u].obj = task[u].obj
                           /\ task[u] = FreeTask => task'[u] = FreeTask
    <3>1. task' \in [Task -> TaskType]
      BY <1>3, Types, Literals DEF TaskType
    <3>2. /\ \A u \in Task \ {t} : task'[u] = task[u]
          /\ task'[t].pc = "sleep" /\ task'[t].obj = task[t].obj
      BY <1>3, Types DEF TaskType
    <3>3. task[t] # FreeTask
      BY <1>1 DEF FreeTask
    <3>4. QED
      BY <1>1, <3>1, <3>2, <3>3
  <2>5. TypeOK'
    BY <1>1, <2>2, <2>3, <2>4, IdleSeg DEF TypeInv, TypeOK, RowKept
  <2>6. /\ \A e \in Exec : active'[e] \in {active[e], NoTask}
        /\ \A e \in Exec : Queued(e)' => Queued(e)
    BY <1>1 DEF Queued
  <2>7. QED
    BY <1>1, <2>3, <2>4, <2>5, <2>6, IdleSeg, UpFrame DEF RowKept
<1>4. CASE /\ mem' = [mem EXCEPT ![o].status = "failed", ![o].error = "error"]
           /\ Failed(ExecOf(t), mem[o].retry, "error", TRUE)
           /\ EndTask(t)
  <2>1. mem' \in [Obj -> ObjType]
    BY <1>4, Types, Literals DEF ObjType
  <2>2. RowKept
    <3>1. /\ ExecOf(t) \in Exec /\ row \in [Exec -> RowType]
          /\ mem[o].retry \in 0..MaxRetries
      BY <1>1, Types, TaskObj
    <3>2. "error" \in Errors
      BY Literals
    <3>3. RowWritten(ExecOf(t))
      BY <1>4, <3>1, <3>2, FailedFacts
    <3>4. QED
      BY <3>1, <3>3, RowWrittenKept
  <2>3. QED
    BY <1>1, <1>2, <1>4, <2>1, <2>2, FinishStep
<1>5. CASE /\ mem' = [mem EXCEPT ![o].error = "error"]
           /\ EndTask(t) /\ UNCHANGED row
  <2>1. mem' \in [Obj -> ObjType] /\ RowKept
    BY <1>5, Types, Literals DEF ObjType, RowKept
  <2>2. QED
    BY <1>1, <1>2, <1>5, <2>1, FinishStep
<1>6. QED
  BY <1>3, <1>4, <1>5 DEF HandlerFails

\* A CancelledError ends its task wherever it is thrown in.
LEMMA CancelDeliveredStep ==
    ASSUME TypeInv, NEW t \in Task, CancelDelivered(t) PROVE TypeInv'
<1> DEFINE o == task[t].obj
<1>1. /\ task[t].pc # "none" /\ EndTask(t) /\ mode = "up" /\ seg' = Idle
      /\ UNCHANGED <<lease, queue, active, mode, attempt, starts, acked,
                     replays, crashes>>
  BY DEF CancelDelivered, Unfinished, Turn, history
<1>2. /\ mem' \in [Obj -> ObjType]
      /\ RowKept
  <2>1. CASE UNCHANGED <<mem, row>>
    BY <2>1, Types DEF RowKept
  <2>2. CASE MarkCancelled(o)
    BY <2>2, <1>1, Types, TaskObj, MarkCancelledFacts, RowWrittenKept
  <2>3. CASE mem' = [mem EXCEPT ![o].error = "cancelled"] /\ UNCHANGED row
    BY <2>3, Types, Literals DEF ObjType, RowKept
  <2>4. QED
    BY <2>1, <2>2, <2>3 DEF CancelDelivered
<1>3. flags' \in SUBSET Exec
  BY DEF CancelDelivered, TypeInv, TypeOK
<1>4. QED
  BY <1>1, <1>2, <1>3, FinishStep

\* A cancel flag set before the first step ends the task there.
LEMMA BeginCancelledStep ==
    ASSUME TypeInv, NEW t \in Task, BeginCancelled(t) PROVE TypeInv'
<1>1. /\ task[t].pc # "none" /\ EndTask(t) /\ mode = "up" /\ seg' = Idle
      /\ MarkCancelled(task[t].obj)
      /\ flags' = flags \ {ExecOf(t)}
      /\ UNCHANGED <<lease, queue, active, mode, attempt, starts, acked,
                     replays, crashes>>
  BY DEF BeginCancelled, FirstStep, Turn, history
<1>2. /\ mem' \in [Obj -> ObjType]
      /\ RowKept
  BY <1>1, Types, TaskObj, MarkCancelledFacts, RowWrittenKept
<1>3. flags' \in SUBSET Exec
  BY <1>1 DEF TypeInv, TypeOK
<1>4. QED
  BY <1>1, <1>2, <1>3, FinishStep

\* A missing handler ends the task in a dead letter.
LEMMA NoHandlerStep ==
    ASSUME TypeInv, NEW t \in Task, NoHandler(t) PROVE TypeInv'
<1> DEFINE o == task[t].obj
<1>1. /\ task[t].pc # "none" /\ EndTask(t) /\ mode = "up" /\ seg' = Idle
      /\ mem' = [mem EXCEPT ![o].status = "failed", ![o].error = "no_handler"]
      /\ Failed(ExecOf(t), mem[o].retry, "no_handler", TRUE)
      /\ UNCHANGED <<lease, queue, active, flags, mode, attempt, starts, acked,
                     replays, crashes>>
  BY DEF NoHandler, Returning, history
<1>2. mem' \in [Obj -> ObjType]
  BY <1>1, Types, Literals DEF ObjType
<1>3. RowKept
  <2>1. /\ ExecOf(t) \in Exec /\ row \in [Exec -> RowType]
        /\ mem[o].retry \in 0..MaxRetries
    BY <1>1, Types, TaskObj
  <2>2. "no_handler" \in Errors
    BY Literals
  <2>3. RowWritten(ExecOf(t))
    BY <1>1, <2>1, <2>2, FailedFacts
  <2>4. QED
    BY <2>1, <2>3, RowWrittenKept
<1>4. flags' \in SUBSET Exec
  BY <1>1 DEF TypeInv, TypeOK
<1>5. QED
  BY <1>1, <1>2, <1>3, <1>4, FinishStep

----------------------------------------------------------------------------
(* Enqueueing and the callbacks that go on after a commit.                 *)

\* The fields of a callback in progress.
LEMMA SegFacts ==
    ASSUME NEW op \in Ops, NEW at \in Ats, NEW o \in Obj
    PROVE  /\ Seg(op, at, o) \in SegType
           /\ Seg(op, at, o).op = op /\ Seg(op, at, o).at = at
           /\ Seg(op, at, o).obj = o
BY Literals DEF Seg, SegType

\* Append adds one entry, the last one, and keeps the others.
LEMMA AppendQueued ==
    ASSUME queue \in Seq(Obj), NEW o \in Obj, queue' = Append(queue, o)
    PROVE  /\ queue' \in Seq(Obj) /\ Len(queue') = Len(queue) + 1
           /\ \A i \in DOMAIN queue' :
                  \/ i \in DOMAIN queue /\ queue'[i] = queue[i]
                  \/ i = Len(queue) + 1 /\ queue'[i] = o
           /\ \A e \in Exec : Queued(e)' <=> Queued(e) \/ e = ExecOf(o)
<1>1. /\ queue' \in Seq(Obj) /\ Len(queue') = Len(queue) + 1
      /\ Len(queue) \in Nat
      /\ \A i \in 1..Len(queue) : queue'[i] = queue[i]
      /\ queue'[Len(queue) + 1] = o
  BY AppendProperties
<1>2. \A i \in DOMAIN queue' :
          \/ i \in DOMAIN queue /\ queue'[i] = queue[i]
          \/ i = Len(queue) + 1 /\ queue'[i] = o
  BY <1>1
<1>3. /\ \A i \in DOMAIN queue : i \in DOMAIN queue' /\ queue'[i] = queue[i]
      /\ Len(queue) + 1 \in DOMAIN queue'
  BY <1>1
<1>4. \A e \in Exec : Queued(e)' <=> Queued(e) \/ e = ExecOf(o)
  BY <1>1, <1>2, <1>3 DEF Queued
<1>5. QED
  BY <1>1, <1>2, <1>4

\* Steps that leave the tasks alone.
LEMMA QuietFrame ==
    ASSUME TypeInv, TypeOK', SegOK', mode = "up", mode' = "up",
           seg'.op # "recover", RowKept, UNCHANGED <<task, active>>,
           \A e \in Exec : Queued(e)' => Queued(e) \/ row'[e].status # "absent"
    PROVE  TypeInv'
<1>1. \A t \in Task : /\ task'[t].pc = "none" <=> task[t].pc = "none"
                      /\ task'[t].obj = task[t].obj
                      /\ task[t] = FreeTask => task'[t] = FreeTask
  OBVIOUS
<1>2. \A e \in Exec : active'[e] \in {active[e], NoTask}
  OBVIOUS
<1>3. QED
  BY <1>1, <1>2, UpFrame DEF RowKept

\* An enqueue starts its fan-out with room for all of it, or rejects it.
LEMMA EnqueueStep ==
    ASSUME TypeInv, NEW n \in 1..Fanout, Enqueue(n) PROVE TypeInv'
<1>1. /\ mode = "up" /\ mode' = "up"
      /\ UNCHANGED <<row, lease, mem, queue, task, active, flags, mode,
                     attempt, starts, acked, replays, crashes>>
      /\ seg' = [op |-> IF Len(queue) + n > MaxPending THEN "reject" ELSE "enqueue",
                 at |-> "request", obj |-> NoObj, left |-> n]
  BY DEF Enqueue, Turn, durable, memory, history
<1>2. n \in 0..Fanout /\ Len(queue) \in Nat /\ MaxPending \in Nat
  BY Types, SchedulerAssumption
<1>3. seg' \in SegType
  BY <1>1, <1>2, Literals DEF SegType
<1>4. SegOK' /\ seg'.op # "recover"
  BY <1>1, <1>2 DEF SegOK
<1>5. TypeOK'
  BY <1>1, <1>3 DEF TypeInv, TypeOK
<1>6. RowKept /\ \A e \in Exec : Queued(e)' => Queued(e)
  BY <1>1, Types DEF RowKept, Queued
<1>7. QED
  BY <1>1, <1>4, <1>5, <1>6, QuietFrame

\* What the fan-out loop goes on with after one handler.
LEMMA NextHandlerFacts ==
    ASSUME TypeInv, seg.op \in {"enqueue", "reject"}, seg' = NextHandler,
           seg.op = "enqueue" => Len(queue') = Len(queue) + 1
    PROVE  SegOK' /\ seg' \in SegType /\ seg'.op # "recover"
<1>1. CASE seg.left = 1
  <2>1. seg' = Idle
    BY <1>1 DEF NextHandler
  <2>2. QED
    BY <2>1, IdleSeg
<1>2. CASE seg.left # 1
  <2>1. /\ seg \in SegType /\ seg.left \in 1..Fanout /\ Fanout \in Nat
        /\ seg.op = "enqueue" => Len(queue) + seg.left <= MaxPending
        /\ Len(queue) \in Nat
    BY Types, SchedulerAssumption DEF TypeInv, SegOK
  <2>2. seg' = [seg EXCEPT !.at = "request", !.obj = NoObj, !.left = seg.left - 1]
    BY <1>2 DEF NextHandler
  <2>3. /\ seg'.op = seg.op /\ seg'.at = "request" /\ seg'.left = seg.left - 1
    BY <2>1, <2>2 DEF SegType
  <2>4. seg.left - 1 \in 1..Fanout /\ seg.left - 1 \in 0..Fanout
    BY <2>1, <1>2
  <2>5. seg' \in SegType
    BY <2>1, <2>2, <2>4, Literals DEF SegType
  <2>6. SegOK'
    BY <2>1, <2>3, <2>4 DEF SegOK
  <2>7. QED
    BY <2>3, <2>5, <2>6
<1>3. QED
  BY <1>1, <1>2

\* An execution about to be requested has a free object.
LEMMA NextExecFresh ==
    ASSUME TypeInv, NEW e \in Exec, NextExec(e)
    PROVE  FreshObj(e) \in Obj /\ ExecOf(FreshObj(e)) = e
<1>1. ~Queued(e) /\ \A t \in Task : ExecOf(t) = e => task[t] = FreeTask
  BY DEF NextExec, TypeInv, Unborn
<1>2. HasFreshObj(e)
  BY <1>1, UnreferencedHasFresh DEF TypeInv
<1>3. QED
  BY <1>2, FreshObjFacts

\* Each handler of the fan-out gets a row and a queue entry.
LEMMA EnqueueOneStep ==
    ASSUME TypeInv, NEW e \in Exec, EnqueueOne(e) PROVE TypeInv'
<1> DEFINE o == FreshObj(e)
<1>1. /\ mode = "up" /\ mode' = "up" /\ seg.op = "enqueue" /\ seg' = NextHandler
      /\ mem' = [mem EXCEPT ![o] = [status |-> "pending", retry |-> 0, error |-> ""]]
      /\ queue' = Append(queue, o) /\ Requested(e)
      /\ UNCHANGED <<lease, task, active, flags, attempt, starts, acked,
                     replays, crashes>>
  BY DEF EnqueueOne, history
<1>2. o \in Obj /\ ExecOf(o) = e
  BY NextExecFresh DEF EnqueueOne
<1>3. mem' \in [Obj -> ObjType]
  BY <1>1, <1>2, Types, Literals DEF ObjType
<1>4. RowKept /\ row'[e].status # "absent"
  BY <1>1, Types, RequestedFacts, RowWrittenKept DEF RowWritten
<1>5. /\ queue' \in Seq(Obj) /\ Len(queue') = Len(queue) + 1
      /\ \A f \in Exec : Queued(f)' => Queued(f) \/ f = e
  BY <1>1, <1>2, Types, AppendQueued
<1>6. SegOK' /\ seg' \in SegType /\ seg'.op # "recover"
  BY <1>1, <1>5, NextHandlerFacts
<1>7. TypeOK'
  BY <1>1, <1>3, <1>4, <1>5, <1>6 DEF TypeInv, TypeOK, RowKept
<1>8. QED
  BY <1>1, <1>4, <1>5, <1>6, <1>7, QuietFrame

\* A rejected handler still gets its row.
LEMMA RejectRequestStep ==
    ASSUME TypeInv, NEW e \in Exec, RejectRequest(e) PROVE TypeInv'
<1> DEFINE o == FreshObj(e)
<1>1. /\ mode = "up" /\ mode' = "up" /\ seg.op = "reject"
      /\ seg' = [seg EXCEPT !.at = "fail", !.obj = o]
      /\ Requested(e)
      /\ UNCHANGED <<lease, mem, queue, task, active, flags, attempt, starts,
                     acked, replays, crashes>>
  BY DEF RejectRequest, memory, history
<1>2. o \in Obj
  BY NextExecFresh DEF RejectRequest
<1>3. RowKept
  BY <1>1, Types, RequestedFacts, RowWrittenKept
<1>4. /\ seg' \in SegType /\ seg'.op = "reject" /\ seg'.at = "fail"
      /\ seg'.obj = o /\ seg'.left = seg.left
  BY <1>1, <1>2, Types, Literals DEF SegType
<1>5. SegOK' /\ seg'.op # "recover"
  BY <1>1, <1>2, <1>4 DEF TypeInv, SegOK
<1>6. TypeOK'
  BY <1>1, <1>3, <1>4 DEF TypeInv, TypeOK, RowKept
<1>7. \A f \in Exec : Queued(f)' => Queued(f)
  BY <1>1 DEF Queued
<1>8. QED
  BY <1>1, <1>3, <1>5, <1>6, <1>7, QuietFrame

\* The row of a rejected handler is failed.
LEMMA RejectFailStep == ASSUME TypeInv, RejectFail PROVE TypeInv'
<1>1. /\ mode = "up" /\ mode' = "up" /\ seg.op = "reject" /\ seg' = NextHandler
      /\ seg.at = "fail" /\ Failed(ExecOf(seg.obj), 0, "queue_full", FALSE)
      /\ UNCHANGED <<lease, mem, queue, task, active, flags, attempt, starts,
                     acked, replays, crashes>>
  BY DEF RejectFail, memory, history
<1>2. seg.obj \in Obj /\ ExecOf(seg.obj) \in Exec
  BY <1>1, Ids DEF TypeInv, SegOK
<1>3. "queue_full" \in Errors /\ 0 \in 0..MaxRetries
  BY Literals
<1>4. RowKept
  BY <1>1, <1>2, <1>3, Types, FailedFacts, RowWrittenKept
<1>5. SegOK' /\ seg' \in SegType /\ seg'.op # "recover"
  BY <1>1, NextHandlerFacts
<1>6. TypeOK'
  BY <1>1, <1>4, <1>5 DEF TypeInv, TypeOK, RowKept
<1>7. \A f \in Exec : Queued(f)' => Queued(f)
  BY <1>1 DEF Queued
<1>8. QED
  BY <1>1, <1>4, <1>5, <1>6, <1>7, QuietFrame

----------------------------------------------------------------------------
(* Going back to the queue.                                                *)

\* Whoever requeues an object writes its row and at most one entry.
LEMMA RequeueFacts ==
    ASSUME TypeInv, NEW o \in Obj,
           NEW op \in {"sleep", "reclaim", "recover", "replay"}, Requeue(o, op)
    PROVE  /\ mem' \in [Obj -> ObjType]
           /\ RowWritten(ExecOf(o)) /\ row'[ExecOf(o)].status = "pending"
           /\ queue' \in Seq(Obj)
           /\ \A e \in Exec : Queued(e)' => Queued(e) \/ e = ExecOf(o)
           /\ \A i \in DOMAIN queue' :
                  \/ i \in DOMAIN queue /\ queue'[i] = queue[i]
                  \/ ExecOf(queue'[i]) = ExecOf(o)
           /\ SegOK' /\ seg' \in SegType
           /\ seg' = Idle \/ (op \in {"sleep", "reclaim"} /\ seg'.op = op)
<1>1. /\ mem' = [mem EXCEPT ![o].status = "pending"]
      /\ Retried(ExecOf(o), "pending", mem[o].retry,
                 IF op = "replay" THEN "replay" ELSE mem[o].error)
      /\ \/ /\ op \in {"sleep", "reclaim"}
            /\ seg' = Seg(op, "drop", o)
            /\ UNCHANGED queue
         \/ /\ seg' = Idle
            /\ UNCHANGED queue \/ queue' = Append(queue, o)
  BY DEF Requeue
<1>2. /\ mem[o].retry \in 0..MaxRetries /\ mem[o].error \in Errors
      /\ ExecOf(o) \in Exec
  BY Types, Ids DEF ObjType
<1>3. mem' \in [Obj -> ObjType]
  BY <1>1, Types, Literals DEF ObjType
<1>4. RowWritten(ExecOf(o)) /\ row'[ExecOf(o)].status = "pending"
  <2> DEFINE x == IF op = "replay" THEN "replay" ELSE mem[o].error
  <2>1. x \in Errors /\ "pending" \in Status
    BY <1>2, Literals
  <2>2. Retried(ExecOf(o), "pending", mem[o].retry, x)
    BY <1>1
  <2> HIDE DEF x
  <2>3. /\ RowWritten(ExecOf(o))
        /\ row'[ExecOf(o)] = [status |-> "pending", retry |-> mem[o].retry,
                              error |-> x, dead |-> FALSE]
    BY <1>2, <2>1, <2>2, Types, RetriedFacts
  <2>4. QED
    BY <2>3
<1>5. /\ queue' \in Seq(Obj)
      /\ \A e \in Exec : Queued(e)' => Queued(e) \/ e = ExecOf(o)
      /\ \A i \in DOMAIN queue' :
             \/ i \in DOMAIN queue /\ queue'[i] = queue[i]
             \/ ExecOf(queue'[i]) = ExecOf(o)
  <2>1. CASE UNCHANGED queue
    BY <2>1, Types DEF Queued
  <2>2. CASE queue' = Append(queue, o)
    BY <2>2, Types, AppendQueued
  <2>3. QED
    BY <1>1, <2>1, <2>2
<1>6. CASE op \in {"sleep", "reclaim"} /\ seg' = Seg(op, "drop", o)
  <2>1. op \in Ops /\ "drop" \in Ats
    BY <1>6, Literals
  <2>2. seg' \in SegType /\ seg'.op = op /\ seg'.at = "drop" /\ seg'.obj = o
    BY <1>6, <2>1, SegFacts
  <2>3. SegOK'
    BY <1>6, <2>2 DEF SegOK
  <2>4. QED
    BY <1>3, <1>4, <1>5, <1>6, <2>2, <2>3
<1>7. CASE seg' = Idle
  BY <1>3, <1>4, <1>5, <1>7, IdleSeg
<1>8. QED
  BY <1>1, <1>6, <1>7

\* After the retry delay the object is queued, or the queue is full.
LEMMA SleepOverStep ==
    ASSUME TypeInv, NEW t \in Task, SleepOver(t) PROVE TypeInv'
<1> DEFINE o == task[t].obj
<1>1. /\ task[t].pc = "sleep" /\ mode = "up" /\ mode' = "up"
      /\ Requeue(o, "sleep")
      /\ EndTask(t) \/ UNCHANGED task
      /\ UNCHANGED <<lease, active, flags, attempt, starts, acked, replays,
                     crashes>>
  BY DEF SleepOver, Turn, history
<1>2. o \in Obj /\ ExecOf(o) \in Exec
  BY <1>1, TaskObj
<1>3. /\ mem' \in [Obj -> ObjType]
      /\ RowWritten(ExecOf(o))
      /\ queue' \in Seq(Obj)
      /\ \A e \in Exec : Queued(e)' => Queued(e) \/ e = ExecOf(o)
      /\ SegOK' /\ seg' \in SegType
      /\ seg' = Idle \/ seg'.op = "sleep"
  BY <1>1, <1>2, RequeueFacts
<1>4. RowKept
  BY <1>2, <1>3, RowWrittenKept
<1>5. seg'.op # "recover"
  BY <1>2, <1>3, IdleFields
<1>6. /\ task' \in [Task -> TaskType]
      /\ \A u \in Task : /\ task'[u].pc = "none" <=> task[u].pc = "none"
                         /\ task'[u].obj = task[u].obj
                         /\ task[u] = FreeTask => task'[u] = FreeTask
  <2>1. CASE EndTask(t)
    <3>1. /\ task' \in [Task -> TaskType]
          /\ \A u \in Task \ {t} : task'[u] = task[u]
          /\ task'[t].pc = "done" /\ task'[t].obj = task[t].obj
      BY <2>1, Types, EndTaskFacts
    <3>2. task[t] # FreeTask
      BY <1>1 DEF FreeTask
    <3>3. QED
      BY <1>1, <3>1, <3>2
  <2>2. CASE UNCHANGED task
    BY <2>2, Types
  <2>3. QED
    BY <1>1, <2>1, <2>2
<1>7. TypeOK'
  BY <1>1, <1>3, <1>4, <1>6 DEF TypeInv, TypeOK, RowKept
<1>8. \A e \in Exec : row'[e].status = "absent" =>
          row[e].status = "absent" /\ (Queued(e)' => Queued(e))
  BY <1>3, <1>4 DEF RowKept, RowWritten
<1>9. \A e \in Exec : active'[e] \in {active[e], NoTask}
  BY <1>1
<1>10. QED
  BY <1>1, <1>3, <1>5, <1>6, <1>7, <1>8, <1>9, UpFrame

\* A reclaim, a restart and a replay queue the object they wrote.
LEMMA SegPendingStep == ASSUME TypeInv, SegPending PROVE TypeInv'
<1> DEFINE o == seg.obj
<1>1. /\ seg.at = "pending" /\ Requeue(o, seg.op)
      /\ UNCHANGED <<lease, task, active, flags, mode, attempt, starts, acked,
                     replays, crashes>>
  BY DEF SegPending, history
<1>2. o \in Obj /\ ExecOf(o) \in Exec /\ seg.op \in {"reclaim", "recover", "replay"}
  BY <1>1, Ids DEF TypeInv, SegOK
<1>3. /\ mem' \in [Obj -> ObjType]
      /\ RowWritten(ExecOf(o)) /\ row'[ExecOf(o)].status = "pending"
      /\ queue' \in Seq(Obj)
      /\ \A e \in Exec : Queued(e)' => Queued(e) \/ e = ExecOf(o)
      /\ \A i \in DOMAIN queue' :
             \/ i \in DOMAIN queue /\ queue'[i] = queue[i]
             \/ ExecOf(queue'[i]) = ExecOf(o)
      /\ SegOK' /\ seg' \in SegType
      /\ seg' = Idle \/ (seg.op # "recover" /\ seg'.op = seg.op)
  BY <1>1, <1>2, RequeueFacts
<1>4. RowKept
  BY <1>2, <1>3, RowWrittenKept
<1>5. seg'.op # "recover"
  BY <1>2, <1>3, IdleFields
<1>6. TypeOK'
  BY <1>1, <1>3, <1>4 DEF TypeInv, TypeOK, RowKept
<1>7. CASE mode = "up"
  <2>1. \A e \in Exec : Queued(e)' => Queued(e) \/ row'[e].status # "absent"
    BY <1>3 DEF RowWritten
  <2>2. QED
    BY <1>1, <1>3, <1>4, <1>5, <1>6, <1>7, <2>1, QuietFrame
<1>8. CASE mode = "boot"
  <2>1. TaskOK' /\ ActiveOK'
    BY <1>1 DEF TypeInv, TaskOK, ActiveOK
  <2>2. Unborn'
    BY <1>1, <1>3, <1>4 DEF TypeInv, Unborn, RowKept, RowWritten
  <2>3. seg' = Idle
    BY <1>2, <1>3, <1>8 DEF TypeInv, BootOK
  <2>4. \A i \in DOMAIN queue' :
            row'[ExecOf(queue'[i])].status \in {"pending", "retrying"}
    <3> SUFFICES ASSUME NEW i \in DOMAIN queue'
                 PROVE  row'[ExecOf(queue'[i])].status \in {"pending", "retrying"}
      OBVIOUS
    <3>1. CASE ExecOf(queue'[i]) = ExecOf(o)
      BY <1>3, <3>1
    <3>2. CASE i \in DOMAIN queue /\ queue'[i] = queue[i]
      <4>1. /\ row[ExecOf(queue[i])].status \in {"pending", "retrying"}
            /\ ExecOf(queue[i]) \in Exec
        BY <1>8, <3>2, Types, Ids DEF TypeInv, BootOK
      <4>2. QED
        BY <1>3, <3>2, <4>1 DEF RowWritten
    <3>3. QED
      BY <1>3, <3>1, <3>2
  <2>5. BootOK'
    BY <1>1, <1>8, <2>3, <2>4 DEF TypeInv, BootOK, Idle
  <2>6. QED
    BY <1>3, <1>6, <2>1, <2>2, <2>5 DEF TypeInv
<1>9. CASE mode = "down"
  BY <1>1, <1>9, IdleFields DEF TypeInv, BootOK
<1>10. QED
  BY <1>7, <1>8, <1>9, Types

\* A chain of the running process only happens while it is up.
LEMMA UpSeg ==
    ASSUME TypeInv, seg.op \in {"sleep", "reclaim"}
    PROVE  mode = "up"
BY Types, IdleFields DEF TypeInv, BootOK

\* An object that found no room is failed.
LEMMA DropStep == ASSUME TypeInv, Drop PROVE TypeInv'
<1> DEFINE o == seg.obj
<1>1. /\ seg.at = "drop" /\ seg' = Idle /\ mode' = mode
      /\ mem' = [mem EXCEPT ![o].status = "failed", ![o].error = "queue_full"]
      /\ Failed(ExecOf(o), mem[o].retry, "queue_full", seg.op = "reclaim")
      /\ UNCHANGED <<lease, queue, active, flags, attempt, starts, acked,
                     replays, crashes>>
      /\ \/ \E t \in Task : task[t].pc = "sleep" /\ EndTask(t)
         \/ UNCHANGED task
  BY DEF Drop, history
<1>2. /\ o \in Obj /\ ExecOf(o) \in Exec /\ mode = "up"
      /\ mem[o].retry \in 0..MaxRetries
  BY <1>1, Ids, UpSeg, Types DEF TypeInv, SegOK, ObjType
<1>3. mem' \in [Obj -> ObjType]
  <2>1. mem' = [mem EXCEPT ![o].status = "failed", ![o].error = "queue_full"]
    BY <1>1
  <2>2. mem \in [Obj -> ObjType] /\ "failed" \in Status /\ "queue_full" \in Errors
    BY Types, Literals
  <2> HIDE DEF o
  <2>3. QED
    BY <1>2, <2>1, <2>2 DEF ObjType
<1>4. RowKept
  <2> DEFINE d == seg.op = "reclaim"
  <2>1. d \in BOOLEAN /\ "queue_full" \in Errors
    BY Literals
  <2>2. Failed(ExecOf(o), mem[o].retry, "queue_full", d)
    BY <1>1
  <2> HIDE DEF d
  <2>3. RowWritten(ExecOf(o))
    BY <1>2, <2>1, <2>2, Types, FailedFacts
  <2>4. QED
    BY <1>2, <2>3, RowWrittenKept
<1>5. CASE \E t \in Task : task[t].pc = "sleep" /\ EndTask(t)
  <2>1. PICK t \in Task : task[t].pc = "sleep" /\ EndTask(t)
    BY <1>5
  <2>2. flags' \in SUBSET Exec
    BY <1>1 DEF TypeInv, TypeOK
  <2>3. QED
    BY <1>1, <1>2, <1>3, <1>4, <2>1, <2>2, FinishStep
<1>6. CASE UNCHANGED task
  <2>1. SegOK' /\ seg' \in SegType /\ seg'.op # "recover"
    BY <1>1, IdleSeg
  <2>2. TypeOK'
    BY <1>1, <1>3, <1>4, <1>6, <2>1 DEF TypeInv, TypeOK, RowKept
  <2>3. \A e \in Exec : Queued(e)' => Queued(e)
    BY <1>1 DEF Queued
  <2>4. QED
    BY <1>1, <1>2, <1>4, <1>6, <2>1, <2>2, <2>3, QuietFrame
<1>7. QED
  BY <1>1, <1>5, <1>6

----------------------------------------------------------------------------
(* Running, cancelling, reclaiming and replaying.                          *)

\* The first step of a task starts an attempt.
LEMMA BeginStep == ASSUME TypeInv, NEW t \in Task, Begin(t) PROVE TypeInv'
<1> DEFINE o == task[t].obj
           e == ExecOf(t)
<1>1. /\ task[t].pc = "created" /\ mode = "up" /\ mode' = "up" /\ seg = Idle
      /\ mem' = [mem EXCEPT ![o].status = "running"]
      /\ Started(e)
      /\ task' = [task EXCEPT ![t].pc = "handler"]
      /\ seg' = Idle \/ seg' = Seg("begin", "fail", o)
      /\ UNCHANGED <<queue, active, flags, acked, replays, crashes>>
  BY DEF Begin, FirstStep, Turn
<1>2. /\ lease' = [lease EXCEPT ![e] = IF @ = "none" THEN "fresh" ELSE @]
      /\ attempt' = [attempt EXCEPT ![e] = "fresh"]
      /\ starts' = [starts EXCEPT ![e] = @ + 1]
  BY DEF Begin
<1>3. o \in Obj /\ e \in Exec
  BY <1>1, TaskObj
<1>4. mem' \in [Obj -> ObjType]
  BY <1>1, <1>3, Types, Literals DEF ObjType
<1>5. RowKept
  BY <1>1, <1>3, Types, StartedFacts, RowWrittenKept
<1>6. /\ task' \in [Task -> TaskType]
      /\ \A u \in Task : /\ task'[u].pc = "none" <=> task[u].pc = "none"
                         /\ task'[u].obj = task[u].obj
                         /\ task[u] = FreeTask => task'[u] = FreeTask
  <2>1. task' \in [Task -> TaskType]
    BY <1>1, Types, Literals DEF TaskType
  <2>2. /\ \A u \in Task \ {t} : task'[u] = task[u]
        /\ task'[t].pc = "handler" /\ task'[t].obj = task[t].obj
    BY <1>1, Types DEF TaskType
  <2>3. task[t] # FreeTask
    BY <1>1 DEF FreeTask
  <2>4. QED
    BY <1>1, <2>1, <2>2, <2>3
<1>7. SegOK' /\ seg' \in SegType /\ seg'.op # "recover"
  <2>1. CASE seg' = Idle
    BY <2>1, IdleSeg
  <2>2. CASE seg' = Seg("begin", "fail", o)
    <3>1. "begin" \in Ops /\ "fail" \in Ats
      BY Literals
    <3>2. /\ seg' \in SegType /\ seg'.op = "begin" /\ seg'.at = "fail"
          /\ seg'.obj = o
      BY <1>3, <2>2, <3>1, SegFacts
    <3>3. QED
      BY <1>3, <3>2 DEF SegOK
  <2>3. QED
    BY <1>1, <2>1, <2>2
<1>8. /\ lease' \in [Exec -> Ages] /\ attempt' \in [Exec -> Ages]
      /\ starts' \in [Exec -> Nat]
  <2>1. /\ lease \in [Exec -> Ages] /\ attempt \in [Exec -> Ages]
        /\ starts \in [Exec -> Nat]
    BY DEF TypeInv, TypeOK
  <2>2. "fresh" \in Ages
    BY Literals
  <2> HIDE DEF e
  <2>3. lease' \in [Exec -> Ages]
    BY <1>2, <1>3, <2>1, <2>2
  <2>4. attempt' \in [Exec -> Ages]
    BY <1>2, <2>1, <2>2
  <2>5. starts' \in [Exec -> Nat]
    BY <1>2, <1>3, <2>1
  <2>6. QED
    BY <2>3, <2>4, <2>5
<1>9. TypeOK'
  BY <1>1, <1>4, <1>5, <1>6, <1>7, <1>8 DEF TypeInv, TypeOK, RowKept
<1>10. /\ \A f \in Exec : active'[f] \in {active[f], NoTask}
       /\ \A f \in Exec : Queued(f)' => Queued(f)
  BY <1>1 DEF Queued
<1>11. QED
  BY <1>1, <1>5, <1>6, <1>7, <1>9, <1>10, UpFrame DEF RowKept

\* A cancel takes one queued object out and fails it.
LEMMA CancelQueuedStep ==
    ASSUME TypeInv, NEW e \in Exec, CancelQueued(e) PROVE TypeInv'
<1> DEFINE k == FirstOf(queue, e)
           o == queue[k]
<1>1. /\ Queued(e) /\ MarkCancelled(o) /\ queue' = RemoveAt(queue, k)
      /\ seg' = Seg("cancel", "", o) /\ mode = "up" /\ mode' = "up"
      /\ flags' = flags \union {e}
      /\ UNCHANGED <<lease, task, active, attempt, starts, acked, replays,
                     crashes>>
  BY DEF CancelQueued, CancelTurn, Turn, history
<1>2. k \in DOMAIN queue /\ ExecOf(o) = e
  BY <1>1, FirstOfFacts, Types
<1>3. o \in Obj
  BY <1>2, Types
<1>4. mem' \in [Obj -> ObjType] /\ RowKept
  BY <1>1, <1>2, <1>3, Types, MarkCancelledFacts, RowWrittenKept
<1>5. /\ queue' \in Seq(Obj)
      /\ \A f \in Exec : Queued(f)' => Queued(f)
  <2>1. /\ queue' \in Seq(Obj)
        /\ \A i \in DOMAIN queue' : \E j \in DOMAIN queue : queue'[i] = queue[j]
    <3>1. queue \in Seq(Obj) /\ k \in DOMAIN queue /\ queue' = RemoveAt(queue, k)
      BY <1>1, <1>2, Types
    <3> HIDE DEF k
    <3>2. /\ RemoveAt(queue, k) \in Seq(Obj)
          /\ \A i \in DOMAIN RemoveAt(queue, k) :
                 \/ i \in DOMAIN queue /\ i < k /\ RemoveAt(queue, k)[i] = queue[i]
                 \/ i + 1 \in DOMAIN queue /\ i >= k
                    /\ RemoveAt(queue, k)[i] = queue[i + 1]
      BY <3>1, RemoveAtFacts
    <3>3. QED
      BY <3>1, <3>2
  <2>2. QED
    BY <2>1 DEF Queued
<1>6. /\ seg' \in SegType /\ seg'.op = "cancel" /\ seg'.at = ""
  <2>1. "cancel" \in Ops /\ "" \in Ats
    BY Literals
  <2> HIDE DEF o
  <2>2. /\ Seg("cancel", "", o) \in SegType
        /\ Seg("cancel", "", o).op = "cancel" /\ Seg("cancel", "", o).at = ""
    BY <1>3, <2>1, Literals DEF Seg, SegType
  <2>3. QED
    BY <1>1, <2>2 DEF o
<1>7. SegOK' /\ seg'.op # "recover"
  BY <1>6 DEF SegOK
<1>8. TypeOK'
  BY <1>1, <1>4, <1>5, <1>6 DEF TypeInv, TypeOK, RowKept
<1>9. QED
  BY <1>1, <1>4, <1>5, <1>7, <1>8, QuietFrame

\* task.cancel() keeps every slot in use in use, with its object.
LEMMA CancelTaskKeeps ==
    ASSUME TypeInv, NEW t \in Task \union {NoTask}, CancelTask(t)
    PROVE  /\ task' \in [Task -> TaskType]
           /\ \A u \in Task : /\ task'[u].pc = "none" <=> task[u].pc = "none"
                              /\ task'[u].obj = task[u].obj
                              /\ task[u] = FreeTask => task'[u] = FreeTask
<1>1. /\ task' \in [Task -> TaskType]
      /\ \A u \in Task : /\ task'[u].pc = task[u].pc
                         /\ task'[u].obj = task[u].obj
                         /\ task'[u] # task[u] => u = t /\ Unfinished(t)
  BY Types, CancelTaskFacts
<1>2. \A u \in Task : Unfinished(u) => task[u] # FreeTask
  BY DEF Unfinished, FreeTask
<1>3. QED
  BY <1>1, <1>2

\* A cancel fails the object of the tracked task and marks the task.
LEMMA CancelActiveStep ==
    ASSUME TypeInv, NEW e \in Exec, CancelActive(e) PROVE TypeInv'
<1> DEFINE t == active[e]
           o == task[t].obj
<1>1. /\ mode = "up" /\ mode' = "up" /\ seg' = Idle /\ CancelTask(t)
      /\ flags' = flags \union {e}
      /\ \/ t # NoTask /\ MarkCancelled(o)
         \/ UNCHANGED <<mem, row>>
      /\ UNCHANGED <<lease, queue, active, attempt, starts, replays, crashes>>
  BY DEF CancelActive, CancelTurn, Turn
<1>2. acked' \in SUBSET Exec
  BY DEF CancelActive, TypeInv, TypeOK
<1>3. t \in Task \union {NoTask}
  BY Types
<1>4. mem' \in [Obj -> ObjType] /\ RowKept
  <2>1. CASE t # NoTask /\ MarkCancelled(o)
    <3>1. t \in Task /\ task[t].pc # "none"
      BY <1>3, <2>1 DEF TypeInv, ActiveOK
    <3>2. o \in Obj /\ ExecOf(o) \in Exec
      BY <3>1, TaskObj
    <3>3. QED
      BY <2>1, <3>2, Types, MarkCancelledFacts, RowWrittenKept
  <2>2. CASE UNCHANGED <<mem, row>>
    BY <2>2, Types DEF RowKept
  <2>3. QED
    BY <1>1, <2>1, <2>2
<1>5. /\ task' \in [Task -> TaskType]
      /\ \A u \in Task : /\ task'[u].pc = "none" <=> task[u].pc = "none"
                         /\ task'[u].obj = task[u].obj
                         /\ task[u] = FreeTask => task'[u] = FreeTask
  BY <1>1, <1>3, CancelTaskKeeps
<1>6. SegOK' /\ seg' \in SegType /\ seg'.op # "recover"
  BY <1>1, IdleSeg
<1>7. TypeOK'
  BY <1>1, <1>2, <1>4, <1>5, <1>6 DEF TypeInv, TypeOK, RowKept
<1>8. /\ \A f \in Exec : active'[f] \in {active[f], NoTask}
      /\ \A f \in Exec : Queued(f)' => Queued(f)
  BY <1>1 DEF Queued
<1>9. QED
  BY <1>1, <1>4, <1>5, <1>6, <1>7, <1>8, UpFrame DEF RowKept

\* Time passing ages leases and attempts only.
LEMMA LeaseAgesStep ==
    ASSUME TypeInv, NEW e \in Exec, LeaseAges(e) PROVE TypeInv'
<1>1. /\ mode = "up" /\ mode' = "up" /\ seg' = Idle
      /\ lease' = [lease EXCEPT ![e] = "stale"]
      /\ attempt' = [attempt EXCEPT ![e] = "stale"] \/ attempt' = attempt
      /\ UNCHANGED <<row, mem, queue, task, active, flags, starts, acked,
                     replays, crashes>>
  BY DEF LeaseAges, memory
<1>2. SegOK' /\ seg' \in SegType /\ seg'.op # "recover"
  BY <1>1, IdleSeg
<1>3. lease' \in [Exec -> Ages] /\ attempt' \in [Exec -> Ages]
  BY <1>1, Literals DEF TypeInv, TypeOK
<1>4. TypeOK'
  BY <1>1, <1>2, <1>3 DEF TypeInv, TypeOK
<1>5. RowKept /\ \A f \in Exec : Queued(f)' => Queued(f)
  BY <1>1, Types DEF RowKept, Queued
<1>6. QED
  BY <1>1, <1>2, <1>4, <1>5, QuietFrame

\* A reclaim fails the row, untracks the task and begins a retry.
LEMMA ReclaimStep ==
    ASSUME TypeInv, NEW e \in Exec, Reclaim(e) PROVE TypeInv'
<1> DEFINE t == active[e]
           o == IF t # NoTask THEN task[t].obj ELSE FreshObj(e)
           retry == IF t # NoTask THEN mem[o].retry ELSE row[e].retry
           dead  == retry >= MaxRetries
<1>1. /\ mode = "up" /\ mode' = "up" /\ seg = Idle
      /\ t # NoTask \/ HasFreshObj(e)
      /\ active' = [active EXCEPT ![e] = NoTask]
      /\ CancelTask(t)
      /\ UNCHANGED <<lease, queue, flags, attempt, starts, acked, replays,
                     crashes>>
  BY DEF Reclaim, Turn, history
<1>2. \/ /\ mem' = [mem EXCEPT ![o] = [status |-> "failed", retry |-> retry,
                                       error |-> "timeout"]]
         /\ Failed(e, retry, "timeout", dead)
         /\ seg' = IF dead THEN Idle ELSE Seg("reclaim", "retrying", o)
      \/ UNCHANGED <<mem, row, seg>>
  BY DEF Reclaim
<1>3. t \in Task \union {NoTask}
  BY Types
<1>4. o \in Obj /\ retry \in 0..MaxRetries /\ MaxRetries \in Nat
  <2>1. CASE t # NoTask
    <3>1. t \in Task /\ task[t].pc # "none"
      BY <1>3, <2>1 DEF TypeInv, ActiveOK
    <3>2. QED
      BY <2>1, <3>1, TaskObj, SchedulerAssumption
  <2>2. CASE t = NoTask
    <3>1. row[e].retry \in 0..MaxRetries
      BY Types DEF RowType
    <3>2. QED
      BY <1>1, <2>2, <3>1, FreshObjFacts, SchedulerAssumption
  <2>3. QED
    BY <2>1, <2>2
<1>5. /\ task' \in [Task -> TaskType]
      /\ \A u \in Task : /\ task'[u].pc = "none" <=> task[u].pc = "none"
                         /\ task'[u].obj = task[u].obj
                         /\ task[u] = FreeTask => task'[u] = FreeTask
  BY <1>1, <1>3, CancelTaskKeeps
<1>6. /\ active' \in [Exec -> Task \union {NoTask}]
      /\ \A f \in Exec : active'[f] \in {active[f], NoTask}
  BY <1>1, Types
<1>7. /\ mem' \in [Obj -> ObjType] /\ RowKept
      /\ SegOK' /\ seg' \in SegType /\ seg'.op # "recover"
  <2>1. CASE UNCHANGED <<mem, row, seg>>
    BY <1>1, <2>1, Types, IdleSeg DEF RowKept
  <2>2. CASE /\ mem' = [mem EXCEPT ![o] = [status |-> "failed", retry |-> retry,
                                           error |-> "timeout"]]
             /\ Failed(e, retry, "timeout", dead)
             /\ seg' = IF dead THEN Idle ELSE Seg("reclaim", "retrying", o)
    <3> HIDE DEF o, retry
    <3>1. /\ mem' \in [Obj -> ObjType] /\ mem'[o].retry = retry
      BY <1>4, <2>2, Types, Literals DEF ObjType
    <3>2. "timeout" \in Errors
      BY Literals
    <3>8. dead \in BOOLEAN
      OBVIOUS
    <3> HIDE DEF dead
    <3>3. RowWritten(e)
      BY <1>4, <2>2, <3>2, <3>8, Types, FailedFacts
    <3>4. RowKept
      BY <3>3, RowWrittenKept
    <3>5. CASE dead
      BY <2>2, <3>1, <3>4, <3>5, IdleSeg
    <3>6. CASE ~dead
      <4>1. "reclaim" \in Ops /\ "retrying" \in Ats
        BY Literals
      <4>2. /\ seg' \in SegType /\ seg'.op = "reclaim" /\ seg'.at = "retrying"
            /\ seg'.obj = o
        BY <1>4, <2>2, <3>6, <4>1, SegFacts
      <4>3. retry < MaxRetries
        BY <1>4, <3>6 DEF dead
      <4>4. SegOK'
        BY <1>4, <3>1, <4>2, <4>3 DEF SegOK
      <4>5. QED
        BY <3>1, <3>4, <4>2, <4>4
    <3>7. QED
      BY <3>5, <3>6
  <2>3. QED
    BY <1>2, <2>1, <2>2
<1>8. TypeOK'
  BY <1>1, <1>5, <1>6, <1>7 DEF TypeInv, TypeOK, RowKept
<1>9. \A f \in Exec : Queued(f)' => Queued(f)
  BY <1>1 DEF Queued
<1>10. QED
  BY <1>1, <1>5, <1>6, <1>7, <1>8, <1>9, UpFrame DEF RowKept

\* A reclaimed row with retries left is charged one of them.
LEMMA ReclaimRetryingStep == ASSUME TypeInv, ReclaimRetrying PROVE TypeInv'
<1> DEFINE o == seg.obj
<1>1. /\ seg.op = "reclaim" /\ seg.at = "retrying" /\ mode' = mode
      /\ mem' = [mem EXCEPT ![o].status = "retrying", ![o].retry = @ + 1]
      /\ Retried(ExecOf(o), "retrying", mem[o].retry + 1, "timeout")
      /\ seg' = Seg("reclaim", "pending", o)
      /\ UNCHANGED <<lease, queue, task, active, flags, attempt, starts, acked,
                     replays, crashes>>
  BY DEF ReclaimRetrying, history
<1>2. mode = "up"
  BY <1>1, UpSeg
<1>3. o \in Obj /\ mem[o].retry < MaxRetries /\ ExecOf(o) \in Exec
  BY <1>1, Ids DEF TypeInv, SegOK
<1>4. mem[o].retry + 1 \in 0..MaxRetries
  BY <1>3, Types, SchedulerAssumption DEF ObjType
<1>5. mem' \in [Obj -> ObjType]
  BY <1>1, <1>3, <1>4, Types, Literals DEF ObjType
<1>6. "retrying" \in Status /\ "timeout" \in Errors
  BY Literals
<1>7. RowKept
  BY <1>1, <1>3, <1>4, <1>6, Types, RetriedFacts, RowWrittenKept
<1>8. "reclaim" \in Ops /\ "pending" \in Ats
  BY Literals
<1>9. /\ seg' \in SegType /\ seg'.op = "reclaim" /\ seg'.at = "pending"
      /\ seg'.obj = o
  BY <1>1, <1>3, <1>8, SegFacts
<1>10. SegOK' /\ seg'.op # "recover"
  BY <1>3, <1>9 DEF SegOK
<1>11. TypeOK'
  BY <1>1, <1>5, <1>7, <1>9 DEF TypeInv, TypeOK, RowKept
<1>12. \A f \in Exec : Queued(f)' => Queued(f)
  BY <1>1 DEF Queued
<1>13. QED
  BY <1>1, <1>2, <1>7, <1>10, <1>11, <1>12, QuietFrame

\* A replay brings a dead letter back as retrying.
LEMMA ReplayStep ==
    ASSUME TypeInv, NEW e \in Exec, Replay(e) PROVE TypeInv'
<1> DEFINE o == FreshObj(e)
<1>1. /\ mode = "up" /\ mode' = "up" /\ HasFreshObj(e)
      /\ mem' = [mem EXCEPT ![o] = [status |-> "retrying", retry |-> row[e].retry,
                                    error |-> ""]]
      /\ Retried(e, "retrying", row[e].retry, "replay")
      /\ replays[e] < MaxReplays
      /\ replays' = [replays EXCEPT ![e] = @ + 1]
      /\ seg' = Seg("replay", "pending", o)
      /\ UNCHANGED <<lease, queue, task, active, flags, attempt, starts, acked,
                     crashes>>
  BY DEF Replay, Turn
<1>2. o \in Obj
  BY <1>1, FreshObjFacts
<1>3. row[e].retry \in 0..MaxRetries
  BY Types DEF RowType
<1> HIDE DEF o
<1>4. mem' \in [Obj -> ObjType]
  BY <1>1, <1>2, <1>3, Types, Literals DEF ObjType
<1>5. "retrying" \in Status /\ "replay" \in Errors
  BY Literals
<1>6. RowKept
  BY <1>1, <1>3, <1>5, Types, RetriedFacts, RowWrittenKept
<1>7. "replay" \in Ops /\ "pending" \in Ats
  BY Literals
<1>8. /\ seg' \in SegType /\ seg'.op = "replay" /\ seg'.at = "pending"
      /\ seg'.obj = o
  <2>1. seg' = Seg("replay", "pending", o)
    BY <1>1 DEF o
  <2>2. QED
    BY <1>2, <1>7, <2>1, SegFacts
<1>9. SegOK' /\ seg'.op # "recover"
  BY <1>2, <1>8 DEF SegOK
<1>10. replays' \in [Exec -> 0..MaxReplays]
  <2>1. /\ replays \in [Exec -> 0..MaxReplays] /\ MaxReplays \in Nat
        /\ replays[e] < MaxReplays /\ replays' = [replays EXCEPT ![e] = @ + 1]
    BY <1>1, SchedulerAssumption DEF TypeInv, TypeOK
  <2>2. QED
    BY <2>1
<1>11. TypeOK'
  BY <1>1, <1>4, <1>6, <1>8, <1>10 DEF TypeInv, TypeOK, RowKept
<1>12. \A f \in Exec : Queued(f)' => Queued(f)
  BY <1>1 DEF Queued
<1>13. QED
  BY <1>1, <1>6, <1>9, <1>11, <1>12, QuietFrame

----------------------------------------------------------------------------
(* Starting and ending tasks.                                              *)

\* The scheduling loop gives the object at the head of the queue to a task.
LEMMA StartNextStep == ASSUME TypeInv, StartNext PROVE TypeInv'
<1> DEFINE o == Head(queue)
           e == ExecOf(o)
<1>1. PICK s \in Slot :
          /\ task[<<e, s>>].pc = "none"
          /\ task' = [task EXCEPT ![<<e, s>>] =
                         [pc |-> "created", obj |-> o, cancelled |-> FALSE]]
          /\ active' = [active EXCEPT ![e] = <<e, s>>]
  BY DEF StartNext
<1>2. /\ mode = "up" /\ mode' = "up" /\ seg' = Idle /\ queue # <<>>
      /\ queue' = Tail(queue)
      /\ UNCHANGED <<row, lease, mem, flags, attempt, starts, acked, replays,
                     crashes>>
  BY DEF StartNext, Turn, durable, history
<1>3. /\ o \in Obj /\ e \in Exec /\ Queued(e)
      /\ queue' \in Seq(Obj)
      /\ \A f \in Exec : Queued(f)' => Queued(f)
  <2>1. o \in Obj /\ queue' \in Seq(Obj) /\ 1 \in DOMAIN queue /\ o = queue[1]
    BY <1>2, Types
  <2>2. \A i \in DOMAIN queue' : i + 1 \in DOMAIN queue /\ queue'[i] = queue[i + 1]
    BY <1>2, Types
  <2>3. QED
    BY <2>1, <2>2, Ids DEF Queued
<1> DEFINE t == <<e, s>>
           r == [pc |-> "created", obj |-> o, cancelled |-> FALSE]
<1>4. t \in Task /\ ExecOf(t) = e
  BY <1>3 DEF Task, ExecOf
<1>5. r \in TaskType /\ r.pc = "created" /\ r.obj = o
  BY <1>3, Literals DEF TaskType
<1> HIDE DEF t, r, o
<1>6. /\ task' \in [Task -> TaskType] /\ task'[t] = r
      /\ \A u \in Task \ {t} : task'[u] = task[u]
  BY <1>1, <1>4, <1>5, Types DEF t, r
<1>7. /\ active' \in [Exec -> Task \union {NoTask}] /\ active'[e] = t
      /\ \A f \in Exec \ {e} : active'[f] = active[f]
  BY <1>1, <1>3, <1>4, Types DEF t
<1>8. TaskOK'
  BY <1>3, <1>4, <1>5, <1>6 DEF TypeInv, TaskOK
<1>9. ActiveOK'
  BY <1>4, <1>5, <1>6, <1>7 DEF TypeInv, TypeOK, ActiveOK
<1>10. Unborn'
  <2>1. row[e].status # "absent"
    BY <1>3 DEF TypeInv, Unborn
  <2>2. QED
    BY <1>2, <1>3, <1>4, <1>6, <2>1 DEF TypeInv, Unborn
<1>11. SegOK' /\ seg' \in SegType /\ seg'.op # "recover"
  BY <1>2, IdleSeg
<1>12. TypeOK'
  BY <1>2, <1>3, <1>6, <1>7, <1>11 DEF TypeInv, TypeOK
<1>13. BootOK'
  BY <1>2, <1>11 DEF BootOK
<1>14. QED
  BY <1>8, <1>9, <1>10, <1>11, <1>12, <1>13 DEF TypeInv

\* The done callback frees the slot, and nothing maps to it afterwards.
LEMMA ForgetStep == ASSUME TypeInv, NEW t \in Task, Forget(t) PROVE TypeInv'
<1> DEFINE e == ExecOf(t)
<1>1. /\ mode = "up" /\ mode' = "up" /\ seg' = Idle /\ task[t].pc = "done"
      /\ active' = [active EXCEPT ![e] = NoTask]
      /\ task' = [task EXCEPT ![t] = FreeTask]
      /\ UNCHANGED <<row, lease, mem, queue, flags, attempt, starts, acked,
                     replays, crashes>>
  BY DEF Forget, Turn, durable, history
<1>2. e \in Exec
  BY Ids
<1>3. FreeTask \in TaskType /\ FreeTask.pc = "none"
  BY Literals DEF FreeTask, TaskType
<1>4. /\ task' \in [Task -> TaskType] /\ task'[t] = FreeTask
      /\ \A u \in Task \ {t} : task'[u] = task[u]
  BY <1>1, <1>3, Types
<1>5. /\ active' \in [Exec -> Task \union {NoTask}] /\ active'[e] = NoTask
      /\ \A f \in Exec \ {e} : active'[f] = active[f]
  BY <1>1, <1>2, Types
<1>6. TaskOK'
  BY <1>3, <1>4 DEF TypeInv, TaskOK
<1>7. ActiveOK'
  BY <1>4, <1>5 DEF TypeInv, TypeOK, ActiveOK
<1>8. Unborn'
  <2>1. \A f \in Exec : Queued(f)' <=> Queued(f)
    BY <1>1 DEF Queued
  <2>2. QED
    BY <1>1, <1>4, <2>1 DEF TypeInv, Unborn
<1>9. SegOK' /\ seg' \in SegType /\ seg'.op # "recover"
  BY <1>1, IdleSeg
<1>10. TypeOK'
  BY <1>1, <1>4, <1>5, <1>9 DEF TypeInv, TypeOK
<1>11. BootOK'
  BY <1>1, <1>9 DEF BootOK
<1>12. QED
  BY <1>6, <1>7, <1>8, <1>9, <1>10, <1>11 DEF TypeInv
----------------------------------------------------------------------------
(* Dying and coming back.                                                  *)

\* While the process comes back a step starts no task, so only types, the
\* callback in progress and the rows behind the queue need a look.
LEMMA BootFrame ==
    ASSUME TypeInv, TypeOK', SegOK', mode = "boot",
           mode' \in {"boot", "up"}, mode' = "up" => seg' = Idle,
           seg'.op \in {"idle", "recover"},
           UNCHANGED <<task, active>>,
           \A e \in Exec : row'[e].status = "absent" =>
               row[e].status = "absent" /\ (Queued(e)' => Queued(e)),
           \A i \in DOMAIN queue' :
               row'[ExecOf(queue'[i])].status \in {"pending", "retrying"}
    PROVE  TypeInv'
<1>1. TaskOK' /\ ActiveOK'
  BY DEF TypeInv, TaskOK, ActiveOK
<1>2. Unborn'
  BY DEF TypeInv, Unborn
<1>3. BootOK'
  BY IdleFields DEF TypeInv, BootOK
<1>4. QED
  BY <1>1, <1>2, <1>3 DEF TypeInv

\* The empty queue has no entries.
LEMMA NoEntries == <<>> \in Seq(Obj) /\ DOMAIN <<>> = {}
<1>1. <<>> \in Seq(Obj) /\ Len(<<>>) = 0
  BY EmptySeq
<1>2. QED
  BY <1>1

\* Whatever a death cuts off, memory is empty and consistent afterwards.
LEMMA CrashStep == ASSUME TypeInv, Crash PROVE TypeInv'
<1>1. /\ crashes < MaxCrashes /\ crashes' = crashes + 1 /\ mode' = "down"
      /\ mem' = [o \in Obj |-> [status |-> "pending", retry |-> 0, error |-> ""]]
      /\ queue' = <<>> /\ task' = [t \in Task |-> FreeTask]
      /\ active' = [e \in Exec |-> NoTask] /\ flags' = {} /\ seg' = Idle
      /\ UNCHANGED <<row, lease, attempt, starts, acked, replays>>
  BY DEF Crash, durable
<1>2. mem' \in [Obj -> ObjType]
  <2>1. [status |-> "pending", retry |-> 0, error |-> ""] \in ObjType
    BY Literals DEF ObjType
  <2>2. QED
    BY <1>1, <2>1
<1>3. FreeTask \in TaskType
  BY Literals DEF FreeTask, TaskType
<1>4. crashes' \in 0..MaxCrashes
  <2>1. crashes \in 0..MaxCrashes /\ MaxCrashes \in Nat
    BY SchedulerAssumption DEF TypeInv, TypeOK
  <2>2. crashes < MaxCrashes /\ crashes' = crashes + 1
    BY <1>1
  <2>3. QED
    BY <2>1, <2>2
<1>5. SegOK' /\ seg' \in SegType /\ seg'.op # "recover"
  BY <1>1, IdleSeg
<1>6. TypeOK'
  <2>1. queue' \in Seq(Obj) /\ flags' \in SUBSET Exec
    BY <1>1, NoEntries
  <2>2. /\ task' \in [Task -> TaskType]
        /\ active' \in [Exec -> Task \union {NoTask}]
    BY <1>1, <1>3
  <2>3. mode' \in {"up", "down", "boot"}
    BY <1>1
  <2>4. /\ row' \in [Exec -> RowType] /\ lease' \in [Exec -> Ages]
        /\ attempt' \in [Exec -> Ages] /\ starts' \in [Exec -> Nat]
        /\ acked' \in SUBSET Exec /\ replays' \in [Exec -> 0..MaxReplays]
    BY <1>1 DEF TypeInv, TypeOK
  <2>5. QED
    BY <1>2, <1>4, <1>5, <2>1, <2>2, <2>3, <2>4 DEF TypeOK
<1>7. TaskOK' /\ ActiveOK'
  BY <1>1 DEF TaskOK, ActiveOK, FreeTask
<1>8. Unborn'
  <2>1. \A e \in Exec : ~Queued(e)'
    BY <1>1, NoEntries DEF Queued
  <2>2. \A t \in Task : task'[t] = FreeTask
    BY <1>1
  <2>3. QED
    BY <2>1, <2>2 DEF Unborn
<1>9. BootOK'
  BY <1>1, <1>5 DEF BootOK
<1>10. QED
  BY <1>5, <1>6, <1>7, <1>8, <1>9 DEF TypeInv

\* A restart begins with the memory a fresh process has.
LEMMA BootStep == ASSUME TypeInv, Boot PROVE TypeInv'
<1>1. /\ mode = "down" /\ mode' = "boot"
      /\ UNCHANGED <<row, lease, mem, queue, task, active, flags, seg, attempt,
                     starts, acked, replays, crashes>>
  BY DEF Boot, durable, memory, history
<1>2. seg = Idle /\ queue = <<>> /\ \A t \in Task : task[t] = FreeTask
  BY <1>1 DEF TypeInv, BootOK
<1>3. SegOK' /\ seg' \in SegType /\ seg'.op # "recover"
  BY <1>1, <1>2, IdleSeg
<1>4. TypeOK'
  BY <1>1, <1>3 DEF TypeInv, TypeOK
<1>5. TaskOK' /\ ActiveOK'
  BY <1>1 DEF TypeInv, TaskOK, ActiveOK
<1>6. Unborn'
  BY <1>1 DEF TypeInv, Unborn, Queued
<1>7. BootOK'
  <2>1. /\ mode' = "boot" /\ seg'.op = "idle" /\ DOMAIN queue' = {}
        /\ \A t \in Task : task'[t] = FreeTask
    BY <1>1, <1>2, IdleFields, NoEntries
  <2>2. QED
    BY <2>1 DEF BootOK
<1>8. QED
  BY <1>3, <1>4, <1>5, <1>6, <1>7 DEF TypeInv

\* While no task is alive, an execution that is not queued has a free cell.
LEMMA BootFresh ==
    ASSUME TypeInv, mode = "boot", NEW e \in Exec, ~Queued(e)
    PROVE  FreshObj(e) \in Obj /\ ExecOf(FreshObj(e)) = e
<1>1. \A t \in Task : task[t] = FreeTask
  BY DEF TypeInv, BootOK
<1>2. QED
  BY <1>1, UnreferencedHasFresh, FreshObjFacts DEF TypeInv

\* A running row goes back to retrying, or dies with its budget spent.
LEMMA RecoverRunningStep ==
    ASSUME TypeInv, NEW e \in Exec, RecoverRunning(e) PROVE TypeInv'
<1> DEFINE o == FreshObj(e)
<1>1. /\ mode = "boot" /\ mode' = "boot" /\ seg = Idle /\ row[e].status = "running"
      /\ UNCHANGED <<lease, queue, task, active, flags, attempt, starts, acked,
                     replays, crashes>>
  BY DEF RecoverRunning, IsRunning, history
<1>2. \/ /\ row[e].retry < MaxRetries
         /\ mem' = [mem EXCEPT ![o] = [status |-> "retrying",
                                       retry  |-> row[e].retry + 1,
                                       error  |-> "interrupted"]]
         /\ Retried(e, "retrying", row[e].retry + 1, "interrupted")
         /\ seg' = Seg("recover", "pending", o)
      \/ /\ Failed(e, row[e].retry, "interrupted", TRUE)
         /\ UNCHANGED <<mem, seg>>
  BY DEF RecoverRunning, Charged
<1>3. ~Queued(e)
  BY <1>1 DEF TypeInv, BootOK, Queued
<1>4. o \in Obj /\ ExecOf(o) = e
  BY <1>1, <1>3, BootFresh
<1>5. row[e].retry \in 0..MaxRetries /\ MaxRetries \in Nat
  BY Types, SchedulerAssumption DEF RowType
<1>6. "retrying" \in Status /\ "interrupted" \in Errors
  BY Literals
<1>7. /\ mem' \in [Obj -> ObjType] /\ RowWritten(e)
      /\ SegOK' /\ seg' \in SegType /\ seg'.op \in {"idle", "recover"}
  <2>1. CASE Failed(e, row[e].retry, "interrupted", TRUE) /\ UNCHANGED <<mem, seg>>
    <3>1. RowWritten(e)
      BY <1>5, <1>6, <2>1, Types, FailedFacts
    <3>2. SegOK' /\ seg' \in SegType /\ seg'.op = "idle"
      BY <1>1, <2>1, IdleSeg, IdleFields
    <3>3. QED
      BY <2>1, <3>1, <3>2, Types
  <2>2. CASE /\ row[e].retry < MaxRetries
             /\ mem' = [mem EXCEPT ![o] = [status |-> "retrying",
                                           retry  |-> row[e].retry + 1,
                                           error  |-> "interrupted"]]
             /\ Retried(e, "retrying", row[e].retry + 1, "interrupted")
             /\ seg' = Seg("recover", "pending", o)
    <3> HIDE DEF o
    <3>1. row[e].retry + 1 \in 0..MaxRetries
      BY <1>5, <2>2
    <3>2. mem' \in [Obj -> ObjType]
      BY <1>4, <1>6, <2>2, <3>1, Types DEF ObjType
    <3>3. RowWritten(e)
      BY <1>6, <2>2, <3>1, Types, RetriedFacts
    <3>4. "recover" \in Ops /\ "pending" \in Ats
      BY Literals
    <3>5. /\ seg' \in SegType /\ seg'.op = "recover" /\ seg'.at = "pending"
          /\ seg'.obj = o
      BY <1>4, <2>2, <3>4, SegFacts
    <3>6. SegOK'
      BY <1>4, <3>5 DEF SegOK
    <3>7. QED
      BY <3>2, <3>3, <3>5, <3>6
  <2>3. QED
    BY <1>2, <2>1, <2>2
<1>8. TypeOK'
  BY <1>1, <1>7 DEF TypeInv, TypeOK, RowWritten
<1>9. RowKept
  BY <1>7, RowWrittenKept
<1>10. \A i \in DOMAIN queue' :
           row'[ExecOf(queue'[i])].status \in {"pending", "retrying"}
  <2>1. \A i \in DOMAIN queue : ExecOf(queue[i]) \in Exec \ {e}
    BY <1>3, Types, Ids DEF Queued
  <2>2. QED
    BY <1>1, <1>7, <2>1 DEF TypeInv, BootOK, RowWritten
<1>11. \A f \in Exec : Queued(f)' => Queued(f)
  BY <1>1 DEF Queued
<1>12. QED
  BY <1>1, <1>7, <1>8, <1>9, <1>10, <1>11, BootFrame DEF RowKept

\* A waiting row gets its queue entry back.
LEMMA RecoverWaitingStep ==
    ASSUME TypeInv, NEW e \in Exec, RecoverWaiting(e) PROVE TypeInv'
<1> DEFINE o == FreshObj(e)
<1>1. /\ mode = "boot" /\ mode' = "boot" /\ seg = Idle /\ seg' = seg
      /\ row[e].status \in {"pending", "retrying"} /\ ~Queued(e)
      /\ mem' = [mem EXCEPT ![o] = FromRow(e)]
      /\ queue' = Append(queue, o)
      /\ UNCHANGED <<row, lease, task, active, flags, attempt, starts, acked,
                     replays, crashes>>
  BY DEF RecoverWaiting, IsWaiting, durable, history
<1>2. o \in Obj /\ ExecOf(o) = e
  BY <1>1, BootFresh
<1>3. FromRow(e) \in ObjType
  <2>1. row[e].retry \in 0..MaxRetries /\ row[e].error \in Errors
    BY Types DEF RowType
  <2>2. row[e].status \in Status
    BY <1>1, Literals
  <2>3. QED
    BY <2>1, <2>2 DEF FromRow, ObjType
<1> HIDE DEF o
<1>4. mem' \in [Obj -> ObjType]
  BY <1>1, <1>2, <1>3, Types
<1>5. /\ queue' \in Seq(Obj)
      /\ \A i \in DOMAIN queue' :
             \/ i \in DOMAIN queue /\ queue'[i] = queue[i]
             \/ queue'[i] = o
      /\ \A f \in Exec : Queued(f)' <=> Queued(f) \/ f = e
  BY <1>1, <1>2, Types, AppendQueued
<1>6. SegOK' /\ seg' \in SegType /\ seg'.op = "idle"
  BY <1>1, IdleSeg, IdleFields
<1>7. TypeOK'
  BY <1>1, <1>4, <1>5, <1>6 DEF TypeInv, TypeOK
<1>8. \A f \in Exec : row'[f].status = "absent" =>
          row[f].status = "absent" /\ (Queued(f)' => Queued(f))
  BY <1>1, <1>5
<1>9. \A i \in DOMAIN queue' :
          row'[ExecOf(queue'[i])].status \in {"pending", "retrying"}
  BY <1>1, <1>2, <1>5 DEF TypeInv, BootOK
<1>10. QED
  BY <1>1, <1>6, <1>7, <1>8, <1>9, BootFrame

\* The scan over, the loop and the tasks may run.
LEMMA RecoveredStep == ASSUME TypeInv, Recovered PROVE TypeInv'
<1>1. /\ mode = "boot" /\ mode' = "up" /\ seg = Idle
      /\ UNCHANGED <<row, lease, mem, queue, task, active, flags, seg, attempt,
                     starts, acked, replays, crashes>>
  BY DEF Recovered, durable, memory, history
<1>2. SegOK' /\ seg' \in SegType /\ seg'.op = "idle"
  BY <1>1, IdleSeg, IdleFields
<1>3. TypeOK'
  BY <1>1 DEF TypeInv, TypeOK
<1>4. \A e \in Exec : Queued(e)' <=> Queued(e)
  BY <1>1 DEF Queued
<1>5. \A i \in DOMAIN queue' :
          row'[ExecOf(queue'[i])].status \in {"pending", "retrying"}
  BY <1>1 DEF TypeInv, BootOK
<1>6. QED
  BY <1>1, <1>2, <1>3, <1>4, <1>5, BootFrame
----------------------------------------------------------------------------
(* The theorems.                                                           *)

\* A fresh process with an empty database satisfies the invariant.
LEMMA TypeInit == ASSUME Init PROVE TypeInv
<1>1. /\ row = [e \in Exec |-> [status |-> "absent", retry |-> 0,
                                error |-> "", dead |-> FALSE]]
      /\ lease = [e \in Exec |-> "none"]
      /\ mem = [o \in Obj |-> [status |-> "pending", retry |-> 0, error |-> ""]]
  BY DEF Init
<1>2. /\ queue = <<>> /\ flags = {} /\ seg = Idle /\ mode = "up" /\ acked = {}
      /\ task = [t \in Task |-> FreeTask] /\ active = [e \in Exec |-> NoTask]
  BY DEF Init
<1>3. /\ attempt = [e \in Exec |-> "none"] /\ starts = [e \in Exec |-> 0]
      /\ replays = [e \in Exec |-> 0] /\ crashes = 0
  BY DEF Init
<1>4. /\ row \in [Exec -> RowType] /\ lease \in [Exec -> Ages]
      /\ mem \in [Obj -> ObjType]
  <2>1. [status |-> "absent", retry |-> 0, error |-> "", dead |-> FALSE] \in RowType
    BY Literals DEF RowType, RowStatus
  <2>2. [status |-> "pending", retry |-> 0, error |-> ""] \in ObjType
    BY Literals DEF ObjType
  <2>3. QED
    BY <1>1, <2>1, <2>2, Literals
<1>5. /\ FreeTask \in TaskType /\ Idle \in SegType
      /\ Idle.op = "idle" /\ Idle.at = ""
  BY Literals DEF FreeTask, TaskType, Idle, SegType
<1>6. /\ attempt \in [Exec -> Ages] /\ starts \in [Exec -> Nat]
      /\ replays \in [Exec -> 0..MaxReplays] /\ crashes \in 0..MaxCrashes
  <2>1. "none" \in Ages
    BY Literals
  <2>2. 0 \in 0..MaxReplays /\ 0 \in 0..MaxCrashes
    BY SchedulerAssumption
  <2>3. QED
    BY <1>3, <2>1, <2>2
<1>7. TypeOK
  <2>1. /\ queue \in Seq(Obj) /\ flags \in SUBSET Exec /\ acked \in SUBSET Exec
        /\ mode \in {"up", "down", "boot"}
    BY <1>2, NoEntries
  <2>2. /\ task \in [Task -> TaskType]
        /\ active \in [Exec -> Task \union {NoTask}] /\ seg \in SegType
    BY <1>2, <1>5
  <2>3. QED
    BY <1>4, <1>6, <2>1, <2>2 DEF TypeOK
<1>8. TaskOK /\ ActiveOK
  BY <1>2 DEF TaskOK, ActiveOK, FreeTask
<1>9. SegOK
  BY <1>2, <1>5 DEF SegOK
<1>10. Unborn
  BY <1>2, NoEntries DEF Unborn, Queued
<1>11. BootOK
  BY <1>2, <1>5 DEF BootOK
<1>12. QED
  BY <1>7, <1>8, <1>9, <1>10, <1>11 DEF TypeInv

\* A step that changes nothing preserves it.
LEMMA TypeStutter == ASSUME TypeInv, UNCHANGED vars PROVE TypeInv'
<1>1. UNCHANGED <<row, lease, mem, queue, task, active, flags, seg, mode,
                  attempt, starts, acked, replays, crashes>>
  BY DEF vars, durable, memory, history
<1>2. TypeOK' /\ TaskOK' /\ ActiveOK' /\ SegOK' /\ BootOK'
  BY <1>1 DEF TypeInv, TypeOK, TaskOK, ActiveOK, SegOK, BootOK
<1>3. Unborn'
  BY <1>1 DEF TypeInv, Unborn, Queued
<1>4. QED
  BY <1>2, <1>3 DEF TypeInv

\* Every action preserves the invariant.
LEMMA TypeStep == ASSUME TypeInv, [Next]_vars PROVE TypeInv'
<1>1. CASE SchedulerStep
  BY <1>1, EnqueueOneStep, RejectRequestStep, RejectFailStep, StartNextStep,
     SegPendingStep, DropStep, ReclaimRetryingStep, BootStep,
     RecoverRunningStep, RecoverWaitingStep, RecoveredStep DEF SchedulerStep
<1>2. ASSUME NEW t \in Task, TaskStep(t)
      PROVE  TypeInv'
  BY <1>2, BeginCancelledStep, BeginStep, NoHandlerStep, HandlerOkStep,
     HandlerFailsStep, CancelDeliveredStep, SleepOverStep, ForgetStep DEF TaskStep
<1>3. CASE Environment
  BY <1>3, EnqueueStep, CancelQueuedStep, CancelActiveStep, LeaseAgesStep,
     ReclaimStep, ReplayStep, CrashStep DEF Environment
<1>4. CASE UNCHANGED vars
  BY <1>4, TypeStutter
<1>5. QED
  BY <1>1, <1>2, <1>3, <1>4 DEF Next

\* The strengthened type invariant holds in every reachable state.
THEOREM TypeInvariant == Spec => []TypeInv
<1>1. Init => TypeInv
  BY TypeInit
<1>2. TypeInv /\ [Next]_vars => TypeInv'
  BY TypeStep
<1>3. QED
  BY <1>1, <1>2, PTL DEF Spec

\* Every variable keeps its type in every behaviour: no callback ever reads a
\* slot, an object or a row that is not there.
THEOREM TypeCorrect == Spec => []TypeOK
<1>1. TypeInv => TypeOK
  BY DEF TypeInv
<1>2. QED
  BY <1>1, TypeInvariant, PTL
----------------------------------------------------------------------------
(* The queue cap.                                                          *)

\* What one requeue may add to the queue, and when.
LEMMA RequeueGrows ==
    ASSUME queue \in Seq(Obj), NEW o \in Obj, NEW op, Requeue(o, op)
    PROVE  \/ queue' = queue
           \/ /\ Len(queue') = Len(queue) + 1
              /\ op \in {"sleep", "reclaim"} => Len(queue) < MaxPending
<1>1. CASE queue' = queue
  BY <1>1
<1>2. CASE queue' # queue
  <2>1. /\ op \in {"sleep", "reclaim"} => Room
        /\ queue' = Append(queue, o)
    BY <1>2 DEF Requeue
  <2>2. QED
    BY <2>1, AppendQueued DEF Room
<1>3. QED
  BY <1>1, <1>2

\* No step grows the queue past its cap, but for a restart or a replay.
LEMMA QueueCappedStep ==
    ASSUME TypeInv, [Next]_vars,
           Len(queue') > Len(queue), Len(queue') > MaxPending
    PROVE  mode = "boot" \/ seg.op = "replay"
<1>1. /\ queue \in Seq(Obj) /\ Len(queue) \in Nat /\ MaxPending \in Nat
      /\ queue' # queue
  BY Types, SchedulerAssumption
<1>2. ASSUME NEW e \in Exec, EnqueueOne(e)
      PROVE  FALSE
  <2>1. /\ seg.op = "enqueue" /\ queue' = Append(queue, FreshObj(e))
        /\ NextExec(e)
    BY <1>2 DEF EnqueueOne
  <2>2. seg.left \in 1..Fanout /\ Len(queue) + seg.left <= MaxPending
    BY <2>1 DEF TypeInv, SegOK
  <2>3. FreshObj(e) \in Obj
    BY <2>1, NextExecFresh, FreshObjFacts
  <2>4. Len(queue') = Len(queue) + 1
    BY <1>1, <2>1, <2>3, AppendQueued
  <2>5. QED
    BY <1>1, <2>2, <2>4, SchedulerAssumption
<1>3. CASE StartNext
  <2>1. queue' = Tail(queue) /\ queue # <<>>
    BY <1>3 DEF StartNext
  <2>2. QED
    BY <1>1, <2>1
<1>4. CASE SegPending
  <2>1. seg.at = "pending" /\ Requeue(seg.obj, seg.op)
    BY <1>4 DEF SegPending
  <2>2. seg.obj \in Obj /\ seg.op \in {"reclaim", "recover", "replay"}
    BY <2>1 DEF TypeInv, SegOK
  <2>3. /\ Len(queue') = Len(queue) + 1
        /\ seg.op \in {"sleep", "reclaim"} => Len(queue) < MaxPending
    BY <1>1, <2>1, <2>2, RequeueGrows
  <2>4. seg.op # "reclaim"
    BY <1>1, <2>3
  <2>5. QED
    BY <2>2, <2>4 DEF TypeInv, BootOK
<1>5. ASSUME NEW e \in Exec, RecoverWaiting(e)
      PROVE  mode = "boot"
  BY <1>5 DEF RecoverWaiting
<1>6. ASSUME NEW t \in Task, SleepOver(t)
      PROVE  FALSE
  <2>1. task[t].pc = "sleep" /\ Requeue(task[t].obj, "sleep")
    BY <1>6 DEF SleepOver
  <2>2. task[t].obj \in Obj
    BY <2>1, TaskObj
  <2>3. /\ Len(queue') = Len(queue) + 1
        /\ Len(queue) < MaxPending
    BY <1>1, <2>1, <2>2, RequeueGrows
  <2>4. QED
    BY <1>1, <2>3
<1>7. ASSUME NEW e \in Exec, CancelQueued(e)
      PROVE  FALSE
  <2> DEFINE k == FirstOf(queue, e)
  <2>1. Queued(e) /\ queue' = RemoveAt(queue, k)
    BY <1>7 DEF CancelQueued
  <2>2. k \in DOMAIN queue
    BY <1>1, <2>1, FirstOfFacts
  <2> HIDE DEF k
  <2>3. Len(queue') = Len(queue) - 1
    BY <1>1, <2>1, <2>2, RemoveAtFacts
  <2>4. QED
    BY <1>1, <2>3
<1>8. CASE Crash
  <2>1. queue' = <<>> /\ Len(<<>>) = 0
    BY <1>8, EmptySeq DEF Crash
  <2>2. QED
    BY <1>1, <2>1
<1>9. CASE \/ \E e \in Exec : RejectRequest(e) \/ RecoverRunning(e)
           \/ RejectFail \/ Drop \/ ReclaimRetrying \/ Boot \/ Recovered
  BY <1>1, <1>9 DEF RejectRequest, RecoverRunning, RejectFail, Drop,
     ReclaimRetrying, Boot, Recovered, memory
<1>10. ASSUME NEW t \in Task,
              \/ BeginCancelled(t) \/ Begin(t) \/ NoHandler(t) \/ HandlerOk(t)
              \/ HandlerFails(t) \/ CancelDelivered(t) \/ Forget(t)
       PROVE  FALSE
  BY <1>1, <1>10 DEF BeginCancelled, Begin, NoHandler, HandlerOk, HandlerFails,
     CancelDelivered, Forget
<1>11. CASE \/ \E n \in 1..Fanout : Enqueue(n)
            \/ \E e \in Exec : CancelActive(e) \/ LeaseAges(e) \/ Reclaim(e)
                               \/ Replay(e)
            \/ UNCHANGED vars
  BY <1>1, <1>11 DEF Enqueue, CancelActive, LeaseAges, Reclaim, Replay, vars, memory
<1>12. QED
  BY <1>2, <1>3, <1>4, <1>5, <1>6, <1>7, <1>8, <1>9, <1>10, <1>11
     DEF Next, SchedulerStep, TaskStep, Environment

\* Whatever the fan-out, the cap and the number of tasks, the queue outgrows
\* scheduler_max_pending only by a restart or an operator replay.
THEOREM QueueCapCorrect == Spec => QueueCapped
<1>1. TypeInv /\ [Next]_vars =>
          [Len(queue') > Len(queue) /\ Len(queue') > MaxPending
               => mode = "boot" \/ seg.op = "replay"]_queue
  BY QueueCappedStep
<1>2. QED
  BY <1>1, TypeInvariant, PTL DEF Spec, QueueCapped
----------------------------------------------------------------------------
(* The restart.                                                            *)

\* While the scan runs every execution has at most one queue entry, and the
\* one the scan is writing has none yet.
BootUnique ==
    mode = "boot" => /\ NoDuplicate
                     /\ seg.op = "recover" => ~Queued(ExecOf(seg.obj))

\* The only steps a process takes that is not up, before and after.
LEMMA BootSteps ==
    ASSUME TypeInv, [Next]_vars, mode # "up" \/ mode' # "up"
    PROVE  \/ Crash \/ Boot \/ Recovered \/ UNCHANGED vars
           \/ mode = "boot" /\ mode' = "boot" /\ SegPending
           \/ \E e \in Exec : RecoverRunning(e) \/ RecoverWaiting(e)
<1>1. ASSUME \/ \E e \in Exec : EnqueueOne(e) \/ RejectRequest(e)
             \/ RejectFail \/ StartNext
      PROVE  FALSE
  BY <1>1 DEF EnqueueOne, RejectRequest, RejectFail, StartNext, Turn, memory
<1>2. ASSUME Drop \/ ReclaimRetrying
      PROVE  FALSE
  <2>1. mode' = mode /\ seg.at \in {"drop", "retrying"}
    BY <1>2 DEF Drop, ReclaimRetrying
  <2>2. mode = "boot" /\ seg.op \in {"idle", "recover"}
    BY <2>1, IdleFields, Types DEF TypeInv, BootOK
  <2>3. QED
    BY <2>1, <2>2, IdleFields DEF TypeInv, SegOK
<1>3. ASSUME SegPending
      PROVE  mode = "boot" /\ mode' = "boot"
  <2>1. mode' = mode /\ seg.at = "pending"
    BY <1>3 DEF SegPending
  <2>2. QED
    BY <2>1, IdleFields, Types DEF TypeInv, BootOK
<1>4. ASSUME NEW t \in Task, TaskStep(t)
      PROVE  FALSE
  BY <1>4 DEF TaskStep, BeginCancelled, Begin, NoHandler, HandlerOk, HandlerFails,
     CancelDelivered, SleepOver, Forget, FirstStep, Turn
<1>5. ASSUME Environment, ~Crash
      PROVE  FALSE
  BY <1>5 DEF Environment, Enqueue, CancelQueued, CancelActive, LeaseAges,
     Reclaim, Replay, CancelTurn, Turn
<1>6. QED
  BY <1>1, <1>2, <1>3, <1>4, <1>5 DEF Next, SchedulerStep

\* Adding an entry of an execution that has none makes no duplicate.
LEMMA AppendUnique ==
    ASSUME queue \in Seq(Obj), NEW o \in Obj, queue' = Append(queue, o),
           NoDuplicate, ~Queued(ExecOf(o))
    PROVE  NoDuplicate'
<1>1. /\ Len(queue) \in Nat
      /\ \A i \in DOMAIN queue' :
             \/ i \in DOMAIN queue /\ queue'[i] = queue[i]
             \/ i = Len(queue) + 1 /\ queue'[i] = o
  BY AppendQueued
<1>2. QED
  BY <1>1 DEF NoDuplicate, Queued

\* The scan keeps the entries unique.
LEMMA BootUniqueStep ==
    ASSUME TypeInv, BootUnique, [Next]_vars
    PROVE  BootUnique'
<1>1. CASE mode = "up" /\ mode' = "up"
  BY <1>1 DEF BootUnique
<1>2. CASE Crash \/ Recovered
  BY <1>2 DEF Crash, Recovered, BootUnique
<1>3. CASE Boot
  <2>1. DOMAIN queue' = {} /\ seg'.op = "idle"
    BY <1>3, NoEntries, IdleFields DEF Boot, memory, TypeInv, BootOK
  <2>2. QED
    BY <2>1 DEF BootUnique, NoDuplicate
<1>4. CASE UNCHANGED vars
  BY <1>4 DEF BootUnique, NoDuplicate, Queued, vars, memory
<1>5. CASE mode = "boot" /\ SegPending
  <2> DEFINE o == seg.obj
  <2>1. seg.at = "pending" /\ Requeue(o, seg.op)
    BY <1>5 DEF SegPending
  <2>2. seg.op = "recover" /\ o \in Obj
    BY <1>5, <2>1 DEF TypeInv, SegOK, BootOK
  <2>3. seg' = Idle /\ queue' = Append(queue, o)
    BY <2>1, <2>2 DEF Requeue
  <2>4. NoDuplicate /\ ~Queued(ExecOf(o))
    BY <1>5, <2>2 DEF BootUnique
  <2> HIDE DEF o
  <2>5. NoDuplicate'
    BY <2>2, <2>3, <2>4, Types, AppendUnique
  <2>6. QED
    BY <2>3, <2>5, IdleFields DEF BootUnique
<1>6. ASSUME NEW e \in Exec, RecoverRunning(e)
      PROVE  BootUnique'
  <2> DEFINE o == FreshObj(e)
  <2>1. /\ mode = "boot" /\ seg = Idle /\ row[e].status = "running"
        /\ queue' = queue
        /\ seg' = Idle \/ seg' = Seg("recover", "pending", o)
    BY <1>6 DEF RecoverRunning, IsRunning
  <2>2. ~Queued(e) /\ NoDuplicate
    BY <2>1 DEF TypeInv, BootOK, BootUnique, Queued
  <2>3. ExecOf(o) = e
    BY <2>1, <2>2, BootFresh
  <2> HIDE DEF o
  <2>4. seg'.op = "recover" => ExecOf(seg'.obj) = e
    <3>1. Seg("recover", "pending", o).obj = o
      BY DEF Seg
    <3>2. CASE seg' = Idle
      BY <3>2, IdleFields
    <3>3. CASE seg' = Seg("recover", "pending", o)
      BY <2>3, <3>1, <3>3
    <3>4. QED
      BY <2>1, <3>2, <3>3
  <2>5. QED
    BY <2>1, <2>2, <2>4 DEF BootUnique, NoDuplicate, Queued
<1>7. ASSUME NEW e \in Exec, RecoverWaiting(e)
      PROVE  BootUnique'
  <2> DEFINE o == FreshObj(e)
  <2>1. /\ mode = "boot" /\ seg' = Idle /\ ~Queued(e) /\ queue' = Append(queue, o)
    BY <1>7 DEF RecoverWaiting, IsWaiting
  <2>2. o \in Obj /\ ExecOf(o) = e /\ NoDuplicate
    BY <2>1, BootFresh DEF BootUnique
  <2> HIDE DEF o
  <2>3. NoDuplicate'
    BY <2>1, <2>2, Types, AppendUnique
  <2>4. QED
    BY <2>1, <2>3, IdleFields DEF BootUnique
<1>8. QED
  BY <1>1, <1>2, <1>3, <1>4, <1>5, <1>6, <1>7, BootSteps

\* The end of the scan finds one entry for each open row and no other entry.
LEMMA RestartStep ==
    ASSUME TypeInv, BootUnique, [Next]_vars, mode = "boot", mode' = "up"
    PROVE  /\ \A e \in Exec : Queued(e) <=> row[e].status \in Open
           /\ NoDuplicate
<1>1. Recovered
  BY BootSteps DEF Crash, Boot, RecoverRunning, RecoverWaiting, vars
<1>2. NoDuplicate
  BY DEF BootUnique
<1>3. ASSUME NEW e \in Exec, row[e].status \in Open
      PROVE  Queued(e)
  BY <1>1, <1>3 DEF Recovered, IsRunning, IsWaiting, Open
<1>4. ASSUME NEW e \in Exec, Queued(e)
      PROVE  row[e].status \in Open
  BY <1>4 DEF TypeInv, BootOK, Queued, Open
<1>5. QED
  BY <1>2, <1>3, <1>4

\* However the death cut in, and however often, a restart resumes every open
\* execution exactly once and no finished one.
THEOREM RestartCorrect == Spec => RestartRequeuesOnce
<1>1. Init => BootUnique
  BY DEF Init, BootUnique
<1>2. TypeInv /\ BootUnique /\ [Next]_vars => BootUnique'
  BY BootUniqueStep
<1>3. TypeInv /\ BootUnique /\ [Next]_vars =>
          [mode = "boot" /\ mode' = "up" =>
               /\ \A e \in Exec : Queued(e) <=> row[e].status \in Open
               /\ NoDuplicate]_mode
  BY RestartStep
<1>4. QED
  BY <1>1, <1>2, <1>3, TypeInvariant, PTL DEF Spec, RestartRequeuesOnce
-----------------------------------------------------------------------------
(***************************************************************************)
(* Proofs about the scheduler of a loop that drains its callbacks before   *)
(* the next tick: an open execution is carried once and tracked, outcomes  *)
(* are final and the budget is kept, for every number of executions,       *)
(* objects and task slots and every cap, retry budget and bound on deaths  *)
(* and replays.                                                            *)
(*                                                                         *)
(* Executions share the queue and nothing else, so the invariant is one    *)
(* statement about each of them, Settled, and a step has to be looked at   *)
(* for the one execution it is about.                                      *)
(***************************************************************************)

\* What the queue holds, whatever its order.
Entries == {queue[i] : i \in DOMAIN queue}
Taken(t) == task[t].pc # "none"

\* The object of a carrier says of its execution what the row says.
Fits(o) == /\ mem[o].status = row[ExecOf(o)].status
           /\ mem[o].retry = row[ExecOf(o)].retry

\* An execution has one task slot in use, at most, and _active knows a task
\* that works.
OneTask(e) ==
    /\ \A t, u \in Task : ExecOf(t) = e /\ ExecOf(u) = e /\ Taken(t) /\ Taken(u) => t = u
    /\ \A t \in Task : ExecOf(t) = e /\ Live(t) => active[e] = t /\ ~Queued(e)

\* A queue entry waits as its row does.
EntryFits(e) ==
    \A o \in Entries : ExecOf(o) = e =>
        Fits(o) /\ mem[o].status \in {"pending", "retrying"}

\* A task that works is where its row says it is.
TaskFits(e) ==
    \A t \in Task : ExecOf(t) = e /\ Live(t) =>
        LET o == task[t].obj IN
        /\ Fits(o)
        /\ task[t].pc = "created" => mem[o].status \in {"pending", "retrying"}
        /\ task[t].pc = "handler" => mem[o].status = "running"
        /\ task[t].pc = "sleep" => \/ mem[o].status = "retrying"
                                   \/ mem[o].status = "pending" /\ seg.at = "drop" /\ seg.obj = o

\* A task that has ended, or was told to, leaves nothing open behind it but
\* what has gone back to the queue or is on its way there.
Ending(e) ==
    \A t \in Task : ExecOf(t) = e /\ Taken(t) /\ ~Live(t) =>
        LET o == task[t].obj IN
        /\ task[t].cancelled /\ active[e] = t => e \in acked
        /\ mem[o].status # "running"
        /\ mem[o].status \in Open => o \in Entries \/ seg.obj = o

\* The execution of the callback in progress, between two of its commits.
Held(e) ==
    ExecOf(seg.obj) = e =>
        /\ seg.op = "reject" => /\ row[e].status = "pending" /\ row[e].retry = 0
                                /\ \A t \in Task : ExecOf(t) = e => ~Taken(t)
        /\ seg.at = "retrying" => /\ row[e].status = "failed" /\ row[e].error = "timeout"
                                  /\ ~row[e].dead /\ e \notin acked /\ Fits(seg.obj)
        /\ seg.at = "pending" => row[e].status = "retrying" /\ Fits(seg.obj)
        /\ seg.at = "drop" => row[e].status = "pending" /\ Fits(seg.obj)
        /\ seg.op = "cancel" => /\ row[e].status = "failed" /\ ~row[e].dead
                                /\ mem[seg.obj].status = "failed"
        /\ seg.op \in {"reject", "reclaim", "replay", "recover", "cancel"} => ~Carried(e)
        /\ seg.op = "replay" => active[e] = NoTask
        /\ seg.op = "sleep" => \E t \in Task : task[t].obj = seg.obj /\ Live(t)

\* An open row has a carrier, or the callback in progress is about it.
Stranded(e) == row[e].status \in Open /\ ~Carried(e) /\ mode = "up"
AtHand(e) == Stranded(e) => ExecOf(seg.obj) = e

\* What a row means once it is failed, and what it has cost.
Letter(e) ==
    /\ row[e].dead => /\ row[e].status = "failed"
                      /\ row[e].retry = MaxRetries \/ row[e].error \in {"no_handler", "queue_full"}
    /\ row[e].status = "failed" /\ ~row[e].dead =>
         \/ row[e].error \in {"cancelled", "queue_full"}
         \/ row[e].error = "timeout"
            /\ (crashes > 0 \/ (seg.at = "retrying" /\ ExecOf(seg.obj) = e))
    /\ e \in acked => row[e].status = "failed" /\ ~row[e].dead

Budget(e) ==
    /\ row[e].status = "absent" => starts[e] = 0
    /\ row[e].status \in {"pending", "retrying"} => starts[e] <= row[e].retry + replays[e]
    /\ starts[e] <= row[e].retry + 1 + replays[e]

Settled(e) == /\ OneTask(e) /\ EntryFits(e) /\ TaskFits(e) /\ Ending(e)
              /\ Held(e) /\ AtHand(e) /\ Letter(e) /\ Budget(e)

\* A fan-out holds an object only between the two commits of a refusal.
Fanning ==
    seg.op \in {"enqueue", "reject"} => seg.obj = NoObj \/ (seg.op = "reject" /\ seg.at = "fail")

Safe == NoDuplicate /\ Fanning /\ \A e \in Exec : Settled(e)
----------------------------------------------------------------------------
(* What a step does besides.                                               *)

\* The step is about execution e.
Touches(e) ==
    /\ \A f \in Exec : f # e => /\ row'[f] = row[f] /\ active'[f] = active[f]
                                /\ starts'[f] = starts[f] /\ replays'[f] = replays[f]
                                /\ f \in acked' <=> f \in acked
    /\ \A t \in Task : ExecOf(t) # e => task'[t] = task[t]
    /\ \A o \in Obj : ExecOf(o) # e => /\ mem'[o] = mem[o]
                                       /\ o \in Entries' <=> o \in Entries
    /\ ExecOf(seg.obj) \in {0, e} /\ ExecOf(seg'.obj) \in {0, e}
    /\ UNCHANGED <<mode, crashes>>

QueuedMeans == \A e \in Exec : Queued(e) <=> \E o \in Entries : ExecOf(o) = e

\* An execution is queued when some entry is its object.
LEMMA QueuedHere == QueuedMeans
BY DEF QueuedMeans, Queued, Entries

\* The same after a step.
LEMMA QueuedNext == QueuedMeans'
BY QueuedHere, PTL

\* Entries are objects.
LEMMA EntriesType ==
    ASSUME queue \in Seq(Obj)
    PROVE  Entries \subseteq Obj
BY DEF Entries

\* The execution of nobody.
LEMMA Nobody == ExecOf(NoObj) = 0 /\ 0 \notin Exec /\ ExecOf(Idle.obj) = 0
BY DEF ExecOf, NoObj, Exec, Idle

\* What a step leaves alone stays settled.
LEMMA OtherSettled ==
    ASSUME TypeInv, TypeInv', NEW e, Touches(e), NEW f \in Exec, f # e, Settled(f)
    PROVE  Settled(f)'
<1>0. f # 0 /\ ExecOf(seg.obj) # f /\ ExecOf(seg'.obj) # f
  BY Nobody DEF Touches
<1>1. /\ row'[f] = row[f] /\ active'[f] = active[f] /\ starts'[f] = starts[f]
      /\ replays'[f] = replays[f] /\ (f \in acked' <=> f \in acked)
      /\ \A t \in Task : ExecOf(t) = f => task'[t] = task[t]
      /\ \A o \in Obj : ExecOf(o) = f => mem'[o] = mem[o] /\ (o \in Entries' <=> o \in Entries)
      /\ mode' = mode /\ crashes' = crashes
  BY DEF Touches
<1>2. \A t \in Task : ExecOf(t) = f /\ Taken(t) => task[t].obj \in Obj /\ ExecOf(task[t].obj) = f
  BY TaskObj DEF Taken
<1>3. Entries \subseteq Obj /\ Entries' \subseteq Obj
  BY EntriesType DEF TypeInv, TypeOK, Entries
<1>4. Queued(f) <=> Queued(f)'
  BY <1>1, <1>3, QueuedHere, QueuedNext DEF QueuedMeans
<1>5. \A t \in Task : ExecOf(t) = f => (Live(t) <=> Live(t)') /\ (Taken(t) <=> Taken(t)')
  BY <1>1 DEF Live, Unfinished, Taken
<1>6. Carried(f) <=> Carried(f)'
  BY <1>4, <1>5 DEF Carried
<1>7. OneTask(f)'
  BY <1>1, <1>4, <1>5 DEF Settled, OneTask
<1>8. EntryFits(f)'
  BY <1>1, <1>3 DEF Settled, EntryFits, Fits
<1>9. \A t \in Task : ExecOf(t) = f /\ Live(t) => Taken(t)
  BY DEF Live, Taken, Unfinished
<1>10. TaskFits(f)'
  BY <1>0, <1>1, <1>2, <1>5, <1>9 DEF Settled, TaskFits, Fits
<1>11. Ending(f)'
  BY <1>0, <1>1, <1>2, <1>5 DEF Settled, Ending
<1>12. Held(f)'
  BY <1>0 DEF Held
<1>13. AtHand(f)'
  BY <1>0, <1>1, <1>6 DEF Settled, AtHand, Stranded
<1>14. Letter(f)' /\ Budget(f)'
  BY <1>0, <1>1 DEF Settled, Letter, Budget
<1> QED BY <1>7, <1>8, <1>10, <1>11, <1>12, <1>13, <1>14 DEF Settled

\* A step about one execution is safe if it leaves that one settled.
LEMMA OneStep ==
    ASSUME TypeInv, TypeInv', Safe, NEW e, Touches(e), NoDuplicate', Fanning',
           e \in Exec => Settled(e)'
    PROVE  Safe'
BY OtherSettled DEF Safe
----------------------------------------------------------------------------
(* The queue.                                                              *)

\* A new entry joins the others.
LEMMA Appended ==
    ASSUME TypeInv, Safe, NEW o \in Obj, ~Queued(ExecOf(o)), queue' = Append(queue, o)
    PROVE  NoDuplicate' /\ Entries' = Entries \union {o} /\ Queued(ExecOf(o))'
<1>1. queue \in Seq(Obj)
  BY Types
<1>2. NoDuplicate'
  BY <1>1, AppendUnique DEF Safe
<1>3. Entries' = Entries \union {o}
  BY <1>1 DEF Entries
<1>4. Queued(ExecOf(o))'
  BY <1>3, Ids, QueuedNext DEF QueuedMeans
<1> QED BY <1>2, <1>3, <1>4

\* Removing one entry of a queue without duplicates removes its execution.
LEMMA TakenOut ==
    ASSUME TypeInv, Safe, NEW k \in DOMAIN queue, NEW o \in Obj, o = queue[k],
           queue' = RemoveAt(queue, k)
    PROVE  NoDuplicate' /\ Entries' = Entries \ {o} /\ ~Queued(ExecOf(o))'
<1>1. queue \in Seq(Obj) /\ k \in 1..Len(queue) /\ Len(queue) \in Nat /\ DOMAIN queue = 1..Len(queue)
  BY Types
<1>2. /\ queue' \in Seq(Obj) /\ Len(queue') = Len(queue) - 1
      /\ \A i \in DOMAIN queue' :
             \/ i \in DOMAIN queue /\ i < k /\ queue'[i] = queue[i]
             \/ i + 1 \in DOMAIN queue /\ i >= k /\ queue'[i] = queue[i + 1]
  BY <1>1, RemoveAtFacts
<1>3. DOMAIN queue' = 1..(Len(queue) - 1)
  BY <1>2
<1>4. \A i, j \in DOMAIN queue : ExecOf(queue[i]) = ExecOf(queue[j]) => i = j
  BY DEF Safe, NoDuplicate
<1>5. \A i, j \in DOMAIN queue' : ExecOf(queue'[i]) = ExecOf(queue'[j]) => i = j
  BY <1>1, <1>2, <1>3, <1>4
<1>6. \A i \in DOMAIN queue' : /\ \E j \in DOMAIN queue : queue'[i] = queue[j]
                               /\ ExecOf(queue'[i]) # ExecOf(o)
  BY <1>1, <1>2, <1>3, <1>4
<1>7. \A j \in DOMAIN queue : j # k => \E i \in DOMAIN queue' : queue'[i] = queue[j]
  <2> SUFFICES ASSUME NEW j \in DOMAIN queue, j # k
               PROVE  \E i \in DOMAIN queue' : queue'[i] = queue[j]
    OBVIOUS
  <2>1. CASE j < k
    BY <1>1, <1>2, <1>3, <2>1
  <2>2. CASE j > k
    <3>1. j - 1 \in DOMAIN queue' /\ j - 1 >= k /\ (j - 1) + 1 = j
      BY <1>1, <1>3, <2>2
    <3>2. queue'[j - 1] = queue[j]
      BY <1>2, <3>1
    <3> QED BY <3>1, <3>2
  <2> QED BY <1>1, <2>1, <2>2
<1>8. Entries' = Entries \ {o}
  BY <1>4, <1>6, <1>7 DEF Entries
<1>9. ~Queued(ExecOf(o))'
  BY <1>6 DEF Queued
<1> QED BY <1>5, <1>8, <1>9 DEF NoDuplicate

\* So does taking the head.
LEMMA HeadOut ==
    ASSUME TypeInv, Safe, queue # <<>>, NEW o, o = Head(queue), queue' = Tail(queue)
    PROVE  /\ o \in Entries /\ o \in Obj
           /\ NoDuplicate' /\ Entries' = Entries \ {o} /\ ~Queued(ExecOf(o))'
<1>1. queue \in Seq(Obj) /\ Len(queue) \in Nat /\ Len(queue) >= 1
  BY Types, EmptySeq
<1>2. queue' = RemoveAt(queue, 1)
  <2>1. \A i \in 1..(Len(queue) - 1) : Tail(queue)[i] = queue[i + 1]
    BY <1>1
  <2>2. \A i \in 1..(Len(queue) - 1) : RemoveAt(queue, 1)[i] = queue[i + 1]
    BY <1>1 DEF RemoveAt
  <2>3. /\ Tail(queue) \in Seq(Obj) /\ Len(Tail(queue)) = Len(queue) - 1
        /\ RemoveAt(queue, 1) \in Seq(Obj) /\ Len(RemoveAt(queue, 1)) = Len(queue) - 1
    BY <1>1, RemoveAtFacts
  <2> QED BY <2>1, <2>2, <2>3, SeqEqual
<1>3. o = queue[1] /\ 1 \in DOMAIN queue
  BY <1>1
<1>4. o \in Entries /\ o \in Obj
  BY <1>1, <1>3 DEF Entries
<1> QED BY <1>2, <1>3, <1>4, TakenOut

\* The execution of the callback in progress is nobody's between callbacks.
LEMMA SegNobody ==
    /\ seg = Idle => ExecOf(seg.obj) = 0
    /\ seg' = Idle => ExecOf(seg'.obj) = 0
BY Nobody
----------------------------------------------------------------------------
(* Steps that touch no execution, death and return.                        *)

\* A callback that only begins or ends changes nothing else.
LEMMA QuietSafe ==
    ASSUME TypeInv, TypeInv', Safe, ExecOf(seg.obj) = 0, seg'.obj = NoObj,
           UNCHANGED <<row, mem, queue, task, active, starts, acked, replays, crashes, mode>>
    PROVE  Safe'
<1>1. Touches(0)
  BY Nobody DEF Touches, Entries
<1>2. NoDuplicate' /\ Fanning'
  BY DEF Safe, NoDuplicate, Fanning
<1> QED BY <1>1, <1>2, Nobody, OneStep

\* Nothing changes.
LEMMA StutterSafe == ASSUME Safe, UNCHANGED vars PROVE Safe'
BY DEF vars, durable, memory, history, Safe, NoDuplicate, Settled, OneTask, EntryFits,
   TaskFits, Ending, Held, AtHand, Letter, Budget, Fits, Entries, Live, Unfinished, Taken,
   Fanning, Queued, Carried, Stranded

\* A fan-out begins.
LEMMA EnqueueSafe ==
    ASSUME TypeInv, TypeInv', Safe, NEW n, Enqueue(n) PROVE Safe'
<1>1. seg = Idle /\ seg'.obj = NoObj
  BY DEF Enqueue, Turn
<1> QED BY <1>1, Nobody, QuietSafe DEF Enqueue, durable, memory, history

\* Time passes.
LEMMA LeaseAgesSafe ==
    ASSUME TypeInv, TypeInv', Safe, NEW e, LeaseAges(e) PROVE Safe'
BY Nobody, QuietSafe DEF LeaseAges, memory, Idle

\* The process comes up: nothing may be left behind.
LEMMA ModeSafe ==
    ASSUME TypeInv, Safe, seg = Idle,
           UNCHANGED <<row, mem, queue, task, active, seg, starts, acked, replays, crashes>>,
           mode' = "up" => \A e \in Exec : row[e].status \in Open => Queued(e)
    PROVE  Safe'
<1>1. NoDuplicate' /\ Fanning'
  BY IdleFields DEF Safe, NoDuplicate, Fanning
<1>2. ASSUME NEW e \in Exec PROVE Settled(e)'
  <2>1. OneTask(e)' /\ EntryFits(e)' /\ TaskFits(e)' /\ Ending(e)'
    BY DEF Safe, Settled, OneTask, EntryFits, TaskFits, Ending, Fits, Entries, Live,
       Unfinished, Taken, Queued
  <2>2. Held(e)'
    BY Nobody DEF Held
  <2>3. AtHand(e)'
    BY DEF AtHand, Stranded, Carried, Queued
  <2>4. Letter(e)' /\ Budget(e)'
    BY DEF Safe, Settled, Letter, Budget
  <2> QED BY <2>1, <2>2, <2>3, <2>4 DEF Settled
<1> QED BY <1>1, <1>2 DEF Safe

\* The process is started again.
LEMMA BootSafe == ASSUME TypeInv, Safe, Boot PROVE Safe'
<1>1. seg = Idle /\ mode' = "boot"
  BY DEF Boot, TypeInv, BootOK
<1> QED BY <1>1, ModeSafe DEF Boot, durable, memory, history

\* The scan has queued whatever was open.
LEMMA RecoveredSafe == ASSUME TypeInv, Safe, Recovered PROVE Safe'
<1>1. \A e \in Exec : row[e].status \in Open => Queued(e)
  BY DEF Recovered, IsRunning, IsWaiting, Open
<1> QED BY <1>1, ModeSafe DEF Recovered, durable, memory, history

\* A death leaves the rows and the history.
LEMMA CrashSafe == ASSUME TypeInv, TypeInv', Safe, Crash PROVE Safe'
<1>1. /\ crashes' = crashes + 1 /\ mode' = "down" /\ queue' = <<>> /\ seg' = Idle
      /\ task' = [t \in Task |-> FreeTask]
      /\ UNCHANGED <<row, starts, acked, replays>>
  BY DEF Crash, durable
<1>2. Entries' = {} /\ NoDuplicate' /\ Fanning'
  BY <1>1, NoEntries, IdleFields DEF Entries, NoDuplicate, Fanning
<1>3. \A t \in Task : ~Taken(t)' /\ ~Live(t)'
  BY <1>1 DEF Taken, Live, Unfinished, FreeTask
<1>4. crashes' > 0
  BY <1>1, SchedulerAssumption DEF TypeInv, TypeOK
<1>5. ASSUME NEW e \in Exec PROVE Settled(e)'
  <2>1. OneTask(e)' /\ EntryFits(e)' /\ TaskFits(e)' /\ Ending(e)'
    BY <1>2, <1>3 DEF OneTask, EntryFits, TaskFits, Ending
  <2>2. Held(e)'
    BY <1>1, Nobody DEF Held
  <2>3. AtHand(e)'
    BY <1>1 DEF AtHand, Stranded
  <2>4. Letter(e)' /\ Budget(e)'
    BY <1>1, <1>4 DEF Safe, Settled, Letter, Budget
  <2> QED BY <2>1, <2>2, <2>3, <2>4 DEF Settled
<1> QED BY <1>2, <1>5 DEF Safe

\* At first there is nothing.
LEMMA InitSafe == ASSUME Init PROVE Safe
<1>1. Entries = {} /\ NoDuplicate /\ Fanning
  BY NoEntries, IdleFields DEF Init, Entries, NoDuplicate, Fanning
<1>2. \A t \in Task : ~Taken(t) /\ ~Live(t)
  BY DEF Init, Taken, Live, Unfinished, FreeTask
<1>3. ASSUME NEW e \in Exec PROVE Settled(e)
  <2>1. OneTask(e) /\ EntryFits(e) /\ TaskFits(e) /\ Ending(e)
    BY <1>1, <1>2 DEF OneTask, EntryFits, TaskFits, Ending
  <2>2. Held(e)
    BY Nobody DEF Init, Held
  <2>3. /\ row[e].status = "absent" /\ row[e].retry = 0 /\ ~row[e].dead
        /\ starts[e] = 0 /\ replays[e] = 0 /\ e \notin acked
    BY DEF Init
  <2>5. AtHand(e) /\ Letter(e)
    BY <2>3 DEF AtHand, Stranded, Open, Letter
  <2>6. Budget(e)
    BY <2>3 DEF Budget
  <2> QED BY <2>1, <2>2, <2>5, <2>6 DEF Settled
<1> QED BY <1>1, <1>3 DEF Safe
----------------------------------------------------------------------------
(* New executions.                                                         *)

\* What an execution is left with by a step that ends or refuses it.
LEMMA ClosedSettled ==
    ASSUME TypeInv', NEW e \in Exec, ExecOf(seg'.obj) = 0,
           row'[e].status \in {"completed", "failed"},
           ~Queued(e)', \A t \in Task : ExecOf(t) = e => ~Live(t)',
           \A t, u \in Task : ExecOf(t) = e /\ ExecOf(u) = e /\ Taken(t)' /\ Taken(u)' => t = u,
           \A t \in Task : ExecOf(t) = e /\ Taken(t)' =>
               /\ mem'[task'[t].obj].status \in {"completed", "failed"}
               /\ task'[t].cancelled /\ active'[e] = t => e \in acked',
           Letter(e)', Budget(e)'
    PROVE  Settled(e)'
<1>1. OneTask(e)' /\ TaskFits(e)'
  BY DEF OneTask, TaskFits
<1>2. EntryFits(e)'
  BY QueuedNext DEF QueuedMeans, EntryFits
<1>3. Ending(e)'
  BY DEF Ending, Open
<1>4. Held(e)'
  BY Nobody DEF Held
<1>5. AtHand(e)'
  BY DEF AtHand, Stranded, Open
<1> QED BY <1>1, <1>2, <1>3, <1>4, <1>5 DEF Settled

\* Nothing of an execution that nobody requested is in memory.
LEMMA AbsentFacts ==
    ASSUME TypeInv, Safe, NEW e \in Exec, row[e].status = "absent"
    PROVE  /\ ~Queued(e) /\ \A t \in Task : ExecOf(t) = e => ~Taken(t) /\ ~Live(t)
           /\ starts[e] = 0 /\ e \notin acked
<1>1. ~Queued(e) /\ \A t \in Task : ExecOf(t) = e => task[t] = FreeTask
  BY DEF TypeInv, Unborn
<1>2. \A t \in Task : ExecOf(t) = e => ~Taken(t) /\ ~Live(t)
  BY <1>1 DEF Taken, Live, Unfinished, FreeTask
<1>3. starts[e] = 0 /\ e \notin acked
  BY DEF Safe, Settled, Budget, Letter
<1> QED BY <1>1, <1>2, <1>3

\* What a request writes.
LEMMA RequestedRow ==
    ASSUME TypeInv, NEW e \in Exec, Requested(e)
    PROVE  /\ RowWritten(e) /\ row'[e].status = "pending"
           /\ row'[e].retry = 0 /\ ~row'[e].dead
<1>1. row \in [Exec -> RowType]
  BY Types
<1> DEFINE new == [status |-> "pending", retry |-> 0, error |-> "", dead |-> FALSE]
<1>2. new.status = "pending" /\ new.retry = 0 /\ ~new.dead /\ row' = [row EXCEPT ![e] = new]
  BY DEF Requested
<1>3. row'[e] = new
  <2> HIDE DEF new
  <2> QED BY <1>1, <1>2
<1>4. row'[e].status = "pending" /\ row'[e].retry = 0 /\ ~row'[e].dead
  <2> HIDE DEF new
  <2> QED BY <1>2, <1>3
<1> QED BY <1>1, <1>4, RequestedFacts

\* The counters are numbers.
LEMMA Counts ==
    ASSUME TypeInv, NEW e \in Exec
    PROVE  /\ starts[e] \in Nat /\ replays[e] \in Nat /\ crashes \in Nat
           /\ row[e].retry \in Nat /\ row[e].retry <= MaxRetries /\ MaxRetries \in Nat
<1>1. row[e] \in RowType
  BY DEF TypeInv, TypeOK
<1>2. row[e].retry \in 0..MaxRetries
  BY <1>1 DEF RowType
<1>3. starts[e] \in Nat /\ replays[e] \in 0..MaxReplays /\ crashes \in 0..MaxCrashes
  BY DEF TypeInv, TypeOK
<1> QED BY <1>2, <1>3, SchedulerAssumption

\* The first request costs nothing yet.
LEMMA NewBudget ==
    ASSUME TypeInv, NEW e \in Exec, starts[e] = 0, row'[e].retry = 0, UNCHANGED <<starts, replays>>
    PROVE  Budget(e)'
BY Counts DEF Budget

\* Between two handlers a fan-out holds no object.
LEMMA NextHandlerObj ==
    ASSUME TypeInv, seg.op \in {"enqueue", "reject"}, seg' = NextHandler
    PROVE  seg'.obj = NoObj
BY Types DEF NextHandler, Idle, SegType

\* One handler of the fan-out gets its execution, row and entry.
LEMMA EnqueueOneSafe ==
    ASSUME TypeInv, TypeInv', Safe, NEW e \in Exec, EnqueueOne(e) PROVE Safe'
<1>1. PICK o \in Obj : ExecOf(o) = e /\ o = FreshObj(e)
  BY NextExecFresh DEF EnqueueOne
<1>2. /\ row[e].status = "absent" /\ seg.op = "enqueue" /\ mode = "up"
      /\ mem' = [mem EXCEPT ![o] = [status |-> "pending", retry |-> 0, error |-> ""]]
      /\ queue' = Append(queue, o) /\ seg' = NextHandler
      /\ UNCHANGED <<task, active, mode, starts, acked, replays, crashes>>
  BY <1>1 DEF EnqueueOne, NextExec, history
<1>3. /\ ~Queued(e) /\ \A t \in Task : ExecOf(t) = e => ~Taken(t) /\ ~Live(t)
      /\ starts[e] = 0 /\ e \notin acked
  BY <1>2, AbsentFacts
<1>4. RowWritten(e) /\ row'[e].status = "pending" /\ row'[e].retry = 0 /\ ~row'[e].dead
  BY RequestedRow DEF EnqueueOne
<1>5. NoDuplicate' /\ Entries' = Entries \union {o} /\ Queued(e)'
  BY <1>1, <1>2, <1>3, Appended
<1>6. ExecOf(seg.obj) = 0 /\ ExecOf(seg'.obj) = 0 /\ Fanning'
  BY <1>2, Nobody, NextHandlerObj DEF Safe, Fanning
<1>7. /\ mem'[o].status = "pending" /\ mem'[o].retry = 0
      /\ \A p \in Obj : ExecOf(p) # e => mem'[p] = mem[p]
  BY <1>1, <1>2, Types
<1>8. Touches(e)
  BY <1>1, <1>2, <1>4, <1>5, <1>6, <1>7 DEF Touches, RowWritten
<1>9. Settled(e)'
  <2>1. OneTask(e)' /\ TaskFits(e)' /\ Ending(e)'
    BY <1>2, <1>3 DEF OneTask, TaskFits, Ending, Taken, Live, Unfinished
  <2>2. EntryFits(e)'
    BY <1>1, <1>3, <1>4, <1>5, <1>7, QueuedHere DEF QueuedMeans, EntryFits, Fits
  <2>3. Held(e)'
    BY <1>6, Nobody DEF Held
  <2>4. AtHand(e)'
    BY <1>5 DEF AtHand, Stranded, Carried
  <2>5. Letter(e)'
    BY <1>2, <1>3, <1>4 DEF Letter
  <2>6. Budget(e)'
    BY <1>2, <1>3, <1>4, NewBudget
  <2> QED BY <2>1, <2>2, <2>3, <2>4, <2>5, <2>6 DEF Settled
<1> QED BY <1>5, <1>6, <1>8, <1>9, OneStep

\* An execution that will be refused is requested first.
LEMMA RejectRequestSafe ==
    ASSUME TypeInv, TypeInv', Safe, NEW e \in Exec, RejectRequest(e) PROVE Safe'
<1>1. ExecOf(FreshObj(e)) = e
  BY NextExecFresh DEF RejectRequest
<1>2. /\ row[e].status = "absent" /\ seg.op = "reject" /\ seg.at = "request"
      /\ UNCHANGED <<mem, queue, task, active, mode, starts, acked, replays, crashes>>
  BY DEF RejectRequest, NextExec, history, memory
<1>3. /\ ~Queued(e) /\ \A t \in Task : ExecOf(t) = e => ~Taken(t) /\ ~Live(t)
      /\ starts[e] = 0 /\ e \notin acked
  BY <1>2, AbsentFacts
<1>4. RowWritten(e) /\ row'[e].status = "pending" /\ row'[e].retry = 0 /\ ~row'[e].dead
  BY RequestedRow DEF RejectRequest
<1>5. seg'.op = "reject" /\ seg'.at = "fail" /\ ExecOf(seg'.obj) = e
  BY <1>1, <1>2, Types DEF RejectRequest, SegType
<1>6. ExecOf(seg.obj) = 0 /\ Fanning'
  BY <1>2, <1>5, Nobody DEF Safe, Fanning
<1>8. Touches(e)
  BY <1>2, <1>4, <1>5, <1>6 DEF Touches, RowWritten, Entries
<1>7. ~Queued(e)' /\ \A t \in Task : ExecOf(t) = e => ~Taken(t)' /\ ~Live(t)'
  BY <1>2, <1>3 DEF Queued, Taken, Live, Unfinished
<1>9. Settled(e)'
  <2>1. OneTask(e)' /\ TaskFits(e)' /\ Ending(e)'
    BY <1>7 DEF OneTask, TaskFits, Ending
  <2>2. EntryFits(e)'
    BY <1>7, QueuedNext DEF QueuedMeans, EntryFits
  <2>3. Held(e)'
    BY <1>4, <1>5, <1>7 DEF Held, Carried
  <2>4. AtHand(e)'
    BY <1>5 DEF AtHand
  <2>5. Letter(e)'
    BY <1>2, <1>3, <1>4 DEF Letter
  <2>6. Budget(e)'
    BY <1>2, <1>3, <1>4, NewBudget
  <2> QED BY <2>1, <2>2, <2>3, <2>4, <2>5, <2>6 DEF Settled
<1>10. NoDuplicate'
  BY <1>2 DEF Safe, NoDuplicate
<1> QED BY <1>6, <1>8, <1>9, <1>10, OneStep
\* What a failure writes.
LEMMA FailedRow ==
    ASSUME TypeInv, NEW e \in Exec, NEW r \in 0..MaxRetries, NEW x \in Errors, NEW d \in BOOLEAN,
           Failed(e, r, x, d)
    PROVE  /\ RowWritten(e) /\ row'[e].status = "failed" /\ row'[e].retry = r
           /\ row'[e].error = x /\ (row'[e].dead <=> d)
<1>1. RowWritten(e) /\ row'[e] = [status |-> "failed", retry |-> r, error |-> x, dead |-> d]
  BY Types, FailedFacts
<1> QED BY <1>1

\* The refusal is the failure of what was requested.
LEMMA RejectFailSafe == ASSUME TypeInv, TypeInv', Safe, RejectFail PROVE Safe'
<1>1. PICK o \in Obj : o = seg.obj
  BY DEF RejectFail, TypeInv, SegOK
<1>2. PICK e \in Exec : e = ExecOf(o)
  BY Ids
<1>3. /\ seg.op = "reject" /\ seg.at = "fail" /\ Failed(e, 0, "queue_full", FALSE)
      /\ seg' = NextHandler
      /\ UNCHANGED <<mem, queue, task, active, mode, starts, acked, replays, crashes>>
  BY <1>1, <1>2 DEF RejectFail, history, memory
<1>4. /\ RowWritten(e) /\ row'[e].status = "failed" /\ row'[e].retry = 0
      /\ row'[e].error = "queue_full" /\ ~row'[e].dead
  BY <1>3, FailedRow, Literals
<1>5. row[e].status = "pending" /\ row[e].retry = 0 /\ ~Carried(e)
  BY <1>1, <1>2, <1>3 DEF Safe, Settled, Held
<1>6. ~Queued(e)' /\ \A t \in Task : ExecOf(t) = e => ~Live(t)'
  BY <1>3, <1>5 DEF Carried, Queued, Live, Unfinished
<1>7. ExecOf(seg'.obj) = 0 /\ Fanning'
  BY <1>3, Nobody, NextHandlerObj DEF Safe, Fanning
<1>8. Touches(e) /\ NoDuplicate'
  BY <1>1, <1>2, <1>3, <1>4, <1>7 DEF Touches, RowWritten, Entries, Safe, NoDuplicate
<1>9. \A t \in Task : ExecOf(t) = e => ~Taken(t)'
  BY <1>1, <1>2, <1>3 DEF Safe, Settled, Held, Taken
<1>11. Letter(e)'
  BY <1>3, <1>4 DEF Letter
<1>12. Budget(e)'
  BY <1>3, <1>4, <1>5, Counts DEF Safe, Settled, Budget
<1>13. Settled(e)'
  BY <1>4, <1>6, <1>7, <1>9, <1>11, <1>12, ClosedSettled
<1> QED BY <1>7, <1>8, <1>13, OneStep
----------------------------------------------------------------------------
(* Tasks that begin and end.                                               *)

\* What is known of a task that works.
LEMMA LiveFacts ==
    ASSUME TypeInv, Safe, NEW t \in Task, Live(t), NEW e, e = ExecOf(t), NEW o, o = task[t].obj
    PROVE  /\ e \in Exec /\ o \in Obj /\ ExecOf(o) = e /\ Taken(t)
           /\ active[e] = t /\ ~Queued(e) /\ o \notin Entries
           /\ mem[o] \in ObjType /\ mem[o].status = row[e].status /\ mem[o].retry = row[e].retry
           /\ row[e].status \in Open /\ e \notin acked
           /\ task[t].pc = "created" => mem[o].status \in {"pending", "retrying"}
           /\ task[t].pc = "handler" => mem[o].status = "running"
           /\ task[t].pc = "sleep" /\ seg = Idle => mem[o].status = "retrying"
           /\ \A u \in Task : ExecOf(u) = e /\ Taken(u) => u = t
<1>1. Taken(t) /\ task[t].pc # "none" /\ task[t].pc \in {"created", "handler", "sleep"}
  BY DEF Live, Unfinished, Taken
<1>2. e \in Exec /\ o \in Obj /\ ExecOf(o) = e /\ mem[o] \in ObjType
  BY <1>1, TaskObj
<1>3. OneTask(e) /\ TaskFits(e) /\ Letter(e)
  BY <1>2 DEF Safe, Settled
<1>4. active[e] = t /\ ~Queued(e) /\ \A u \in Task : ExecOf(u) = e /\ Taken(u) => u = t
  BY <1>1, <1>3 DEF OneTask
<1>5. o \notin Entries
  BY <1>2, <1>4, QueuedHere DEF QueuedMeans
<1>6. /\ Fits(o)
      /\ task[t].pc = "created" => mem[o].status \in {"pending", "retrying"}
      /\ task[t].pc = "handler" => mem[o].status = "running"
      /\ task[t].pc = "sleep" => \/ mem[o].status = "retrying"
                                 \/ mem[o].status = "pending" /\ seg.at = "drop" /\ seg.obj = o
  BY <1>3 DEF TaskFits
<1>7. row[e].status \in Open /\ e \notin acked
  BY <1>1, <1>2, <1>3, <1>6 DEF Fits, Open, Letter
<1> QED BY <1>1, <1>2, <1>4, <1>5, <1>6, <1>7, IdleFields DEF Fits

\* A task that works ends, and its object and its row say how.
LEMMA FinishSafe ==
    ASSUME TypeInv, TypeInv', Safe, NEW t \in Task, Live(t), EndTask(t),
           NEW e, e = ExecOf(t), NEW o, o = task[t].obj,
           ExecOf(seg.obj) \in {0, e}, seg' = Idle, RowWritten(e),
           row'[e].status \in {"completed", "failed"}, row'[e].retry = row[e].retry,
           row'[e].dead => /\ row'[e].status = "failed"
                           /\ row'[e].retry = MaxRetries \/ row'[e].error = "no_handler",
           row'[e].status = "failed" /\ ~row'[e].dead => row'[e].error \in {"cancelled", "queue_full"},
           mem'[o].status \in {"completed", "failed"}, \A p \in Obj : p # o => mem'[p] = mem[p],
           UNCHANGED <<queue, active, mode, starts, acked, replays, crashes>>
    PROVE  Safe'
<1>1. /\ e \in Exec /\ o \in Obj /\ ExecOf(o) = e /\ Taken(t)
      /\ ~Queued(e) /\ row[e].status \in Open /\ e \notin acked
      /\ \A u \in Task : ExecOf(u) = e /\ Taken(u) => u = t
  BY LiveFacts
<1>2. /\ \A u \in Task : u # t => task'[u] = task[u]
      /\ task'[t].pc = "done" /\ ~task'[t].cancelled /\ task'[t].obj = o
  BY Types, EndTaskFacts
<1>3. ExecOf(seg'.obj) = 0 /\ Fanning'
  BY Nobody, IdleFields DEF Fanning
<1>4. NoDuplicate' /\ Entries' = Entries /\ ~Queued(e)'
  BY <1>1 DEF Safe, NoDuplicate, Entries, Queued
<1>5. Touches(e)
  BY <1>1, <1>2, <1>3, <1>4 DEF Touches, RowWritten
<1>6. \A u \in Task : ExecOf(u) = e => ~Live(u)' /\ (Taken(u)' => u = t)
  BY <1>1, <1>2 DEF Taken, Live, Unfinished
<1>7. Letter(e)'
  BY <1>1 DEF Letter
<1>8. Budget(e)'
  BY <1>1, Counts DEF Safe, Settled, Budget
<1>9. Settled(e)'
  BY <1>1, <1>2, <1>3, <1>4, <1>6, <1>7, <1>8, ClosedSettled
<1> QED BY <1>3, <1>4, <1>5, <1>9, OneStep

\* What a cancel writes to the row and to the object.
LEMMA CancelledRow ==
    ASSUME TypeInv, NEW o \in Obj, NEW e, e = ExecOf(o), MarkCancelled(o)
    PROVE  /\ e \in Exec /\ RowWritten(e) /\ row'[e].status = "failed"
           /\ row'[e].retry = mem[o].retry /\ row'[e].error = "cancelled" /\ ~row'[e].dead
           /\ mem'[o].status = "failed" /\ mem'[o].retry = mem[o].retry
           /\ \A p \in Obj : p # o => mem'[p] = mem[p]
<1>1. mem \in [Obj -> ObjType] /\ mem[o].retry \in 0..MaxRetries /\ e \in Exec
  BY Types, Ids DEF ObjType
<1>2. /\ RowWritten(e) /\ row'[e].status = "failed" /\ row'[e].retry = mem[o].retry
      /\ row'[e].error = "cancelled" /\ ~row'[e].dead
  BY <1>1, FailedRow, Literals DEF MarkCancelled
<1>3. mem'[o].status = "failed" /\ mem'[o].retry = mem[o].retry /\ \A p \in Obj : p # o => mem'[p] = mem[p]
  BY <1>1 DEF MarkCancelled, ObjType
<1> QED BY <1>1, <1>2, <1>3

\* The first step finds the cancel flag and ends.
LEMMA BeginCancelledSafe ==
    ASSUME TypeInv, TypeInv', Safe, NEW t \in Task, BeginCancelled(t) PROVE Safe'
<1>1. /\ seg = Idle /\ Live(t) /\ MarkCancelled(task[t].obj) /\ EndTask(t)
      /\ UNCHANGED <<queue, active, seg, mode, starts, acked, replays, crashes>>
  BY DEF BeginCancelled, FirstStep, Turn, Live, Unfinished, history
<1>2. PICK e \in Exec : e = ExecOf(t)
  BY Ids
<1>3. PICK o \in Obj : o = task[t].obj
  BY <1>1, LiveFacts
<1>4. ExecOf(o) = e /\ mem[o].retry = row[e].retry
  BY <1>1, <1>2, <1>3, LiveFacts
<1>5. /\ RowWritten(e) /\ row'[e].status = "failed"
      /\ row'[e].retry = mem[o].retry /\ row'[e].error = "cancelled" /\ ~row'[e].dead
      /\ mem'[o].status = "failed" /\ \A p \in Obj : p # o => mem'[p] = mem[p]
  BY <1>1, <1>3, <1>4, CancelledRow
<1> QED BY <1>1, <1>2, <1>3, <1>4, <1>5, SegNobody, FinishSafe

\* The attempt finds no handler and ends.
LEMMA NoHandlerSafe ==
    ASSUME TypeInv, TypeInv', Safe, NEW t \in Task, NoHandler(t) PROVE Safe'
<1>1. /\ Live(t) /\ task[t].obj = seg.obj /\ EndTask(t) /\ seg' = Idle
      /\ UNCHANGED <<queue, active, mode, starts, acked, replays, crashes>>
  BY DEF NoHandler, Returning, Live, Unfinished, history
<1>2. PICK e \in Exec : e = ExecOf(t)
  BY Ids
<1>3. PICK o \in Obj : o = task[t].obj
  BY <1>1, LiveFacts
<1>4. ExecOf(o) = e /\ mem[o].retry = row[e].retry /\ mem[o].retry \in 0..MaxRetries
  BY <1>1, <1>2, <1>3, LiveFacts DEF ObjType
<1>5. /\ mem' = [mem EXCEPT ![o].status = "failed", ![o].error = "no_handler"]
      /\ Failed(e, mem[o].retry, "no_handler", TRUE)
  BY <1>1, <1>2, <1>3 DEF NoHandler
<1>6. /\ RowWritten(e) /\ row'[e].status = "failed" /\ row'[e].retry = row[e].retry
      /\ row'[e].error = "no_handler" /\ row'[e].dead
  BY <1>4, <1>5, FailedRow, Literals
<1>7. mem'[o].status = "failed" /\ \A p \in Obj : p # o => mem'[p] = mem[p]
  BY <1>5, Types DEF ObjType
<1> QED BY <1>1, <1>2, <1>3, <1>4, <1>6, <1>7, FinishSafe

\* The handler returns: the attempt completes, or was cancelled meanwhile.
LEMMA HandlerOkSafe ==
    ASSUME TypeInv, TypeInv', Safe, NEW t \in Task, HandlerOk(t) PROVE Safe'
<1>1. /\ seg = Idle /\ Live(t) /\ task[t].pc = "handler" /\ EndTask(t)
      /\ UNCHANGED <<queue, active, seg, mode, starts, acked, replays, crashes>>
  BY DEF HandlerOk, Returning, Turn, Live, Unfinished, history
<1>2. PICK e \in Exec : e = ExecOf(t)
  BY Ids
<1>3. PICK o \in Obj : o = task[t].obj
  BY <1>1, LiveFacts
<1>4. ExecOf(o) = e /\ mem[o].retry = row[e].retry /\ mem[o].status = "running"
  BY <1>1, <1>2, <1>3, LiveFacts
<1>5. \/ MarkCancelled(o)
      \/ mem' = [mem EXCEPT ![o].status = "completed", ![o].error = ""] /\ Completed(e)
  BY <1>2, <1>3, <1>4 DEF HandlerOk
<1>6. CASE MarkCancelled(o)
  <2>1. /\ RowWritten(e) /\ row'[e].status = "failed" /\ row'[e].retry = mem[o].retry
        /\ row'[e].error = "cancelled" /\ ~row'[e].dead
        /\ mem'[o].status = "failed" /\ \A p \in Obj : p # o => mem'[p] = mem[p]
    BY <1>4, <1>6, CancelledRow
  <2> QED BY <1>1, <1>2, <1>3, <1>4, <2>1, SegNobody, FinishSafe
<1>7. CASE mem' = [mem EXCEPT ![o].status = "completed", ![o].error = ""] /\ Completed(e)
  <2>1. RowWritten(e) /\ row'[e].status = "completed"
    BY <1>7, Types, CompletedFacts
  <2>2. row'[e].retry = row[e].retry /\ ~row'[e].dead
    BY <1>7, Types DEF Completed, RowType
  <2>3. mem'[o].status = "completed" /\ \A p \in Obj : p # o => mem'[p] = mem[p]
    BY <1>7, Types DEF ObjType
  <2> QED BY <1>1, <1>2, <1>3, <1>4, <2>1, <2>2, <2>3, SegNobody, FinishSafe
<1> QED BY <1>5, <1>6, <1>7

\* The attempts of a requested execution are within what it may spend.
LEMMA SpentBudget ==
    ASSUME TypeInv', NEW e \in Exec, row'[e].status \in {"running", "retrying"},
           starts'[e] <= row'[e].retry + 1 + replays'[e],
           row'[e].status = "retrying" => starts'[e] <= row'[e].retry + replays'[e]
    PROVE  Budget(e)'
BY DEF Budget

\* A task that works goes on, and its object and its row with it.
GoesOn(t, e, o) ==
    /\ RowWritten(e) /\ ~row'[e].dead
    /\ mem'[o].status = row'[e].status /\ mem'[o].retry = row'[e].retry
    /\ \A p \in Obj : p # o => mem'[p] = mem[p]
    /\ \A u \in Task : u # t => task'[u] = task[u]
    /\ ~task'[t].cancelled /\ task'[t].obj = o
    /\ \/ task'[t].pc = "handler" /\ row'[e].status = "running"
       \/ task'[t].pc = "sleep" /\ row'[e].status = "retrying"
    /\ \A f \in Exec : f # e => starts'[f] = starts[f]
    /\ Budget(e)'
    /\ ExecOf(seg'.obj) \in {0, e} /\ seg'.op \in {"idle", "begin"} /\ seg'.at \in {"", "fail"}
    /\ UNCHANGED <<queue, active, mode, acked, replays, crashes>>

\* Its execution stays settled.
LEMMA GoesOnSafe ==
    ASSUME TypeInv, TypeInv', Safe, NEW t \in Task, Live(t), seg = Idle,
           NEW e, e = ExecOf(t), NEW o, o = task[t].obj, GoesOn(t, e, o)
    PROVE  Safe'
<1>1. /\ e \in Exec /\ o \in Obj /\ ExecOf(o) = e /\ Taken(t) /\ active[e] = t
      /\ ~Queued(e) /\ e \notin acked /\ o \notin Entries
      /\ \A u \in Task : ExecOf(u) = e /\ Taken(u) => u = t
  BY LiveFacts
<1>2. NoDuplicate' /\ Entries' = Entries /\ ~Queued(e)' /\ Fanning'
  BY <1>1 DEF GoesOn, Safe, NoDuplicate, Entries, Queued, Fanning
<1>3. Touches(e)
  BY <1>1, <1>2, SegNobody DEF GoesOn, Touches, RowWritten
<1>4. \A u \in Task : ExecOf(u) = e /\ Taken(u)' => u = t
  BY <1>1 DEF GoesOn, Taken
<1>5. Live(t)' /\ \A u \in Task : Live(u)' => Taken(u)'
  BY DEF GoesOn, Live, Unfinished, Taken
<1>6. Settled(e)'
  <2>1. OneTask(e)'
    BY <1>1, <1>2, <1>4, <1>5 DEF GoesOn, OneTask
  <2>2. EntryFits(e)'
    BY <1>1, <1>2, QueuedNext DEF QueuedMeans, EntryFits
  <2>3. TaskFits(e)'
    BY <1>1, <1>4, <1>5 DEF GoesOn, TaskFits, Fits
  <2>4. Ending(e)'
    BY <1>4, <1>5 DEF Ending
  <2>5. Held(e)'
    BY DEF GoesOn, Held
  <2>6. AtHand(e)'
    BY <1>1, <1>5 DEF AtHand, Stranded, Carried
  <2>7. Letter(e)'
    BY <1>1 DEF GoesOn, Letter
  <2> QED BY <2>1, <2>2, <2>3, <2>4, <2>5, <2>6, <2>7 DEF GoesOn, Settled
<1> QED BY <1>2, <1>3, <1>6, OneStep

\* The handler fails: a retry is on its way, or the letter is dead.
LEMMA HandlerFailsSafe ==
    ASSUME TypeInv, TypeInv', Safe, NEW t \in Task, HandlerFails(t) PROVE Safe'
<1>1. /\ seg = Idle /\ Live(t) /\ task[t].pc = "handler"
      /\ UNCHANGED <<queue, active, seg, mode, starts, acked, replays, crashes>>
  BY DEF HandlerFails, Returning, Turn, Live, Unfinished, history
<1>2. PICK e \in Exec : e = ExecOf(t)
  BY Ids
<1>3. PICK o \in Obj : o = task[t].obj
  BY <1>1, LiveFacts
<1>4. /\ ExecOf(o) = e /\ mem[o].retry = row[e].retry /\ mem[o].status = "running"
      /\ row[e].status = "running" /\ mem[o].retry \in 0..MaxRetries /\ MaxRetries \in Nat
  BY <1>1, <1>2, <1>3, LiveFacts, SchedulerAssumption DEF ObjType
<1>5. mem \in [Obj -> ObjType]
  BY Types
<1>6. CASE /\ CanRetry(o)
           /\ mem' = [mem EXCEPT ![o] = [status |-> "retrying", retry |-> @.retry + 1,
                                         error |-> "error"]]
           /\ Retried(e, "retrying", mem[o].retry + 1, "error")
           /\ task' = [task EXCEPT ![t].pc = "sleep"]
  <2>1. PICK r \in 0..MaxRetries : r = mem[o].retry + 1
    BY <1>4, <1>6 DEF CanRetry
  <2>2. RowWritten(e) /\ row'[e] = [status |-> "retrying", retry |-> r, error |-> "error", dead |-> FALSE]
    BY <1>6, <2>1, Types, Literals, RetriedFacts
  <2>3. row'[e].status = "retrying" /\ row'[e].retry = r /\ ~row'[e].dead
    BY <2>2
  <2>4. /\ mem'[o].status = "retrying" /\ mem'[o].retry = r
        /\ \A p \in Obj : p # o => mem'[p] = mem[p]
    BY <1>5, <1>6, <2>1
  <2>5. /\ \A u \in Task : u # t => task'[u] = task[u]
        /\ task'[t].pc = "sleep" /\ task'[t].cancelled = task[t].cancelled /\ task'[t].obj = o
    BY <1>3, <1>6, Types DEF TaskType
  <2>6. ~task'[t].cancelled
    BY <1>1, <2>5 DEF Live
  <2>7. starts[e] <= row[e].retry + 1 + replays[e] /\ row'[e].retry = row[e].retry + 1
    BY <1>4, <2>1, <2>3 DEF Safe, Settled, Budget
  <2>8. /\ starts'[e] <= row'[e].retry + replays'[e]
        /\ starts'[e] <= row'[e].retry + 1 + replays'[e]
    BY <1>1, <2>7, Counts
  <2>9. Budget(e)'
    BY <2>3, <2>8, SpentBudget
  <2>10. GoesOn(t, e, o)
    BY <1>1, <2>3, <2>2, <2>4, <2>5, <2>6, <2>9, SegNobody, IdleFields DEF GoesOn
  <2> QED BY <1>1, <1>2, <1>3, <2>10, GoesOnSafe
<1>7. CASE /\ ~CanRetry(o)
           /\ mem' = [mem EXCEPT ![o].status = "failed", ![o].error = "error"]
           /\ Failed(e, mem[o].retry, "error", TRUE)
           /\ EndTask(t)
  <2>1. mem[o].retry = MaxRetries
    BY <1>4, <1>7 DEF CanRetry
  <2>2. /\ RowWritten(e) /\ row'[e].status = "failed" /\ row'[e].retry = mem[o].retry /\ row'[e].dead
    BY <1>4, <1>7, FailedRow, Literals
  <2>4. mem' = [mem EXCEPT ![o].status = "failed", ![o].error = "error"]
    BY <1>7
  <2>3. mem'[o].status = "failed" /\ \A p \in Obj : p # o => mem'[p] = mem[p]
    BY <1>5, <2>4 DEF ObjType
  <2>5. EndTask(t)
    BY <1>7
  <2> QED BY <1>1, <1>2, <1>3, <1>4, <2>5, <2>1, <2>2, <2>3, SegNobody, FinishSafe
<1> QED BY <1>2, <1>3, <1>4, <1>6, <1>7 DEF HandlerFails

\* What a start writes.
LEMMA StartedRow ==
    ASSUME TypeInv, NEW e \in Exec, Started(e)
    PROVE  /\ RowWritten(e) /\ row'[e].status = "running" /\ ~row'[e].dead
           /\ row'[e].retry = row[e].retry
<1>1. RowWritten(e) /\ row'[e].status = "running"
  BY Types, StartedFacts
<1>2. ~row'[e].dead /\ row'[e].retry = row[e].retry
  BY Types DEF Started, RowType
<1> QED BY <1>1, <1>2

\* The first step starts an attempt, which costs one.
LEMMA BeginSafe ==
    ASSUME TypeInv, TypeInv', Safe, NEW t \in Task, Begin(t) PROVE Safe'
<1>1. /\ seg = Idle /\ Live(t) /\ task[t].pc = "created"
      /\ UNCHANGED <<queue, active, mode, acked, replays, crashes>>
  BY DEF Begin, FirstStep, Turn, Live, Unfinished
<1>2. PICK e \in Exec : e = ExecOf(t)
  BY Ids
<1>3. PICK o \in Obj : o = task[t].obj
  BY <1>1, LiveFacts
<1>4. /\ ExecOf(o) = e /\ mem[o].retry = row[e].retry /\ mem[o].status = row[e].status
      /\ mem[o].status \in {"pending", "retrying"}
  BY <1>1, <1>2, <1>3, LiveFacts
<1>5. /\ mem' = [mem EXCEPT ![o].status = "running"] /\ Started(e)
      /\ starts' = [starts EXCEPT ![e] = @ + 1] /\ task' = [task EXCEPT ![t].pc = "handler"]
      /\ seg' = seg \/ seg' = Seg("begin", "fail", o)
  BY <1>2, <1>3 DEF Begin
<1>6. RowWritten(e) /\ row'[e].status = "running" /\ ~row'[e].dead /\ row'[e].retry = row[e].retry
  BY <1>5, StartedRow
<1>7. /\ mem'[o].status = "running" /\ mem'[o].retry = mem[o].retry
      /\ \A p \in Obj : p # o => mem'[p] = mem[p]
  BY <1>5, Types DEF ObjType
<1>8. /\ \A u \in Task : u # t => task'[u] = task[u]
      /\ task'[t].pc = "handler" /\ task'[t].cancelled = task[t].cancelled /\ task'[t].obj = o
  BY <1>3, <1>5, Types DEF TaskType
<1>9. /\ ~task'[t].cancelled /\ task'[t].pc = "handler" /\ task'[t].obj = o
      /\ \A u \in Task : u # t => task'[u] = task[u]
  BY <1>1, <1>8 DEF Live
<1>10. ExecOf(seg'.obj) \in {0, e} /\ seg'.op \in {"idle", "begin"} /\ seg'.at \in {"", "fail"}
  <2>1. CASE seg' = seg
    BY <1>1, <2>1, Nobody, IdleFields
  <2>2. CASE seg' = Seg("begin", "fail", o)
    BY <1>4, <2>2 DEF Seg
  <2> QED BY <1>5, <2>1, <2>2
<1>11. starts \in [Exec -> Nat]
  BY DEF TypeInv, TypeOK
<1>12. starts'[e] = starts[e] + 1 /\ \A f \in Exec : f # e => starts'[f] = starts[f]
  BY <1>5, <1>11
<1>13. starts[e] <= row[e].retry + replays[e]
  BY <1>4 DEF Safe, Settled, Budget
<1>14. starts'[e] <= row'[e].retry + 1 + replays'[e]
  BY <1>1, <1>4, <1>6, <1>12, <1>13, Counts
<1>15. Budget(e)'
  BY <1>6, <1>14, SpentBudget
<1>16. mem'[o].status = row'[e].status /\ mem'[o].retry = row'[e].retry
  BY <1>4, <1>6, <1>7
<1>17. GoesOn(t, e, o)
  BY <1>1, <1>6, <1>7, <1>9, <1>10, <1>12, <1>15, <1>16 DEF GoesOn
<1> QED BY <1>1, <1>2, <1>3, <1>17, GoesOnSafe
----------------------------------------------------------------------------
(* Tasks that are over.                                                    *)

\* What is known of a task that has ended or was told to.
LEMMA EndingFacts ==
    ASSUME TypeInv, Safe, NEW t \in Task, Taken(t), ~Live(t),
           NEW e, e = ExecOf(t), NEW o, o = task[t].obj
    PROVE  /\ e \in Exec /\ o \in Obj /\ ExecOf(o) = e /\ mem[o] \in ObjType
           /\ mem[o].status # "running"
           /\ mem[o].status \in Open => o \in Entries \/ seg.obj = o
           /\ task[t].cancelled /\ active[e] = t => e \in acked
           /\ \A u \in Task : ExecOf(u) = e /\ Taken(u) => u = t
<1>1. e \in Exec /\ o \in Obj /\ ExecOf(o) = e /\ mem[o] \in ObjType
  BY TaskObj DEF Taken
<1>2. Ending(e) /\ OneTask(e)
  BY <1>1 DEF Safe, Settled
<1>3. \A u \in Task : ExecOf(u) = e /\ Taken(u) => u = t
  BY <1>2 DEF OneTask
<1> QED BY <1>1, <1>2, <1>3 DEF Ending

\* The task leaves row and object as they are, but for the words of an error.
Leaves(t) ==
    /\ \A o \in Obj : mem'[o].status = mem[o].status /\ mem'[o].retry = mem[o].retry
    /\ \A o \in Obj : ExecOf(o) # ExecOf(t) => mem'[o] = mem[o]
    /\ \A u \in Task : u # t => task'[u] = task[u]
    /\ ~Live(t)' /\ (Taken(t)' => task'[t].obj = task[t].obj /\ ~task'[t].cancelled)
    /\ \A e \in Exec : e # ExecOf(t) => active'[e] = active[e]
    /\ UNCHANGED <<row, queue, seg, mode, starts, acked, replays, crashes>>

\* Its execution stays settled.
LEMMA LeavesSafe ==
    ASSUME TypeInv, TypeInv', Safe, seg = Idle, NEW t \in Task, Taken(t), ~Live(t), Leaves(t)
    PROVE  Safe'
<1>1. PICK e \in Exec : e = ExecOf(t)
  BY Ids
<1>2. PICK o : o = task[t].obj
  OBVIOUS
<1>3. /\ o \in Obj /\ ExecOf(o) = e /\ mem[o].status # "running"
      /\ mem[o].status \in Open => o \in Entries \/ seg.obj = o
      /\ \A u \in Task : ExecOf(u) = e /\ Taken(u) => u = t
  BY <1>1, <1>2, EndingFacts
<1>4. NoDuplicate' /\ Fanning' /\ Entries' = Entries /\ (Queued(e)' <=> Queued(e))
  BY DEF Leaves, Safe, NoDuplicate, Fanning, Entries, Queued
<1>5. Touches(e)
  BY <1>1, <1>4, SegNobody DEF Leaves, Touches
<1>6. \A u \in Task : ExecOf(u) = e => ~Live(u)
  BY <1>1, <1>3 DEF Live, Unfinished, Taken
<1>7. \A u \in Task : ExecOf(u) = e => ~Live(u)' /\ (Taken(u)' => u = t)
  BY <1>1, <1>3, <1>6 DEF Leaves, Live, Unfinished, Taken
<1>8. Settled(e)'
  <2>1. OneTask(e)' /\ TaskFits(e)'
    BY <1>7 DEF OneTask, TaskFits
  <2>2. EntryFits(e)'
    <3>1. Entries \subseteq Obj
      BY EntriesType, Types
    <3> QED BY <1>4, <3>1 DEF Leaves, Safe, Settled, EntryFits, Fits
  <2>3. Ending(e)'
    BY <1>2, <1>3, <1>4, <1>7 DEF Leaves, Ending
  <2>4. Held(e)'
    BY Nobody DEF Leaves, Held
  <2>5. AtHand(e)'
    BY <1>4, <1>6 DEF Leaves, Safe, Settled, AtHand, Stranded, Carried
  <2>6. Letter(e)' /\ Budget(e)'
    BY DEF Leaves, Safe, Settled, Letter, Budget
  <2> QED BY <2>1, <2>2, <2>3, <2>4, <2>5, <2>6 DEF Settled
<1> QED BY <1>4, <1>5, <1>8, OneStep

\* The done callback frees the slot.
LEMMA ForgetSafe ==
    ASSUME TypeInv, TypeInv', Safe, NEW t \in Task, Forget(t) PROVE Safe'
<1>1. /\ seg = Idle /\ task[t].pc = "done"
      /\ task' = [task EXCEPT ![t] = FreeTask]
      /\ active' = [active EXCEPT ![ExecOf(t)] = NoTask]
      /\ UNCHANGED <<row, mem, queue, seg, mode, starts, acked, replays, crashes>>
  BY DEF Forget, Turn, durable, history
<1>2. Taken(t) /\ ~Live(t)
  BY <1>1 DEF Taken, Live, Unfinished
<1>3. task'[t] = FreeTask /\ \A u \in Task : u # t => task'[u] = task[u]
  BY <1>1, Types
<1>4. ~Live(t)' /\ ~Taken(t)'
  BY <1>3 DEF Live, Unfinished, Taken, FreeTask
<1>5. \A e \in Exec : e # ExecOf(t) => active'[e] = active[e]
  BY <1>1, Types
<1>6. Leaves(t)
  BY <1>1, <1>3, <1>4, <1>5 DEF Leaves
<1> QED BY <1>1, <1>2, <1>6, LeavesSafe

\* A cancellation is thrown into its task.
LEMMA CancelDeliveredSafe ==
    ASSUME TypeInv, TypeInv', Safe, NEW t \in Task, CancelDelivered(t) PROVE Safe'
<1>1. /\ seg = Idle /\ Unfinished(t) /\ task[t].cancelled /\ EndTask(t)
      /\ UNCHANGED <<queue, active, seg, mode, starts, acked, replays, crashes>>
  BY DEF CancelDelivered, Turn, history
<1>2. Taken(t) /\ ~Live(t)
  BY <1>1 DEF Taken, Live, Unfinished
<1>3. PICK o : o = task[t].obj
  OBVIOUS
<1>4. o \in Obj /\ ExecOf(o) = ExecOf(t) /\ mem[o].status # "running"
  BY <1>2, <1>3, EndingFacts
<1>5. UNCHANGED row /\ (mem' = mem \/ mem' = [mem EXCEPT ![o].error = "cancelled"])
  BY <1>3, <1>4 DEF CancelDelivered
<1>6. /\ \A p \in Obj : mem'[p].status = mem[p].status /\ mem'[p].retry = mem[p].retry
      /\ \A p \in Obj : ExecOf(p) # ExecOf(t) => mem'[p] = mem[p]
  <2>1. CASE mem' = [mem EXCEPT ![o].error = "cancelled"]
    <3>1. /\ \A p \in Obj : p # o => mem'[p] = mem[p]
          /\ mem'[o].status = mem[o].status /\ mem'[o].retry = mem[o].retry
      BY <1>4, <2>1, Types DEF ObjType
    <3> QED BY <1>4, <3>1
  <2> QED BY <1>5, <2>1
<1>7. /\ \A u \in Task : u # t => task'[u] = task[u]
      /\ task'[t].pc = "done" /\ ~task'[t].cancelled /\ task'[t].obj = task[t].obj
  BY <1>1, Types, EndTaskFacts
<1>8. ~Live(t)'
  BY <1>7 DEF Live, Unfinished
<1>9. Leaves(t)
  BY <1>1, <1>5, <1>6, <1>7, <1>8 DEF Leaves
<1> QED BY <1>1, <1>2, <1>9, LeavesSafe
----------------------------------------------------------------------------
(* Back to the queue.                                                      *)

\* What going back to the queue writes.
LEMMA RequeuedRow ==
    ASSUME TypeInv, NEW o \in Obj, NEW op \in {"sleep", "reclaim", "recover", "replay"},
           Requeue(o, op), NEW e, e = ExecOf(o)
    PROVE  /\ RowWritten(e) /\ row'[e].status = "pending" /\ row'[e].retry = mem[o].retry
           /\ ~row'[e].dead
           /\ mem'[o].status = "pending" /\ mem'[o].retry = mem[o].retry
           /\ \A p \in Obj : p # o => mem'[p] = mem[p]
<1> DEFINE x == IF op = "replay" THEN "replay" ELSE mem[o].error
<1>1. /\ mem' = [mem EXCEPT ![o].status = "pending"]
      /\ Retried(e, "pending", mem[o].retry, x)
  BY DEF Requeue
<1>2. mem[o].retry \in 0..MaxRetries /\ mem[o].error \in Errors /\ e \in Exec
  BY Types, Ids DEF ObjType
<1>3. x \in Errors /\ "pending" \in Status
  BY <1>2, Literals
<1> HIDE DEF x
<1>4. /\ RowWritten(e)
      /\ row'[e] = [status |-> "pending", retry |-> mem[o].retry, error |-> x, dead |-> FALSE]
  BY <1>1, <1>2, <1>3, Types, RetriedFacts
<1>5. /\ mem'[o].status = "pending" /\ mem'[o].retry = mem[o].retry
      /\ \A p \in Obj : p # o => mem'[p] = mem[p]
  BY <1>1, Types DEF ObjType
<1> QED BY <1>4, <1>5

\* An execution that nobody carries goes back to the queue, or finds it full.
LEMMA ReturnsSafe ==
    ASSUME TypeInv, TypeInv', Safe, NEW o \in Obj, NEW e, e = ExecOf(o),
           ~Carried(e), row[e].status \in Open, mem[o].retry = row[e].retry,
           ~(row[e].status = "running"),
           ExecOf(seg.obj) \in {0, e}, \A p \in Obj : ExecOf(p) = e /\ p # o => seg.obj # p,
           RowWritten(e), row'[e].status = "pending", row'[e].retry = mem[o].retry, ~row'[e].dead,
           mem'[o].status = "pending", mem'[o].retry = mem[o].retry,
           \A p \in Obj : p # o => mem'[p] = mem[p],
           \/ seg' = Seg("reclaim", "drop", o) /\ UNCHANGED queue
           \/ seg' = Idle /\ queue' = Append(queue, o),
           UNCHANGED <<task, active, mode, starts, acked, replays, crashes>>
    PROVE  Safe'
<1>1. e \in Exec /\ e # 0
  BY Ids, Nobody
<1>2. ~Queued(e) /\ \A t \in Task : ExecOf(t) = e => ~Live(t)
  BY DEF Carried
<1>3. \A p \in Entries : ExecOf(p) # e
  BY <1>1, <1>2, QueuedHere DEF QueuedMeans
<1>4. /\ NoDuplicate' /\ Fanning' /\ \A p \in Obj : p # o => (p \in Entries' <=> p \in Entries)
      /\ \/ seg' = Seg("reclaim", "drop", o) /\ ~Queued(e)' /\ Entries' = Entries
         \/ seg' = Idle /\ o \in Entries' /\ Entries' = Entries \union {o} /\ Queued(e)'
  <2>1. CASE seg' = Seg("reclaim", "drop", o) /\ UNCHANGED queue
    BY <1>2, <2>1 DEF Safe, NoDuplicate, Fanning, Entries, Queued, Seg
  <2>2. CASE seg' = Idle /\ queue' = Append(queue, o)
    <3>1. NoDuplicate' /\ Entries' = Entries \union {o} /\ Queued(e)'
      BY <1>2, <2>2, Appended
    <3> QED BY <2>2, <3>1, IdleFields DEF Fanning
  <2> QED BY <2>1, <2>2
<1>5. ExecOf(seg'.obj) \in {0, e} /\ (seg' = Seg("reclaim", "drop", o) => seg'.obj = o)
  BY <1>4, Nobody DEF Seg
<1>6. Touches(e)
  BY <1>1, <1>4, <1>5 DEF Touches, RowWritten
<1>7. \A t \in Task : ExecOf(t) = e => ~Live(t)' /\ (Taken(t)' <=> Taken(t))
  BY <1>2 DEF Live, Unfinished, Taken
<1>8. Settled(e)'
  <2>1. OneTask(e)' /\ TaskFits(e)'
    BY <1>1, <1>7 DEF Safe, Settled, OneTask, TaskFits
  <2>2. EntryFits(e)'
    BY <1>3, <1>4 DEF EntryFits, Fits
  <2>3. Ending(e)'
    <3> SUFFICES ASSUME NEW t \in Task, ExecOf(t) = e, Taken(t)', NEW p, p = task'[t].obj
                 PROVE  /\ task'[t].cancelled /\ active'[e] = t => e \in acked'
                        /\ mem'[p].status # "running"
                        /\ mem'[p].status \in Open => p \in Entries' \/ seg'.obj = p
      BY DEF Ending
    <3>1. /\ p \in Obj /\ ExecOf(p) = e /\ mem[p].status # "running"
          /\ mem[p].status \in Open => p \in Entries \/ seg.obj = p
          /\ task[t].cancelled /\ active[e] = t => e \in acked
      BY <1>2, <1>7, EndingFacts
    <3>2. CASE p = o
      BY <1>4, <1>5, <3>1, <3>2
    <3>3. CASE p # o
      BY <1>3, <3>1, <3>3
    <3> QED BY <3>2, <3>3
  <2>4. Held(e)'
    <3>1. CASE seg' = Idle
      BY <1>1, <3>1, Nobody DEF Held
    <3>2. CASE seg' = Seg("reclaim", "drop", o)
      <4>1. seg'.op = "reclaim" /\ seg'.at = "drop" /\ seg'.obj = o
        BY <3>2 DEF Seg
      <4>2. ~Carried(e)'
        BY <1>4, <1>7, <3>2, <4>1, IdleFields DEF Carried
      <4> QED BY <4>1, <4>2 DEF Held, Fits
    <3> QED BY <1>4, <3>1, <3>2
  <2>5. AtHand(e)'
    BY <1>4, <1>5 DEF AtHand, Stranded, Carried
  <2>6. Letter(e)'
    BY <1>1 DEF Safe, Settled, Letter, Open
  <2>7. Budget(e)'
    BY <1>1, Counts DEF Safe, Settled, Budget, Open
  <2> QED BY <2>1, <2>2, <2>3, <2>4, <2>5, <2>6, <2>7 DEF Settled
<1> QED BY <1>4, <1>6, <1>8, OneStep

\* A reclaim, a restart and a replay queue the object they wrote.
LEMMA SegPendingSafe == ASSUME TypeInv, TypeInv', Safe, SegPending PROVE Safe'
<1>1. PICK o \in Obj : o = seg.obj
  BY DEF SegPending, TypeInv, SegOK
<1>2. PICK e \in Exec : e = ExecOf(o)
  BY Ids
<1>3. PICK op \in {"reclaim", "recover", "replay"} : op = seg.op
  BY DEF SegPending, TypeInv, SegOK
<1>4. /\ seg.at = "pending" /\ Requeue(o, op)
      /\ UNCHANGED <<task, active, mode, starts, acked, replays, crashes>>
  BY <1>1, <1>3 DEF SegPending, history
<1>5. /\ row[e].status = "retrying" /\ mem[o].retry = row[e].retry /\ ~Carried(e)
      /\ op = "replay" => active[e] = NoTask
  BY <1>1, <1>2, <1>3, <1>4 DEF Safe, Settled, Held, Fits
<1>6. /\ RowWritten(e) /\ row'[e].status = "pending" /\ row'[e].retry = mem[o].retry
      /\ ~row'[e].dead
      /\ mem'[o].status = "pending" /\ mem'[o].retry = mem[o].retry
      /\ \A p \in Obj : p # o => mem'[p] = mem[p]
  BY <1>2, <1>4, RequeuedRow
<1>7. \/ seg' = Seg("reclaim", "drop", o) /\ UNCHANGED queue
      \/ seg' = Idle /\ queue' = Append(queue, o)
  <2>1. ~Queued(e)
    BY <1>5 DEF Carried
  <2> QED BY <1>2, <1>4, <1>5, <2>1 DEF Requeue
<1>8. row[e].status \in Open /\ row[e].status # "running"
  BY <1>5 DEF Open
<1> QED BY <1>1, <1>2, <1>4, <1>5, <1>6, <1>7, <1>8, ReturnsSafe

\* The retry delay is over.
LEMMA SleepOverSafe ==
    ASSUME TypeInv, TypeInv', Safe, NEW t \in Task, SleepOver(t) PROVE Safe'
<1>1. /\ seg = Idle /\ Live(t) /\ task[t].pc = "sleep"
      /\ Requeue(task[t].obj, "sleep")
      /\ IF Room THEN EndTask(t) ELSE UNCHANGED task
      /\ UNCHANGED <<active, mode, starts, acked, replays, crashes>>
  BY DEF SleepOver, Turn, Live, Unfinished, history
<1>2. PICK e \in Exec : e = ExecOf(t)
  BY Ids
<1>3. PICK o \in Obj : o = task[t].obj
  BY <1>1, LiveFacts
<1>4. /\ ExecOf(o) = e /\ mem[o].retry = row[e].retry /\ row[e].status = "retrying"
      /\ Taken(t) /\ active[e] = t /\ ~Queued(e) /\ e \notin acked
      /\ \A u \in Task : ExecOf(u) = e /\ Taken(u) => u = t
  BY <1>1, <1>2, <1>3, LiveFacts
<1>5. /\ RowWritten(e) /\ row'[e].status = "pending" /\ row'[e].retry = mem[o].retry
      /\ ~row'[e].dead
      /\ mem'[o].status = "pending" /\ mem'[o].retry = mem[o].retry
      /\ \A p \in Obj : p # o => mem'[p] = mem[p]
  BY <1>1, <1>3, <1>4, RequeuedRow
<1>6. Letter(e)'
  BY <1>1, <1>4, <1>5 DEF Letter
<1>7. Budget(e)'
  BY <1>1, <1>4, <1>5, Counts DEF Safe, Settled, Budget
<1>8. \A p \in Entries : ExecOf(p) # e
  BY <1>4, QueuedHere DEF QueuedMeans
<1>9. CASE Room
  <2>1. seg' = Idle /\ queue' = Append(queue, o) /\ EndTask(t)
    BY <1>1, <1>3, <1>9 DEF Requeue
  <2>2. NoDuplicate' /\ Entries' = Entries \union {o} /\ Queued(e)'
    BY <1>4, <2>1, Appended
  <2>3. /\ \A u \in Task : u # t => task'[u] = task[u]
        /\ task'[t].pc = "done" /\ ~task'[t].cancelled /\ task'[t].obj = o
    BY <1>3, <2>1, Types, EndTaskFacts
  <2>4. \A u \in Task : ExecOf(u) = e => ~Live(u)' /\ (Taken(u)' => u = t)
    BY <1>4, <2>3 DEF Live, Unfinished, Taken
  <2>5. Touches(e) /\ Fanning'
    BY <1>1, <1>2, <1>4, <1>5, <2>1, <2>2, <2>3, SegNobody, IdleFields DEF Touches, RowWritten, Fanning
  <2>6. Settled(e)'
    <3>1. OneTask(e)' /\ TaskFits(e)'
      BY <2>4 DEF OneTask, TaskFits
    <3>2. EntryFits(e)'
      BY <1>5, <1>8, <2>2 DEF EntryFits, Fits
    <3>3. Ending(e)'
      BY <1>5, <2>2, <2>3, <2>4 DEF Ending
    <3>4. Held(e)'
      BY <2>1, Nobody DEF Held
    <3>5. AtHand(e)'
      BY <2>2 DEF AtHand, Stranded, Carried
    <3> QED BY <1>6, <1>7, <3>1, <3>2, <3>3, <3>4, <3>5 DEF Settled
  <2> QED BY <2>2, <2>5, <2>6, OneStep
<1>10. CASE ~Room
  <2>1. seg' = Seg("sleep", "drop", o) /\ UNCHANGED <<queue, task>>
    BY <1>1, <1>3, <1>10 DEF Requeue
  <2>2. seg'.op = "sleep" /\ seg'.at = "drop" /\ seg'.obj = o
    BY <2>1 DEF Seg
  <2>3. NoDuplicate' /\ Fanning' /\ Entries' = Entries /\ ~Queued(e)'
    BY <1>4, <2>1, <2>2 DEF Safe, NoDuplicate, Fanning, Entries, Queued
  <2>4. Touches(e)
    BY <1>1, <1>2, <1>4, <1>5, <2>1, <2>2, <2>3, SegNobody DEF Touches, RowWritten
  <2>5. Live(t)' /\ \A u \in Task : ExecOf(u) = e /\ (Taken(u)' \/ Live(u)') => u = t
    BY <1>1, <1>4, <2>1 DEF Live, Unfinished, Taken
  <2>6. Settled(e)'
    <3>1. OneTask(e)'
      BY <1>1, <1>4, <2>3, <2>5 DEF OneTask
    <3>2. EntryFits(e)'
      BY <1>8, <2>3 DEF EntryFits
    <3>3. TaskFits(e)'
      BY <1>1, <1>3, <1>4, <1>5, <2>1, <2>2, <2>5 DEF TaskFits, Fits
    <3>4. Ending(e)'
      BY <2>5 DEF Ending
    <3>5. Held(e)'
      BY <1>3, <1>4, <1>5, <2>1, <2>2, <2>5 DEF Held, Fits
    <3>6. AtHand(e)'
      BY <1>4, <2>2 DEF AtHand
    <3> QED BY <1>6, <1>7, <3>1, <3>2, <3>3, <3>4, <3>5, <3>6 DEF Settled
  <2> QED BY <2>3, <2>4, <2>6, OneStep
<1> QED BY <1>9, <1>10

\* A task of an execution that nobody carries holds a finished object, or the
\* one of the callback in progress.
LEMMA LooseFacts ==
    ASSUME TypeInv, Safe, NEW e \in Exec, ~Carried(e), NEW t \in Task, ExecOf(t) = e, Taken(t),
           NEW p, p = task[t].obj
    PROVE  /\ p \in Obj /\ ExecOf(p) = e /\ ~Live(t)
           /\ mem[p].status \in {"completed", "failed"} \/ seg.obj = p
           /\ task[t].cancelled /\ active[e] = t => e \in acked
           /\ \A u \in Task : ExecOf(u) = e /\ Taken(u) => u = t
<1>1. ~Queued(e) /\ ~Live(t)
  BY DEF Carried
<1>2. /\ p \in Obj /\ ExecOf(p) = e /\ mem[p] \in ObjType /\ mem[p].status # "running"
      /\ mem[p].status \in Open => p \in Entries \/ seg.obj = p
      /\ task[t].cancelled /\ active[e] = t => e \in acked
      /\ \A u \in Task : ExecOf(u) = e /\ Taken(u) => u = t
  BY <1>1, EndingFacts
<1>3. p \notin Entries
  BY <1>1, <1>2, QueuedHere DEF QueuedMeans
<1>4. mem[p].status \in Open \union {"completed", "failed"}
  BY <1>2 DEF ObjType, Status
<1> QED BY <1>1, <1>2, <1>3, <1>4

\* An object that found no room is failed.
LEMMA DropSafe == ASSUME TypeInv, TypeInv', Safe, Drop PROVE Safe'
<1>1. PICK o \in Obj : o = seg.obj
  BY DEF Drop, TypeInv, SegOK
<1>2. PICK e \in Exec : e = ExecOf(o)
  BY Ids
<1>4. /\ seg.at = "drop" /\ seg' = Idle
      /\ UNCHANGED <<queue, active, mode, starts, acked, replays, crashes>>
  BY DEF Drop, history
<1>5. mem' = [mem EXCEPT ![o].status = "failed", ![o].error = "queue_full"]
  BY <1>1 DEF Drop
<1>6. Failed(e, mem[o].retry, "queue_full", seg.op = "reclaim")
  BY <1>1, <1>2 DEF Drop
<1>7. row[e].status = "pending" /\ mem[o].retry = row[e].retry /\ mem[o].retry \in 0..MaxRetries
  BY <1>1, <1>2, <1>4, Types DEF Safe, Settled, Held, Fits, ObjType
<1>8. /\ RowWritten(e) /\ row'[e].status = "failed" /\ row'[e].retry = row[e].retry
      /\ row'[e].error = "queue_full" /\ (row'[e].dead <=> seg.op = "reclaim")
  <2>1. CASE seg.op = "reclaim"
    <3>1. Failed(e, mem[o].retry, "queue_full", TRUE)
      BY <1>6, <2>1
    <3> QED BY <1>7, <2>1, <3>1, FailedRow, Literals
  <2>2. CASE seg.op # "reclaim"
    <3>1. Failed(e, mem[o].retry, "queue_full", FALSE)
      BY <1>6, <2>2
    <3> QED BY <1>7, <2>2, <3>1, FailedRow, Literals
  <2> QED BY <2>1, <2>2
<1>9. mem'[o].status = "failed" /\ \A p \in Obj : p # o => mem'[p] = mem[p]
  BY <1>5, Types DEF ObjType
<1>10. seg.op \in {"sleep", "reclaim"}
  BY <1>4 DEF TypeInv, SegOK
<1>11. CASE seg.op = "sleep"
  <2>1. PICK t \in Task : task[t].pc = "sleep" /\ task[t].obj = o /\ ~task[t].cancelled /\ EndTask(t)
    BY <1>1, <1>11 DEF Drop
  <2>2. Live(t) /\ e = ExecOf(t)
    BY <1>2, <2>1, TaskObj DEF Live, Unfinished
  <2>3. ~row'[e].dead
    BY <1>8, <1>11
  <2> QED BY <1>1, <1>2, <1>4, <1>8, <1>9, <2>1, <2>2, <2>3, FinishSafe
<1>12. CASE seg.op = "reclaim"
  <2>1. UNCHANGED task
    BY <1>12 DEF Drop
  <2>2. ~Carried(e)
    BY <1>1, <1>2, <1>12 DEF Safe, Settled, Held
  <2>3. ~Queued(e)' /\ \A t \in Task : ExecOf(t) = e => ~Live(t)' /\ (Taken(t)' <=> Taken(t))
    BY <1>4, <2>1, <2>2 DEF Carried, Queued, Live, Unfinished, Taken
  <2>4. \A t \in Task : ExecOf(t) = e /\ Taken(t)' =>
            /\ mem'[task'[t].obj].status \in {"completed", "failed"}
            /\ task'[t].cancelled /\ active'[e] = t => e \in acked'
    <3> SUFFICES ASSUME NEW t \in Task, ExecOf(t) = e, Taken(t)', NEW p, p = task[t].obj
                 PROVE  /\ mem'[p].status \in {"completed", "failed"}
                        /\ task[t].cancelled /\ active[e] = t => e \in acked
      BY <1>4, <2>1
    <3>1. /\ p \in Obj
          /\ mem[p].status \in {"completed", "failed"} \/ seg.obj = p
          /\ task[t].cancelled /\ active[e] = t => e \in acked
      BY <2>2, <2>3, LooseFacts
    <3> QED BY <1>1, <1>9, <3>1
  <2>5. \A t, u \in Task : ExecOf(t) = e /\ ExecOf(u) = e /\ Taken(t)' /\ Taken(u)' => t = u
    BY <2>3 DEF Safe, Settled, OneTask
  <2>6. ExecOf(seg'.obj) = 0 /\ NoDuplicate' /\ Fanning'
    BY <1>4, Nobody, IdleFields DEF Safe, NoDuplicate, Fanning
  <2>7. Touches(e)
    BY <1>1, <1>2, <1>4, <1>8, <1>9, <2>1, <2>6 DEF Touches, RowWritten, Entries
  <2>8. row'[e].dead /\ e \notin acked
    BY <1>7, <1>8, <1>12 DEF Safe, Settled, Letter
  <2>9. Letter(e)'
    BY <1>4, <1>8, <2>8 DEF Letter
  <2>10. Budget(e)'
    BY <1>4, <1>8, Counts DEF Safe, Settled, Budget
  <2>11. Settled(e)'
    BY <1>8, <2>3, <2>4, <2>5, <2>6, <2>9, <2>10, ClosedSettled
  <2> QED BY <2>6, <2>7, <2>11, OneStep
<1> QED BY <1>10, <1>11, <1>12
----------------------------------------------------------------------------
(* Cancels.                                                                *)

\* A cancel takes an entry out of the queue.
LEMMA CancelQueuedSafe ==
    ASSUME TypeInv, TypeInv', Safe, NEW e \in Exec, CancelQueued(e) PROVE Safe'
<1>1. seg = Idle
  BY DEF CancelQueued, CancelTurn, Turn, Safe, Settled, Held, Carried
<1>2. PICK k \in DOMAIN queue : k = FirstOf(queue, e)
  BY FirstOfFacts, Types DEF CancelQueued
<1>3. PICK o \in Obj : o = queue[k]
  BY Types
<1>4. /\ ExecOf(o) = e /\ o \in Entries
      /\ Queued(e) /\ MarkCancelled(o) /\ queue' = RemoveAt(queue, k)
      /\ seg' = Seg("cancel", "", o)
      /\ UNCHANGED <<task, active, mode, starts, acked, replays, crashes>>
  <2>1. ExecOf(queue[k]) = e
    BY <1>2, FirstOfFacts, Types DEF CancelQueued
  <2> QED BY <1>2, <1>3, <2>1 DEF CancelQueued, history, Entries
<1>5. /\ mem[o].retry = row[e].retry /\ row[e].status \in {"pending", "retrying"} /\ e \notin acked
  BY <1>4 DEF Safe, Settled, EntryFits, Fits, Letter
<1>6. /\ RowWritten(e) /\ row'[e].status = "failed" /\ row'[e].retry = mem[o].retry
      /\ row'[e].error = "cancelled" /\ ~row'[e].dead
      /\ mem'[o].status = "failed" /\ \A p \in Obj : p # o => mem'[p] = mem[p]
  BY <1>4, CancelledRow
<1>7. NoDuplicate' /\ Entries' = Entries \ {o} /\ ~Queued(e)'
  BY <1>3, <1>4, TakenOut
<1>8. \A p \in Entries : ExecOf(p) = e => p = o
  BY <1>3, <1>4 DEF Safe, NoDuplicate, Entries
<1>9. seg'.op = "cancel" /\ seg'.at = "" /\ seg'.obj = o
  BY <1>4 DEF Seg
<1>10. Touches(e) /\ Fanning'
  BY <1>1, <1>4, <1>6, <1>7, <1>9, SegNobody DEF Touches, RowWritten, Fanning
<1>11. \A t \in Task : ExecOf(t) = e => ~Live(t) /\ ~Live(t)' /\ (Taken(t)' <=> Taken(t))
  BY <1>4 DEF Safe, Settled, OneTask, Live, Unfinished, Taken
<1>12. Settled(e)'
  <2>1. OneTask(e)' /\ TaskFits(e)'
    BY <1>11 DEF Safe, Settled, OneTask, TaskFits
  <2>2. EntryFits(e)'
    BY <1>7, QueuedNext DEF QueuedMeans, EntryFits
  <2>3. Ending(e)'
    <3> SUFFICES ASSUME NEW t \in Task, ExecOf(t) = e, Taken(t)', NEW p, p = task[t].obj
                 PROVE  /\ task[t].cancelled /\ active[e] = t => e \in acked
                        /\ mem'[p].status # "running" /\ mem'[p].status \notin Open
      BY <1>4 DEF Ending
    <3>1. /\ p \in Obj /\ ExecOf(p) = e /\ mem[p].status # "running"
          /\ mem[p].status \in Open => p \in Entries \/ seg.obj = p
          /\ task[t].cancelled /\ active[e] = t => e \in acked
      BY <1>11, EndingFacts
    <3>2. p # NoObj
      BY <3>1, Ids
    <3>3. CASE p = o
      BY <1>6, <3>1, <3>3 DEF Open
    <3>4. CASE p # o
      BY <1>1, <1>6, <1>8, <3>1, <3>2, <3>4 DEF Idle
    <3> QED BY <3>3, <3>4
  <2>4. Held(e)'
    BY <1>6, <1>7, <1>9, <1>11 DEF Held, Carried
  <2>5. AtHand(e)'
    BY <1>4, <1>9 DEF AtHand
  <2>6. Letter(e)'
    BY <1>4, <1>5, <1>6 DEF Letter
  <2>7. Budget(e)'
    BY <1>4, <1>5, <1>6, Counts DEF Safe, Settled, Budget
  <2> QED BY <2>1, <2>2, <2>3, <2>4, <2>5, <2>6, <2>7 DEF Settled
<1> QED BY <1>7, <1>10, <1>12, OneStep

\* A task that was told to end, or has ended, is not told again.
LEMMA ToldBefore ==
    ASSUME TypeInv, NEW t \in Task \union {NoTask}, CancelTask(t),
           t \in Task /\ Unfinished(t) => task[t].cancelled
    PROVE  UNCHANGED task
<1>1. task \in [Task -> TaskType]
  BY Types
<1>2. CASE t \in Task /\ Unfinished(t)
  <2>1. task' = [task EXCEPT ![t].cancelled = TRUE]
    BY <1>2, Ids DEF CancelTask
  <2>2. task[t] \in TaskType /\ task[t].cancelled = TRUE
    BY <1>1, <1>2 DEF TaskType
  <2>3. [task[t] EXCEPT !.cancelled = TRUE] = task[t]
    BY <2>2 DEF TaskType
  <2>4. task' = [task EXCEPT ![t] = task[t]]
    BY <2>1, <2>3
  <2> QED BY <1>1, <2>4
<1>3. CASE ~(t \in Task /\ Unfinished(t))
  BY <1>3 DEF CancelTask
<1> QED BY <1>2, <1>3

\* A task that is not queued and whose object is open still works.
LEMMA OpenMeansLive ==
    ASSUME TypeInv, Safe, NEW e \in Exec, ~Queued(e), NEW t \in Task, ExecOf(t) = e, Taken(t),
           NEW o, o = task[t].obj, mem[o].status \in Open,
           seg = Idle \/ (seg.op = "cancel" /\ ExecOf(seg.obj) = e)
    PROVE  Live(t)
<1> SUFFICES ASSUME ~Live(t) PROVE FALSE
  OBVIOUS
<1>1. o \in Obj /\ ExecOf(o) = e /\ (o \in Entries \/ seg.obj = o)
  BY EndingFacts
<1>2. o \notin Entries
  BY <1>1, QueuedHere DEF QueuedMeans
<1>3. seg.op = "cancel" /\ ExecOf(seg.obj) = e
  BY <1>1, <1>2, Nobody
<1>4. mem[seg.obj].status = "failed"
  BY <1>3 DEF Safe, Settled, Held
<1> QED BY <1>1, <1>2, <1>4 DEF Open

\* A cancel fails the object of the tracked task, marks the task and answers.
LEMMA CancelActiveSafe ==
    ASSUME TypeInv, TypeInv', Safe, NEW e \in Exec, CancelActive(e) PROVE Safe'
<1>1. PICK t \in Task \union {NoTask} : t = active[e]
  BY Types
<1>2. PICK o : o = task[t].obj
  OBVIOUS
<1>3. /\ CancelTurn(e) /\ ~Queued(e) /\ CancelTask(t) /\ seg' = Idle
      /\ IF t # NoTask /\ MarksFirst(o) THEN MarkCancelled(o) ELSE UNCHANGED <<mem, row>>
      /\ acked' = IF (t # NoTask /\ Unfinished(t)) \/ seg.op = "cancel"
                  THEN acked \union {e} ELSE acked
      /\ UNCHANGED <<queue, active, mode, starts, replays, crashes>>
  BY <1>1, <1>2 DEF CancelActive
<1>4. seg = Idle \/ (seg.op = "cancel" /\ ExecOf(seg.obj) = e)
  BY <1>3 DEF CancelTurn, Turn
<1>5. t # NoTask => t \in Task /\ ExecOf(t) = e /\ Taken(t)
  BY <1>1 DEF TypeInv, ActiveOK, Taken
<1>6. NoDuplicate' /\ Fanning' /\ Entries' = Entries /\ ~Queued(e)' /\ ExecOf(seg'.obj) = 0
      /\ ExecOf(seg.obj) \in {0, e}
  BY <1>3, <1>4, IdleFields, Nobody DEF Safe, NoDuplicate, Fanning, Entries, Queued
<1>7. /\ task' \in [Task -> TaskType]
      /\ \A u \in Task : /\ task'[u].pc = task[u].pc /\ task'[u].obj = task[u].obj
                         /\ task'[u] # task[u] => u = t /\ Unfinished(t)
      /\ t # NoTask /\ Unfinished(t) => task'[t].cancelled
  BY <1>3, Types, CancelTaskFacts
<1>8. CASE t # NoTask /\ MarksFirst(o)
  <2>1. t \in Task /\ ExecOf(t) = e /\ Taken(t) /\ mem[o].status \in Open
    BY <1>5, <1>8 DEF MarksFirst
  <2>2. Live(t)
    BY <1>2, <1>3, <1>4, <2>1, OpenMeansLive
  <2>3. /\ o \in Obj /\ ExecOf(o) = e /\ mem[o].retry = row[e].retry /\ row[e].status \in Open
        /\ \A u \in Task : ExecOf(u) = e /\ Taken(u) => u = t
    BY <1>2, <2>1, <2>2, LiveFacts
  <2>4. /\ RowWritten(e) /\ row'[e].status = "failed" /\ row'[e].retry = mem[o].retry
        /\ row'[e].error = "cancelled" /\ ~row'[e].dead
        /\ mem'[o].status = "failed" /\ \A p \in Obj : p # o => mem'[p] = mem[p]
    BY <1>3, <1>8, <2>3, CancelledRow
  <2>5. acked' = acked \union {e} /\ task'[t].cancelled
    BY <1>3, <1>7, <1>8, <2>2 DEF Live
  <2>6. /\ \A u \in Task : u # t => task'[u] = task[u]
        /\ \A u \in Task : ExecOf(u) = e => ~Live(u)' /\ (Taken(u)' => u = t)
    BY <1>7, <2>3, <2>5 DEF Live, Unfinished, Taken
  <2>7. Touches(e)
    BY <1>3, <1>6, <2>1, <2>3, <2>4, <2>5, <2>6 DEF Touches, RowWritten
  <2>8. Letter(e)'
    BY <2>4 DEF Letter
  <2>9. Budget(e)'
    BY <1>3, <2>3, <2>4, Counts DEF Safe, Settled, Budget
  <2>10. Settled(e)'
    BY <1>2, <1>6, <1>7, <2>1, <2>4, <2>5, <2>6, <2>8, <2>9, ClosedSettled
  <2> QED BY <1>6, <2>7, <2>10, OneStep
<1>9. CASE ~(t # NoTask /\ MarksFirst(o))
  <2>1. UNCHANGED <<mem, row>>
    BY <1>3, <1>9
  <2>2. t # NoTask => ~Live(t)
    <3> SUFFICES ASSUME t # NoTask, Live(t) PROVE FALSE
      OBVIOUS
    <3>1. row[e].status \in Open /\ mem[o].status = row[e].status
      BY <1>2, <1>5, LiveFacts
    <3> QED BY <1>9, <3>1 DEF MarksFirst
  <2>3. t \in Task /\ Unfinished(t) => task[t].cancelled
    BY <2>2, Ids DEF Live
  <2>4. UNCHANGED task
    BY <1>3, <2>3, ToldBefore
  <2>5. CASE seg = Idle
    <3>1. t # NoTask /\ Unfinished(t) => e \in acked
      BY <1>1, <1>5, <2>2, <2>3, EndingFacts
    <3>2. UNCHANGED acked
      BY <1>3, <2>5, <3>1, IdleFields
    <3> QED BY <1>3, <1>6, <2>1, <2>4, <2>5, <3>2, QuietSafe, Nobody DEF Idle
  <2>6. CASE seg.op = "cancel" /\ ExecOf(seg.obj) = e
    <3>1. /\ row[e].status = "failed" /\ ~row[e].dead /\ mem[seg.obj].status = "failed"
          /\ ~Carried(e)
      BY <2>6 DEF Safe, Settled, Held
    <3>2. acked' = acked \union {e}
      BY <1>3, <2>6
    <3>3. \A u \in Task : ExecOf(u) = e => ~Live(u)' /\ (Taken(u)' <=> Taken(u))
      BY <2>4, <3>1 DEF Carried, Live, Unfinished, Taken
    <3>4. \A u \in Task : ExecOf(u) = e /\ Taken(u) => mem[task[u].obj].status \in {"completed", "failed"}
      <4> SUFFICES ASSUME NEW u \in Task, ExecOf(u) = e, Taken(u), NEW p, p = task[u].obj
                   PROVE  mem[p].status \in {"completed", "failed"}
        OBVIOUS
      <4>1. mem[p].status \in {"completed", "failed"} \/ seg.obj = p
        BY <3>1, LooseFacts
      <4> QED BY <3>1, <4>1
    <3>5. \A u, v \in Task : ExecOf(u) = e /\ ExecOf(v) = e /\ Taken(u)' /\ Taken(v)' => u = v
      BY <3>3 DEF Safe, Settled, OneTask
    <3>6. Touches(e)
      BY <1>3, <1>6, <2>1, <2>4, <3>2 DEF Touches
    <3>7. seg.at # "retrying"
      BY <2>6 DEF TypeInv, SegOK
    <3>8. Letter(e)'
      BY <1>3, <2>1, <3>1, <3>7 DEF Safe, Settled, Letter
    <3>9. Budget(e)'
      BY <1>3, <2>1 DEF Safe, Settled, Budget
    <3>10. Settled(e)'
      BY <1>6, <2>1, <2>4, <3>1, <3>2, <3>3, <3>4, <3>5, <3>8, <3>9, ClosedSettled
    <3> QED BY <1>6, <3>6, <3>10, OneStep
  <2> QED BY <1>4, <2>5, <2>6
<1> QED BY <1>8, <1>9
----------------------------------------------------------------------------
(* Reclaims and replays.  They wait for the loop to be drained, and so     *)
(* nothing that is over is still around.                                   *)

\* In a drained loop every slot in use holds a task that works.
LEMMA DrainedFacts ==
    ASSUME PromptLoop, TypeInv, Turn, Tick
    PROVE  seg = Idle /\ mode = "up" /\ \A t \in Task : Taken(t) => Live(t)
<1>1. task \in [Task -> TaskType]
  BY Types
<1> QED BY <1>1 DEF Turn, Tick, Drained, Taken, Live, Unfinished, TaskType, Pcs

\* A reclaim untracks the task, tells it to end and fails the row.
LEMMA ReclaimSafe ==
    ASSUME PromptLoop, TypeInv, TypeInv', Safe, NEW e \in Exec, Reclaim(e) PROVE Safe'
<1>1. seg = Idle /\ mode = "up" /\ (\A t \in Task : Taken(t) => Live(t)) /\ row[e].status = "running"
  BY DrainedFacts DEF Reclaim
<1>2. PICK t \in Task : ExecOf(t) = e /\ Live(t)
  <2>1. Carried(e)
    BY <1>1, Nobody DEF Safe, Settled, AtHand, Stranded, Open
  <2>2. ~Queued(e)
    BY <1>1, QueuedHere DEF Safe, Settled, EntryFits, Fits, QueuedMeans
  <2> QED BY <2>1, <2>2 DEF Carried
<1>3. PICK o \in Obj : o = task[t].obj
  BY <1>2, LiveFacts
<1>4. /\ ExecOf(o) = e /\ active[e] = t /\ ~Queued(e) /\ e \notin acked
      /\ mem[o].status = "running" /\ mem[o].retry = row[e].retry
      /\ \A u \in Task : ExecOf(u) = e /\ Taken(u) => u = t
  BY <1>1, <1>2, <1>3, LiveFacts
<1>5. PICK r \in 0..MaxRetries : r = mem[o].retry
  BY Types DEF ObjType
<1>6. t # NoTask
  BY Ids
<1>7. /\ active' = [active EXCEPT ![e] = NoTask] /\ CancelTask(t)
      /\ mem' = [mem EXCEPT ![o] = [status |-> "failed", retry |-> r, error |-> "timeout"]]
      /\ Failed(e, r, "timeout", r >= MaxRetries)
      /\ seg' = IF r >= MaxRetries THEN Idle ELSE Seg("reclaim", "retrying", o)
      /\ UNCHANGED <<queue, mode, starts, acked, replays, crashes>>
  BY <1>3, <1>4, <1>5, <1>6 DEF Reclaim, history
<1>8. /\ RowWritten(e) /\ row'[e].status = "failed" /\ row'[e].retry = r
      /\ row'[e].error = "timeout" /\ (row'[e].dead <=> r >= MaxRetries)
  <2>1. CASE r >= MaxRetries
    <3>1. Failed(e, r, "timeout", TRUE)
      BY <1>7, <2>1
    <3> QED BY <2>1, <3>1, FailedRow, Literals
  <2>2. CASE ~(r >= MaxRetries)
    <3>1. (r >= MaxRetries) = FALSE
      BY <2>2
    <3>2. Failed(e, r, "timeout", FALSE)
      BY <1>7, <3>1
    <3> QED BY <2>2, <3>2, FailedRow, Literals
  <2> QED BY <2>1, <2>2
<1>9. mem'[o].status = "failed" /\ mem'[o].retry = r /\ \A p \in Obj : p # o => mem'[p] = mem[p]
  BY <1>7, Types
<1>10. /\ \A u \in Task : u # t => task'[u] = task[u]
       /\ task'[t].cancelled /\ task'[t].obj = o
       /\ active'[e] = NoTask /\ \A f \in Exec : f # e => active'[f] = active[f]
  <2>1. /\ \A u \in Task : task'[u].obj = task[u].obj /\ (task'[u] # task[u] => u = t)
        /\ Unfinished(t) => task'[t].cancelled
    BY <1>6, <1>7, Types, CancelTaskFacts
  <2>2. active'[e] = NoTask /\ \A f \in Exec : f # e => active'[f] = active[f]
    BY <1>7, Types
  <2> QED BY <1>2, <1>3, <2>1, <2>2 DEF Live
<1>11. \A u \in Task : ExecOf(u) = e => ~Live(u)' /\ (Taken(u)' => u = t)
  BY <1>4, <1>10 DEF Live, Unfinished, Taken
<1>12. NoDuplicate' /\ Entries' = Entries /\ ~Queued(e)' /\ Fanning'
  <2>1. seg'.op \in {"idle", "reclaim"}
    BY <1>7, IdleFields DEF Seg
  <2> QED BY <1>4, <1>7, <2>1 DEF Safe, NoDuplicate, Entries, Queued, Fanning
<1>13. Budget(e)'
  BY <1>4, <1>5, <1>7, <1>8, Counts DEF Safe, Settled, Budget
<1>14. r \in Nat /\ MaxRetries \in Nat /\ r <= MaxRetries
  BY SchedulerAssumption
<1>15. CASE r >= MaxRetries
  <2>1. seg' = Idle /\ ExecOf(seg'.obj) = 0
    BY <1>7, <1>15, Nobody
  <2>2. Touches(e)
    BY <1>1, <1>2, <1>4, <1>7, <1>8, <1>9, <1>10, <1>12, <2>1, SegNobody DEF Touches, RowWritten
  <2>3. Letter(e)'
    BY <1>4, <1>7, <1>8, <1>14, <1>15 DEF Letter
  <2>4. Settled(e)'
    BY <1>6, <1>8, <1>9, <1>10, <1>11, <1>12, <1>13, <2>1, <2>3, ClosedSettled
  <2> QED BY <1>12, <2>2, <2>4, OneStep
<1>16. CASE ~(r >= MaxRetries)
  <2>1. seg'.op = "reclaim" /\ seg'.at = "retrying" /\ seg'.obj = o
    BY <1>7, <1>16 DEF Seg
  <2>2. Touches(e)
    BY <1>1, <1>2, <1>4, <1>7, <1>8, <1>9, <1>10, <1>12, <2>1, SegNobody DEF Touches, RowWritten
  <2>3. Settled(e)'
    <3>1. OneTask(e)' /\ TaskFits(e)'
      BY <1>11 DEF OneTask, TaskFits
    <3>2. EntryFits(e)'
      BY <1>12, QueuedNext DEF QueuedMeans, EntryFits
    <3>3. Ending(e)'
      BY <1>6, <1>9, <1>10, <1>11 DEF Ending, Open
    <3>4. Held(e)'
      BY <1>4, <1>7, <1>8, <1>9, <1>11, <1>12, <1>16, <2>1 DEF Held, Carried, Fits
    <3>5. AtHand(e)'
      BY <1>4, <2>1 DEF AtHand
    <3>6. Letter(e)'
      BY <1>4, <1>7, <1>8, <1>16, <2>1 DEF Letter
    <3> QED BY <1>13, <3>1, <3>2, <3>3, <3>4, <3>5, <3>6 DEF Settled
  <2> QED BY <1>12, <2>2, <2>3, OneStep
<1> QED BY <1>15, <1>16

\* An open row that nobody carries: it has been failed or called back, and
\* waits for the callback in progress to say so and to queue it.
LEMMA CalledBack ==
    ASSUME TypeInv, TypeInv', Safe, NEW o \in Obj, NEW e, e = ExecOf(o), ~Carried(e),
           ExecOf(seg.obj) \in {0, e}, \A p \in Obj : ExecOf(p) = e /\ p # o => seg.obj # p,
           RowWritten(e), row'[e].status = "retrying", ~row'[e].dead, e \notin acked,
           starts[e] <= row'[e].retry + replays'[e],
           mem'[o].status = "retrying", mem'[o].retry = row'[e].retry,
           \A p \in Obj : p # o => mem'[p] = mem[p],
           \A f \in Exec : f # e => replays'[f] = replays[f],
           seg'.op \in {"reclaim", "recover", "replay"}, seg'.at = "pending", seg'.obj = o,
           seg'.op = "replay" => active[e] = NoTask,
           UNCHANGED <<queue, task, active, mode, starts, acked, crashes>>
    PROVE  Safe'
<1>1. e \in Exec
  BY Ids
<1>2. /\ NoDuplicate' /\ Fanning' /\ Entries' = Entries /\ ~Queued(e)'
      /\ \A t \in Task : ExecOf(t) = e => ~Live(t) /\ ~Live(t)' /\ (Taken(t)' <=> Taken(t))
  BY DEF Safe, NoDuplicate, Fanning, Entries, Queued, Carried, Live, Unfinished, Taken
<1>3. Touches(e)
  BY <1>2 DEF Touches, RowWritten
<1>4. Settled(e)'
  <2>1. OneTask(e)' /\ TaskFits(e)'
    BY <1>1, <1>2 DEF Safe, Settled, OneTask, TaskFits
  <2>2. EntryFits(e)'
    BY <1>1, <1>2, QueuedNext DEF QueuedMeans, EntryFits
  <2>3. Ending(e)'
    <3> SUFFICES ASSUME NEW t \in Task, ExecOf(t) = e, Taken(t)', NEW p, p = task[t].obj
                 PROVE  /\ task[t].cancelled /\ active[e] = t => e \in acked
                        /\ mem'[p].status # "running"
                        /\ mem'[p].status \in Open => seg'.obj = p
      BY DEF Ending
    <3>1. /\ p \in Obj /\ ExecOf(p) = e
          /\ mem[p].status \in {"completed", "failed"} \/ seg.obj = p
          /\ task[t].cancelled /\ active[e] = t => e \in acked
      BY <1>1, <1>2, LooseFacts
    <3>2. CASE p = o
      BY <3>1, <3>2
    <3>3. CASE p # o
      BY <3>1, <3>3 DEF Open
    <3> QED BY <3>2, <3>3
  <2>4. Held(e)'
    BY <1>2 DEF Held, Fits, Carried
  <2>5. AtHand(e)'
    BY DEF AtHand
  <2>6. Letter(e)'
    BY DEF Letter
  <2>7. Budget(e)'
    <3>1. starts' = starts /\ row'[e].retry \in Nat /\ replays'[e] \in Nat /\ starts[e] \in Nat
      <4>1. row'[e] \in RowType /\ replays'[e] \in 0..MaxReplays /\ starts[e] \in Nat
        BY <1>1 DEF TypeInv, TypeOK
      <4> QED BY <4>1, SchedulerAssumption DEF RowType
    <3>2. starts'[e] <= row'[e].retry + replays'[e] /\ starts'[e] <= row'[e].retry + 1 + replays'[e]
      BY <3>1
    <3> QED BY <1>1, <3>2, SpentBudget
  <2> QED BY <2>1, <2>2, <2>3, <2>4, <2>5, <2>6, <2>7 DEF Settled
<1> QED BY <1>1, <1>2, <1>3, <1>4, OneStep

\* What a retry writes.
LEMMA RetryingRow ==
    ASSUME TypeInv, NEW e \in Exec, NEW r \in 0..MaxRetries, NEW x \in Errors,
           Retried(e, "retrying", r, x)
    PROVE  RowWritten(e) /\ row'[e].status = "retrying" /\ row'[e].retry = r /\ ~row'[e].dead
<1>1. RowWritten(e) /\ row'[e] = [status |-> "retrying", retry |-> r, error |-> x, dead |-> FALSE]
  BY Types, Literals, RetriedFacts
<1> QED BY <1>1

\* A reclaimed row is called back.
LEMMA ReclaimRetryingSafe == ASSUME TypeInv, TypeInv', Safe, ReclaimRetrying PROVE Safe'
<1>1. PICK o \in Obj : o = seg.obj
  BY DEF ReclaimRetrying, TypeInv, SegOK
<1>2. PICK e \in Exec : e = ExecOf(o)
  BY Ids
<1>3. /\ seg.op = "reclaim" /\ seg.at = "retrying"
      /\ mem' = [mem EXCEPT ![o].status = "retrying", ![o].retry = @ + 1]
      /\ Retried(e, "retrying", mem[o].retry + 1, "timeout")
      /\ seg' = Seg("reclaim", "pending", o)
      /\ UNCHANGED <<queue, task, active, mode, starts, acked, replays, crashes>>
  BY <1>1, <1>2 DEF ReclaimRetrying, history
<1>4. mem[o].retry < MaxRetries /\ mem[o].retry \in 0..MaxRetries /\ MaxRetries \in Nat
  BY <1>1, <1>3, Types, SchedulerAssumption DEF TypeInv, SegOK, ObjType
<1>5. PICK r \in 0..MaxRetries : r = mem[o].retry + 1
  BY <1>4
<1>6. /\ row[e].status = "failed" /\ e \notin acked /\ mem[o].retry = row[e].retry /\ ~Carried(e)
  BY <1>1, <1>2, <1>3 DEF Safe, Settled, Held, Fits
<1>7. RowWritten(e) /\ row'[e].status = "retrying" /\ row'[e].retry = r /\ ~row'[e].dead
  BY <1>3, <1>5, RetryingRow, Literals
<1>8. /\ mem'[o].status = "retrying" /\ mem'[o].retry = r
      /\ \A p \in Obj : p # o => mem'[p] = mem[p]
  BY <1>3, <1>5, Types DEF ObjType
<1>9. starts[e] <= row'[e].retry + replays'[e]
  <2>1. starts[e] <= row[e].retry + 1 + replays[e]
    BY DEF Safe, Settled, Budget
  <2>2. r = row[e].retry + 1 /\ replays' = replays
    BY <1>3, <1>5, <1>6
  <2> QED BY <1>7, <2>1, <2>2, Counts
<1>10. seg'.op = "reclaim" /\ seg'.at = "pending" /\ seg'.obj = o
  BY <1>3 DEF Seg
<1> QED BY <1>1, <1>2, <1>3, <1>6, <1>7, <1>8, <1>9, <1>10, CalledBack

\* A dead letter is called back.
LEMMA ReplaySafe ==
    ASSUME PromptLoop, TypeInv, TypeInv', Safe, NEW e \in Exec, Replay(e) PROVE Safe'
<1>1. seg = Idle /\ (\A t \in Task : Taken(t) => Live(t)) /\ row[e].dead
  BY DrainedFacts DEF Replay
<1>2. PICK o \in Obj : o = FreshObj(e)
  BY FreshObjFacts DEF Replay
<1>3. /\ HasFreshObj(e)
      /\ mem' = [mem EXCEPT ![o] = [status |-> "retrying", retry |-> row[e].retry, error |-> ""]]
      /\ Retried(e, "retrying", row[e].retry, "replay")
      /\ replays' = [replays EXCEPT ![e] = @ + 1]
      /\ seg' = Seg("replay", "pending", o)
      /\ UNCHANGED <<queue, task, active, mode, starts, acked, crashes>>
  BY <1>2 DEF Replay
<1>4. ExecOf(o) = e
  BY <1>2, <1>3, FreshObjFacts
<1>5. row[e].status = "failed" /\ e \notin acked
  BY <1>1 DEF Safe, Settled, Letter
<1>6. ~Queued(e)
  BY <1>5, QueuedHere DEF Safe, Settled, EntryFits, Fits, QueuedMeans
<1>7. \A t \in Task : ExecOf(t) = e => ~Live(t)
  BY <1>5, LiveFacts DEF Open
<1>8. ~Carried(e)
  BY <1>6, <1>7 DEF Carried
<1>9. active[e] = NoTask
  <2> SUFFICES ASSUME active[e] # NoTask PROVE FALSE
    OBVIOUS
  <2>1. active[e] \in Task
    BY Types
  <2>2. ExecOf(active[e]) = e /\ Taken(active[e])
    BY DEF TypeInv, ActiveOK, Taken
  <2> QED BY <1>1, <1>7, <2>1, <2>2
<1>10. PICK r \in 0..MaxRetries : r = row[e].retry
  BY Types DEF RowType
<1>11. RowWritten(e) /\ row'[e].status = "retrying" /\ row'[e].retry = r /\ ~row'[e].dead
  BY <1>3, <1>10, RetryingRow, Literals
<1>12. /\ mem'[o].status = "retrying" /\ mem'[o].retry = r
       /\ \A p \in Obj : p # o => mem'[p] = mem[p]
  BY <1>3, <1>10, Types
<1>13. replays'[e] = replays[e] + 1 /\ \A f \in Exec : f # e => replays'[f] = replays[f]
  <2>1. replays \in [Exec -> 0..MaxReplays]
    BY DEF TypeInv, TypeOK
  <2> QED BY <1>3, <2>1
<1>14. starts[e] <= row'[e].retry + replays'[e]
  <2>1. starts[e] <= row[e].retry + 1 + replays[e]
    BY DEF Safe, Settled, Budget
  <2> QED BY <1>10, <1>11, <1>13, <2>1, Counts
<1>15. seg'.op = "replay" /\ seg'.at = "pending" /\ seg'.obj = o
  BY <1>3 DEF Seg
<1>16. ExecOf(seg.obj) = 0 /\ \A p \in Obj : ExecOf(p) = e /\ p # o => seg.obj # p
  BY <1>1, Ids, Nobody DEF Idle
<1> QED BY <1>3, <1>4, <1>5, <1>8, <1>9, <1>11, <1>12, <1>13, <1>14, <1>15, <1>16, CalledBack
----------------------------------------------------------------------------
(* The scan of a restart.                                                  *)

\* No task runs while the scan does.
LEMMA BootFacts ==
    ASSUME TypeInv, mode = "boot"
    PROVE  \A t \in Task : ~Taken(t) /\ ~Live(t)
BY DEF TypeInv, BootOK, Taken, Live, Unfinished, FreeTask

\* The scan calls a running row back, or finds its budget spent.
LEMMA RecoverRunningSafe ==
    ASSUME TypeInv, TypeInv', Safe, NEW e \in Exec, RecoverRunning(e) PROVE Safe'
<1>1. /\ mode = "boot" /\ seg = Idle /\ row[e].status = "running"
      /\ UNCHANGED <<queue, task, active, mode, starts, acked, replays, crashes>>
  BY DEF RecoverRunning, IsRunning, history
<1>2. ~Queued(e) /\ e \notin acked
  BY <1>1 DEF TypeInv, BootOK, Queued, Safe, Settled, Letter
<1>3. PICK o \in Obj : o = FreshObj(e) /\ ExecOf(o) = e
  BY <1>1, <1>2, BootFresh
<1>4. \A t \in Task : ~Taken(t) /\ ~Live(t) /\ ~Taken(t)' /\ ~Live(t)'
  <2>1. \A t \in Task : ~Taken(t) /\ ~Live(t)
    BY <1>1, BootFacts
  <2> QED BY <1>1, <2>1 DEF Taken, Live, Unfinished
<1>5. ~Carried(e)
  BY <1>2, <1>4 DEF Carried
<1>6. row[e].retry \in 0..MaxRetries /\ MaxRetries \in Nat
  BY Types, SchedulerAssumption DEF RowType
<1>7. CASE row[e].retry < MaxRetries
  <2>1. PICK r \in 0..MaxRetries : r = row[e].retry + 1
    BY <1>6, <1>7
  <2>2. /\ mem' = [mem EXCEPT ![o] = [status |-> "retrying", retry |-> r, error |-> "interrupted"]]
        /\ Retried(e, "retrying", r, "interrupted")
        /\ seg' = Seg("recover", "pending", o)
    BY <1>3, <1>7, <2>1 DEF RecoverRunning, Charged
  <2>3. RowWritten(e) /\ row'[e].status = "retrying" /\ row'[e].retry = r /\ ~row'[e].dead
    BY <2>2, RetryingRow, Literals
  <2>4. /\ mem'[o].status = "retrying" /\ mem'[o].retry = r
        /\ \A p \in Obj : p # o => mem'[p] = mem[p]
    BY <2>2, Types
  <2>5. starts[e] <= row'[e].retry + replays'[e]
    <3>1. starts[e] <= row[e].retry + 1 + replays[e]
      BY DEF Safe, Settled, Budget
    <3> QED BY <1>1, <2>1, <2>3, <3>1, Counts
  <2>6. seg'.op = "recover" /\ seg'.at = "pending" /\ seg'.obj = o
    BY <2>2 DEF Seg
  <2>7. ExecOf(seg.obj) = 0 /\ \A p \in Obj : seg.obj # p
    BY <1>1, Ids, Nobody DEF Idle
  <2> QED BY <1>1, <1>2, <1>3, <1>5, <2>3, <2>4, <2>5, <2>6, <2>7, CalledBack
<1>8. CASE ~(row[e].retry < MaxRetries)
  <2>1. PICK r \in 0..MaxRetries : r = row[e].retry /\ r = MaxRetries
    BY <1>6, <1>8
  <2>2. Failed(e, r, "interrupted", TRUE) /\ UNCHANGED <<mem, seg>>
    BY <1>8, <2>1 DEF RecoverRunning
  <2>3. RowWritten(e) /\ row'[e].status = "failed" /\ row'[e].retry = r /\ row'[e].dead
    BY <2>2, FailedRow, Literals
  <2>4. /\ ~Queued(e)' /\ NoDuplicate' /\ Fanning' /\ ExecOf(seg'.obj) = 0 /\ ExecOf(seg.obj) = 0
        /\ Entries' = Entries
    BY <1>1, <1>2, <2>2, Nobody DEF Queued, Safe, NoDuplicate, Fanning, Entries
  <2>5. Touches(e)
    BY <1>1, <2>2, <2>3, <2>4 DEF Touches, RowWritten
  <2>6. Letter(e)'
    BY <1>1, <1>2, <2>1, <2>3 DEF Letter
  <2>7. Budget(e)'
    BY <1>1, <2>1, <2>3 DEF Safe, Settled, Budget
  <2>8. Settled(e)'
    BY <1>4, <2>3, <2>4, <2>6, <2>7, ClosedSettled
  <2> QED BY <2>4, <2>5, <2>8, OneStep
<1> QED BY <1>7, <1>8

\* The scan queues a waiting row.
LEMMA RecoverWaitingSafe ==
    ASSUME TypeInv, TypeInv', Safe, NEW e \in Exec, RecoverWaiting(e) PROVE Safe'
<1>1. /\ mode = "boot" /\ seg = Idle /\ ~Queued(e) /\ row[e].status \in {"pending", "retrying"}
      /\ UNCHANGED <<row, task, active, seg, mode, starts, acked, replays, crashes>>
  BY DEF RecoverWaiting, IsWaiting, durable, history
<1>2. PICK o \in Obj : o = FreshObj(e) /\ ExecOf(o) = e
  BY <1>1, BootFresh
<1>3. mem' = [mem EXCEPT ![o] = FromRow(e)] /\ queue' = Append(queue, o)
  BY <1>2 DEF RecoverWaiting
<1>4. \A t \in Task : ~Taken(t) /\ ~Live(t) /\ ~Taken(t)' /\ ~Live(t)'
  <2>1. \A t \in Task : ~Taken(t) /\ ~Live(t)
    BY <1>1, BootFacts
  <2> QED BY <1>1, <2>1 DEF Taken, Live, Unfinished
<1>5. NoDuplicate' /\ Entries' = Entries \union {o} /\ Queued(e)'
  BY <1>1, <1>2, <1>3, Appended
<1>6. /\ mem'[o].status = row[e].status /\ mem'[o].retry = row[e].retry
      /\ \A p \in Obj : p # o => mem'[p] = mem[p]
  BY <1>3, Types DEF FromRow
<1>7. ExecOf(seg.obj) = 0 /\ ExecOf(seg'.obj) = 0 /\ Fanning'
  BY <1>1, Nobody, IdleFields DEF Fanning
<1>8. Touches(e)
  BY <1>1, <1>2, <1>5, <1>6, <1>7 DEF Touches
<1>9. Settled(e)'
  <2>1. OneTask(e)' /\ TaskFits(e)' /\ Ending(e)'
    BY <1>4 DEF OneTask, TaskFits, Ending
  <2>2. EntryFits(e)'
    BY <1>1, <1>2, <1>5, <1>6, QueuedHere DEF QueuedMeans, EntryFits, Fits
  <2>3. Held(e)'
    BY <1>7, Nobody DEF Held
  <2>4. AtHand(e)'
    BY <1>5 DEF AtHand, Stranded, Carried
  <2>5. Letter(e)' /\ Budget(e)'
    BY <1>1 DEF Safe, Settled, Letter, Budget
  <2> QED BY <2>1, <2>2, <2>3, <2>4, <2>5 DEF Settled
<1> QED BY <1>5, <1>7, <1>8, <1>9, OneStep
----------------------------------------------------------------------------
(* The scheduling loop, and every step.                                    *)

\* The head of the queue gets a task.
LEMMA StartNextSafe == ASSUME PromptLoop, TypeInv, TypeInv', Safe, StartNext PROVE Safe'
<1>1. /\ seg = Idle /\ (\A t \in Task : Taken(t) => Live(t))
      /\ queue # <<>> /\ queue' = Tail(queue)
      /\ UNCHANGED <<row, mem, seg, mode, starts, acked, replays, crashes>>
  BY DrainedFacts DEF StartNext, durable, history
<1>2. PICK o : o = Head(queue)
  OBVIOUS
<1>3. o \in Entries /\ o \in Obj /\ NoDuplicate' /\ Entries' = Entries \ {o} /\ ~Queued(ExecOf(o))'
  BY <1>1, <1>2, HeadOut
<1>4. PICK e \in Exec : e = ExecOf(o)
  BY <1>3, Ids
<1>5. PICK s \in Slot :
          /\ task' = [task EXCEPT ![<<e, s>>] =
                         [pc |-> "created", obj |-> o, cancelled |-> FALSE]]
          /\ active' = [active EXCEPT ![e] = <<e, s>>]
  BY <1>2, <1>4 DEF StartNext
<1>6. PICK t \in Task : t = <<e, s>> /\ ExecOf(t) = e
  <2>1. <<e, s>> \in Task /\ ExecOf(<<e, s>>) = e
    BY DEF Task, ExecOf
  <2> QED BY <2>1
<1>7. /\ task'[t].pc = "created" /\ task'[t].obj = o /\ ~task'[t].cancelled
      /\ \A u \in Task : u # t => task'[u] = task[u]
  BY <1>5, <1>6, Types
<1>8. active'[e] = t /\ \A f \in Exec : f # e => active'[f] = active[f]
  BY <1>5, <1>6, Types
<1>9. Queued(e) /\ \A u \in Task : ExecOf(u) = e => ~Taken(u)
  <2>1. Queued(e)
    BY <1>3, <1>4, QueuedHere DEF QueuedMeans
  <2> QED BY <1>1, <2>1 DEF Safe, Settled, OneTask
<1>10. Fits(o) /\ mem[o].status \in {"pending", "retrying"}
  BY <1>3, <1>4 DEF Safe, Settled, EntryFits
<1>11. Live(t)' /\ \A u \in Task : ExecOf(u) = e /\ (Taken(u)' \/ Live(u)') => u = t
  BY <1>7, <1>9 DEF Live, Unfinished, Taken
<1>12. ExecOf(seg.obj) = 0 /\ ExecOf(seg'.obj) = 0 /\ Fanning'
  BY <1>1, Nobody, IdleFields DEF Fanning
<1>13. Touches(e)
  BY <1>1, <1>3, <1>4, <1>6, <1>7, <1>8, <1>12 DEF Touches
<1>14. Settled(e)'
  <2>1. OneTask(e)'
    BY <1>3, <1>4, <1>8, <1>11 DEF OneTask
  <2>2. EntryFits(e)'
    BY <1>3, <1>4, QueuedNext DEF QueuedMeans, EntryFits
  <2>3. TaskFits(e)'
    BY <1>1, <1>4, <1>7, <1>10, <1>11 DEF TaskFits, Fits
  <2>4. Ending(e)'
    BY <1>11 DEF Ending
  <2>5. Held(e)'
    BY <1>12, Nobody DEF Held
  <2>6. AtHand(e)'
    BY <1>6, <1>11 DEF AtHand, Stranded, Carried
  <2>7. Letter(e)' /\ Budget(e)'
    BY <1>1 DEF Safe, Settled, Letter, Budget
  <2> QED BY <2>1, <2>2, <2>3, <2>4, <2>5, <2>6, <2>7 DEF Settled
<1> QED BY <1>3, <1>12, <1>13, <1>14, OneStep

\* Every step keeps every execution settled.
LEMMA SafeStep == ASSUME PromptLoop, TypeInv, TypeInv', Safe, [Next]_vars PROVE Safe'
<1>1. CASE SchedulerStep
  BY <1>1, EnqueueOneSafe, RejectRequestSafe, RejectFailSafe, StartNextSafe,
     SegPendingSafe, DropSafe, ReclaimRetryingSafe, BootSafe,
     RecoverRunningSafe, RecoverWaitingSafe, RecoveredSafe DEF SchedulerStep
<1>2. ASSUME NEW t \in Task, TaskStep(t)
      PROVE  Safe'
  BY <1>2, BeginCancelledSafe, BeginSafe, NoHandlerSafe, HandlerOkSafe,
     HandlerFailsSafe, CancelDeliveredSafe, SleepOverSafe, ForgetSafe DEF TaskStep
<1>3. CASE Environment
  BY <1>3, EnqueueSafe, CancelQueuedSafe, CancelActiveSafe, LeaseAgesSafe,
     ReclaimSafe, ReplaySafe, CrashSafe DEF Environment
<1>4. CASE UNCHANGED vars
  BY <1>4, StutterSafe
<1> QED BY <1>1, <1>2, <1>3, <1>4 DEF Next

\* With a loop that drains its callbacks first, every execution is settled in
\* every reachable state: queue, tasks, _active, the objects and the row tell
\* one story, and the callback in progress is the one exception to it.
THEOREM SafeHolds == ASSUME PromptLoop PROVE Spec => []Safe
<1>1. Init => Safe
  BY InitSafe
<1>2. TypeInv /\ TypeInv' /\ Safe /\ [Next]_vars => Safe'
  BY SafeStep
<1> QED BY <1>1, <1>2, TypeInvariant, PTL DEF Spec
----------------------------------------------------------------------------
(* What follows from it.                                                   *)

\* Whoever carries an execution carries an open one.
LEMMA CarriedOpen ==
    ASSUME TypeInv, Safe, NEW e \in Exec, Carried(e)
    PROVE  row[e].status \in Open /\ e \notin acked
<1>1. CASE Queued(e)
  <2>1. PICK o \in Entries : ExecOf(o) = e
    BY <1>1, QueuedHere DEF QueuedMeans
  <2>2. row[e].status \in {"pending", "retrying"}
    BY <2>1 DEF Safe, Settled, EntryFits, Fits
  <2> QED BY <2>2 DEF Safe, Settled, Letter, Open
<1>2. ASSUME NEW t \in Task, ExecOf(t) = e, Live(t)
      PROVE  row[e].status \in Open /\ e \notin acked
  BY <1>2, LiveFacts
<1> QED BY <1>1, <1>2 DEF Carried

\* Every open execution is carried once: no two attempts of it run side by
\* side, and none is left behind in a row that nobody looks at.
THEOREM CarriedOnceCorrect == ASSUME PromptLoop PROVE Spec => []CarriedOnce
<1>1. ASSUME TypeInv, Safe PROVE CarriedOnce
  <2>1. \A t \in Task : Live(t) => Taken(t) /\ ExecOf(t) \in Exec
    BY Ids DEF Live, Unfinished, Taken
  <2>2. OneCarrier
    BY <1>1, <2>1 DEF Safe, Settled, OneTask, OneCarrier
  <2>3. NoStrandedRow
    <3> SUFFICES ASSUME Turn, NEW e \in Exec, row[e].status \in Open PROVE Carried(e)
      BY DEF NoStrandedRow
    <3> QED BY <1>1, Nobody DEF Turn, Safe, Settled, AtHand, Stranded
  <2> QED BY <2>2, <2>3 DEF CarriedOnce
<1> QED BY <1>1, SafeHolds, TypeInvariant, PTL

\* Every task that works is the one _active maps its id to.
THEOREM InFlightTrackedCorrect == ASSUME PromptLoop PROVE Spec => []InFlightTracked
<1>1. ASSUME Safe PROVE InFlightTracked
  BY <1>1, Ids DEF Safe, Settled, OneTask, InFlightTracked
<1> QED BY <1>1, SafeHolds, PTL

\* The retry budget is kept whatever crashes, lease reclaims and replays do,
\* and every failure is a dead letter with no way on or has another cause.
THEOREM BudgetIsKeptCorrect == ASSUME PromptLoop PROVE Spec => []BudgetIsKept
<1>1. ASSUME TypeInv, Safe PROVE BudgetIsKept
  <2>1. AttemptsBounded
    <3> SUFFICES ASSUME NEW e \in Exec PROVE starts[e] <= MaxRetries + 1 + replays[e]
      BY DEF AttemptsBounded
    <3>1. starts[e] <= row[e].retry + 1 + replays[e]
      BY <1>1 DEF Safe, Settled, Budget
    <3> QED BY <1>1, <3>1, Counts
  <2>2. DeadLetterIsTerminal
    <3> SUFFICES ASSUME NEW e \in Exec, row[e].dead
                 PROVE  /\ row[e].status = "failed"
                        /\ \/ row[e].retry = MaxRetries
                           \/ row[e].error \in {"no_handler", "queue_full"}
                        /\ Turn => ~Carried(e)
      BY DEF DeadLetterIsTerminal
    <3>1. /\ row[e].status = "failed"
          /\ row[e].retry = MaxRetries \/ row[e].error \in {"no_handler", "queue_full"}
      BY <1>1 DEF Safe, Settled, Letter
    <3>2. ~Carried(e)
      BY <1>1, <3>1, CarriedOpen DEF Open
    <3> QED BY <3>1, <3>2
  <2>3. SilentLossNeedsCrash
    <3> SUFFICES ASSUME Turn, NEW e \in Exec, row[e].status = "failed", ~row[e].dead
                 PROVE  \/ row[e].error \in {"cancelled", "queue_full"}
                        \/ row[e].error = "timeout" /\ crashes > 0
      BY DEF SilentLossNeedsCrash
    <3> QED BY <1>1, IdleFields DEF Turn, Safe, Settled, Letter
  <2> QED BY <2>1, <2>2, <2>3 DEF BudgetIsKept, FailuresAccounted
<1> QED BY <1>1, SafeHolds, TypeInvariant, PTL
----------------------------------------------------------------------------
(* Outcomes.                                                               *)

\* No step writes the row of an execution that has completed.
CompletedKept == \A e \in Exec : row[e].status = "completed" => row'[e] = row[e]

\* A projector writes one row.
LEMMA WritesOne ==
    ASSUME TypeInv, NEW e \in Exec, row[e].status # "completed",
           \E v : row' = [row EXCEPT ![e] = v]
    PROVE  CompletedKept
BY Types DEF CompletedKept

\* So does every projector, of a row that has not completed.
LEMMA Projected ==
    ASSUME TypeInv, NEW e \in Exec, row[e].status # "completed",
           \/ Requested(e) \/ Started(e) \/ Completed(e)
           \/ \E r, x, d : Failed(e, r, x, d)
           \/ \E s, r, x : Retried(e, s, r, x)
    PROVE  CompletedKept
<1>1. \E v : row' = [row EXCEPT ![e] = v]
  BY DEF Requested, Started, Completed, Failed, Retried
<1> QED BY <1>1, WritesOne

\* Tasks write rows that are open.
LEMMA TaskKeeps == ASSUME TypeInv, Safe, NEW t \in Task, TaskStep(t) PROVE CompletedKept
<1>1. PICK e \in Exec : e = ExecOf(t)
  BY Ids
<1>2. PICK o : o = task[t].obj
  OBVIOUS
<1>3. CASE Forget(t)
  BY <1>3 DEF Forget, durable, CompletedKept
<1>4. CASE CancelDelivered(t)
  <2>1. Taken(t) /\ ~Live(t)
    BY <1>4 DEF CancelDelivered, Taken, Live, Unfinished
  <2>2. mem[o].status # "running"
    BY <1>2, <2>1, EndingFacts
  <2>3. UNCHANGED row
    BY <1>2, <1>4, <2>2 DEF CancelDelivered
  <2> QED BY <2>3 DEF CompletedKept
<1>5. CASE \/ BeginCancelled(t) \/ Begin(t) \/ NoHandler(t) \/ HandlerOk(t)
           \/ HandlerFails(t) \/ SleepOver(t)
  <2>1. Live(t)
    BY <1>5 DEF BeginCancelled, Begin, NoHandler, HandlerOk, HandlerFails, SleepOver,
       FirstStep, Returning, Live, Unfinished
  <2>2. ExecOf(o) = e /\ row[e].status # "completed"
    BY <1>1, <1>2, <2>1, LiveFacts DEF Open
  <2>3. \/ Started(e) \/ Completed(e) \/ UNCHANGED row
        \/ \E r, x, d : Failed(e, r, x, d)
        \/ \E s, r, x : Retried(e, s, r, x)
    <3>1. CASE BeginCancelled(t)
      BY <1>2, <2>2, <3>1 DEF BeginCancelled, MarkCancelled
    <3>2. CASE Begin(t)
      BY <1>1, <3>2 DEF Begin
    <3>3. CASE NoHandler(t)
      BY <1>1, <3>3 DEF NoHandler
    <3>4. CASE HandlerOk(t)
      <4>1. UNCHANGED row \/ MarkCancelled(o) \/ Completed(e)
        BY <1>1, <1>2, <3>4 DEF HandlerOk
      <4> QED BY <2>2, <4>1 DEF MarkCancelled
    <3>5. CASE HandlerFails(t)
      BY <1>1, <1>2, <3>5 DEF HandlerFails
    <3>6. CASE SleepOver(t)
      BY <1>2, <2>2, <3>6 DEF SleepOver, Requeue
    <3> QED BY <1>5, <3>1, <3>2, <3>3, <3>4, <3>5, <3>6
  <2> QED BY <2>2, <2>3, Projected DEF CompletedKept
<1> QED BY <1>3, <1>4, <1>5 DEF TaskStep

\* So does the scheduler.
LEMMA SchedulerKeeps == ASSUME TypeInv, Safe, SchedulerStep PROVE CompletedKept
<1>1. ASSUME NEW e \in Exec, EnqueueOne(e) \/ RejectRequest(e)
      PROVE  CompletedKept
  BY <1>1, Projected DEF EnqueueOne, RejectRequest, NextExec
<1>2. CASE StartNext \/ Boot \/ Recovered \/ \E e \in Exec : RecoverWaiting(e)
  BY <1>2 DEF StartNext, Boot, Recovered, RecoverWaiting, durable, CompletedKept
<1>3. CASE RejectFail \/ SegPending \/ Drop \/ ReclaimRetrying
  <2>1. PICK e \in Exec : e = ExecOf(seg.obj)
    BY <1>3, Ids DEF RejectFail, SegPending, Drop, ReclaimRetrying, TypeInv, SegOK
  <2>2. row[e].status # "completed"
    BY <1>3, <2>1 DEF RejectFail, SegPending, Drop, ReclaimRetrying, Safe, Settled, Held
  <2>3. \/ \E r, x, d : Failed(e, r, x, d)
        \/ \E s, r, x : Retried(e, s, r, x)
    <3>1. CASE RejectFail
      BY <2>1, <3>1 DEF RejectFail
    <3>2. CASE SegPending
      BY <2>1, <3>2 DEF SegPending, Requeue
    <3>3. CASE Drop
      BY <2>1, <3>3 DEF Drop
    <3>4. CASE ReclaimRetrying
      BY <2>1, <3>4 DEF ReclaimRetrying
    <3> QED BY <1>3, <3>1, <3>2, <3>3, <3>4
  <2> QED BY <2>2, <2>3, Projected
<1>4. ASSUME NEW e \in Exec, RecoverRunning(e)
      PROVE  CompletedKept
  <2>1. row[e].status # "completed"
    BY <1>4 DEF RecoverRunning, IsRunning
  <2>2. \/ \E r, x, d : Failed(e, r, x, d)
        \/ \E s, r, x : Retried(e, s, r, x)
    BY <1>4 DEF RecoverRunning
  <2> QED BY <2>1, <2>2, Projected
<1> QED BY <1>1, <1>2, <1>3, <1>4 DEF SchedulerStep

\* So does a cancel.
LEMMA CancelKeeps ==
    ASSUME TypeInv, Safe, NEW e \in Exec, CancelQueued(e) \/ CancelActive(e)
    PROVE  CompletedKept
<1>1. CASE CancelQueued(e)
  <2>1. Queued(e) /\ MarkCancelled(queue[FirstOf(queue, e)])
    BY <1>1 DEF CancelQueued
  <2>2. ExecOf(queue[FirstOf(queue, e)]) = e
    BY <2>1, FirstOfFacts, Types
  <2>3. row[e].status # "completed"
    BY <2>1, CarriedOpen DEF Carried, Open
  <2>4. \E r, x, d : Failed(e, r, x, d)
    BY <2>1, <2>2 DEF MarkCancelled
  <2> QED BY <2>3, <2>4, Projected
<1>2. CASE CancelActive(e)
  <2>1. PICK t \in Task \union {NoTask} : t = active[e]
    BY Types
  <2>2. PICK o : o = task[t].obj
    OBVIOUS
  <2>3. /\ CancelTurn(e) /\ ~Queued(e)
        /\ IF t # NoTask /\ MarksFirst(o) THEN MarkCancelled(o) ELSE UNCHANGED <<mem, row>>
    BY <1>2, <2>1, <2>2 DEF CancelActive
  <2>4. CASE t # NoTask /\ MarksFirst(o)
    <3>1. t \in Task /\ ExecOf(t) = e /\ Taken(t)
      BY <2>1, <2>4 DEF TypeInv, ActiveOK, Taken
    <3>2. seg = Idle \/ (seg.op = "cancel" /\ ExecOf(seg.obj) = e)
      BY <2>3 DEF CancelTurn, Turn
    <3>3. Live(t)
      BY <2>2, <2>3, <2>4, <3>1, <3>2, OpenMeansLive DEF MarksFirst
    <3>4. row[e].status # "completed" /\ ExecOf(o) = e
      BY <2>2, <3>1, <3>3, LiveFacts DEF Open
    <3>5. \E r, x, d : Failed(e, r, x, d)
      BY <2>3, <2>4, <3>4 DEF MarkCancelled
    <3> QED BY <3>4, <3>5, Projected
  <2>5. CASE ~(t # NoTask /\ MarksFirst(o))
    BY <2>3, <2>5 DEF CompletedKept
  <2> QED BY <2>4, <2>5
<1> QED BY <1>1, <1>2

\* No step writes a completed row.
LEMMA CompletedStep == ASSUME TypeInv, Safe, [Next]_vars PROVE CompletedKept
<1>1. ASSUME NEW e \in Exec, Reclaim(e) \/ Replay(e)
      PROVE  CompletedKept
  <2>1. row[e].status # "completed"
    <3>1. CASE Reclaim(e)
      BY <3>1 DEF Reclaim
    <3>2. CASE Replay(e)
      BY <3>2 DEF Replay, Safe, Settled, Letter
    <3> QED BY <1>1, <3>1, <3>2
  <2>2. \/ UNCHANGED row
        \/ \E r, x, d : Failed(e, r, x, d)
        \/ \E s, r, x : Retried(e, s, r, x)
    <3>1. CASE Reclaim(e)
      BY <3>1 DEF Reclaim
    <3>2. CASE Replay(e)
      BY <3>2 DEF Replay
    <3> QED BY <1>1, <3>1, <3>2
  <2> QED BY <2>1, <2>2, Projected DEF CompletedKept
<1>2. CASE \/ UNCHANGED vars \/ Crash \/ \E n \in 1..Fanout : Enqueue(n)
           \/ \E e \in Exec : LeaseAges(e)
  BY <1>2 DEF vars, durable, Crash, Enqueue, LeaseAges, CompletedKept
<1> QED BY <1>1, <1>2, TaskKeeps, SchedulerKeeps, CancelKeeps DEF Next, Environment

\* What was acknowledged or has completed is final: no task, recovery or
\* reclaim that is still on its way rewrites it.
THEOREM OutcomeIsFinalCorrect == ASSUME PromptLoop PROVE Spec => OutcomeIsFinal
<1>1. ASSUME TypeInv, Safe PROVE CancelIsFinal
  <2> SUFFICES ASSUME NEW e \in acked
               PROVE  row[e].status = "failed" /\ ~row[e].dead /\ ~Carried(e)
    BY DEF CancelIsFinal
  <2>1. e \in Exec
    BY <1>1 DEF TypeInv, TypeOK
  <2>2. row[e].status = "failed" /\ ~row[e].dead
    BY <1>1, <2>1 DEF Safe, Settled, Letter
  <2>3. ~Carried(e)
    BY <1>1, <2>1, CarriedOpen
  <2> QED BY <2>2, <2>3
<1>2. TypeInv /\ Safe => CancelIsFinal
  BY <1>1
<1>3. TypeInv /\ Safe /\ [Next]_vars =>
          \A e \in Exec : row[e].status = "completed" => row'[e] = row[e]
  BY CompletedStep DEF CompletedKept
<1> QED BY <1>2, <1>3, SafeHolds, TypeInvariant, PTL DEF Spec, OutcomeIsFinal
=============================================================================
