----------------------------- MODULE Scheduler -----------------------------
(***************************************************************************)
(* Lane A of the runtime: the scheduler that runs one handler for one      *)
(* event as a durable ScheduledExecution (agent_scheduler.py,              *)
(* scheduled_execution.py, execution_events.py,                            *)
(* kernel/projectors_execution.py, kernel/execution_repository.py).        *)
(*                                                                         *)
(* Everything runs on one asyncio loop, so an action of this module is the *)
(* code between two points where something else can happen: an await, or   *)
(* the commit of one emitted event (the process may die after any commit). *)
(* A synchronous callback that commits several events is a chain of        *)
(* actions joined by the variable seg, which holds every other callback    *)
(* off until the chain ends; only Crash can cut it.                        *)
(*                                                                         *)
(* ScheduledExecution objects live in a heap (mem) apart from their row,   *)
(* because two tasks, or a task and the queue, may share one object, and   *)
(* because a lease reclaim may load a second object for the same row.      *)
(***************************************************************************)
EXTENDS Naturals, Sequences, FiniteSets

CONSTANTS
    N,              \* executions 1..N, numbered in the order of created_at
    Copy,           \* objects one execution may have in memory at once
    Slot,           \* tasks one execution may have at once
    MaxRetries,     \* ExecutionPolicy.max_retries
    MaxPending,     \* settings.scheduler_max_pending
    MaxConcurrent,  \* settings.scheduler_max_concurrent
    Fanout,         \* most handlers registered for one event type
    MaxCrashes,     \* bound: process deaths
    MaxReplays,     \* bound: operator replays of one execution
    PromptLoop      \* the loop drains its callbacks before the next tick

ASSUME SchedulerAssumption ==
    /\ N \in Nat \ {0}
    /\ Copy # {} /\ Slot # {}
    /\ MaxRetries \in Nat
    /\ MaxPending \in Nat \ {0}
    /\ MaxConcurrent \in Nat \ {0}
    /\ Fanout \in Nat \ {0}
    /\ MaxCrashes \in Nat
    /\ MaxReplays \in Nat
    /\ PromptLoop \in BOOLEAN

VARIABLES
    row,        \* handler_executions: the durable projection
    lease,      \* age of row.started_at against running_lease_ttl_seconds
    mem,        \* the ScheduledExecution objects in memory
    queue,      \* Scheduler._pending, a list of objects
    task,       \* the asyncio tasks running _process_work_item
    active,     \* Scheduler._active, by execution id
    flags,      \* _cancelled_executions
    seg,        \* the synchronous callback in progress between two commits
    mode,       \* "up", "down", or "boot" while _recover runs
    attempt,    \* history: age of the attempt that is running
    starts,     \* history: attempts started
    acked,      \* history: cancels the scheduler answered with True
    replays,    \* history: operator replays
    crashes     \* history: process deaths

durable == <<row, lease>>
memory  == <<mem, queue, task, active, flags>>
history == <<attempt, starts, acked, replays, crashes>>
vars    == <<durable, memory, seg, mode, history>>
----------------------------------------------------------------------------
Exec == 1..N
Obj  == Exec \X Copy
Task == Exec \X Slot

NoTask == <<0, 0>>
NoObj  == <<0, 0>>

ExecOf(x) == x[1]

Open   == {"pending", "running", "retrying"}
Status == Open \union {"completed", "failed"}
RowStatus == Status \union {"absent"}

Errors == {"", "error", "timeout", "interrupted", "cancelled",
           "queue_full", "no_handler", "replay"}

RowType == [status : RowStatus, retry : 0..MaxRetries,
            error : Errors, dead : BOOLEAN]
ObjType == [status : Status, retry : 0..MaxRetries, error : Errors]
Ages    == {"none", "fresh", "stale"}

(***************************************************************************)
(* A free task slot; a task is "created" until its first step, then in its *)
(* handler or in the retry delay, then "done" until its done callback has  *)
(* run.  cancelled: task.cancel() was called and is not delivered yet.     *)
(***************************************************************************)
Pcs      == {"none", "created", "handler", "sleep", "done"}
TaskType == [pc : Pcs, obj : Obj \union {NoObj}, cancelled : BOOLEAN]
FreeTask == [pc |-> "none", obj |-> NoObj, cancelled |-> FALSE]

(***************************************************************************)
(* The callback in progress: op says which one, at the next thing it does, *)
(* obj the object it works on, left the handlers still to fan out to.      *)
(***************************************************************************)
Ops == {"idle", "enqueue", "reject", "begin", "cancel",
        "sleep", "reclaim", "recover", "replay"}
Ats == {"", "request", "fail", "retrying", "pending", "drop"}
SegType == [op : Ops, at : Ats, obj : Obj \union {NoObj}, left : 0..Fanout]
Idle == [op |-> "idle", at |-> "", obj |-> NoObj, left |-> 0]
Seg(op, at, o) == [op |-> op, at |-> at, obj |-> o, left |-> 0]

TypeOK ==
    /\ row \in [Exec -> RowType]
    /\ lease \in [Exec -> Ages]
    /\ mem \in [Obj -> ObjType]
    /\ queue \in Seq(Obj)
    /\ task \in [Task -> TaskType]
    /\ active \in [Exec -> Task \union {NoTask}]
    /\ flags \in SUBSET Exec
    /\ seg \in SegType
    /\ mode \in {"up", "down", "boot"}
    /\ attempt \in [Exec -> Ages]
    /\ starts \in [Exec -> Nat]
    /\ acked \in SUBSET Exec
    /\ replays \in [Exec -> 0..MaxReplays]
    /\ crashes \in 0..MaxCrashes
----------------------------------------------------------------------------
(* What the projectors write for each Execution* event.                    *)
(*                                                                         *)
(* A definition whose name starts with Bug is a seeded fault: the code     *)
(* with one slip in it.  No action uses it; put in the place of the        *)
(* definition that follows it, it must break a property.                   *)

Requested(e) ==
    row' = [row EXCEPT ![e] = [status |-> "pending", retry |-> 0,
                               error |-> "", dead |-> FALSE]]
Started(e) ==
    row' = [row EXCEPT ![e].status = "running", ![e].dead = FALSE]
Retried(e, status, retry, reason) ==
    row' = [row EXCEPT ![e] = [status |-> status, retry |-> retry,
                               error |-> reason, dead |-> FALSE]]
Completed(e) ==
    row' = [row EXCEPT ![e].status = "completed", ![e].error = "",
                       ![e].dead = FALSE]
BugFailedNoLetter(e, retry, error, dead) ==
    row' = [row EXCEPT ![e] = [status |-> "failed", retry |-> retry,
                               error |-> error, dead |-> FALSE]]
Failed(e, retry, error, dead) ==
    row' = [row EXCEPT ![e] = [status |-> "failed", retry |-> retry,
                               error |-> error, dead |-> dead]]
----------------------------------------------------------------------------
(* Reading the in-memory state.                                            *)

BugRoom == Len(queue) <= MaxPending
Room == Len(queue) < MaxPending

BugCanRetry(o) == mem[o].retry <= MaxRetries
CanRetry(o) == mem[o].retry < MaxRetries

InQueue(o)   == \E i \in DOMAIN queue : queue[i] = o
Queued(e)    == \E i \in DOMAIN queue : ExecOf(queue[i]) = e
Unfinished(t) == task[t].pc \in {"created", "handler", "sleep"}
Referenced(o) == InQueue(o) \/ (\E t \in Task : task[t].obj = o)

\* A ScheduledExecution.from_row object: a heap cell nothing refers to.
FreshObj(e) == <<e, CHOOSE c \in Copy : ~Referenced(<<e, c>>)>>
HasFreshObj(e) == \E c \in Copy : ~Referenced(<<e, c>>)
FromRow(e) == [status |-> row[e].status, retry |-> row[e].retry,
               error |-> row[e].error]

\* len(self._active): finished tasks count until their callback has run.
ActiveCount == Cardinality({e \in Exec : active[e] # NoTask})

\* No done callback and no cancellation is still waiting in the loop.
Drained == \A t \in Task : task[t].pc # "done" /\ ~task[t].cancelled

\* The timer-driven callbacks run when the loop has nothing older to do,
\* unless PromptLoop is off and timers may fall into the same iteration.
Tick == PromptLoop => Drained

\* A callback may start: the process is up and none is in progress.
Turn == mode = "up" /\ seg = Idle

RemoveAt(q, k) == [i \in 1..(Len(q) - 1) |-> IF i < k THEN q[i] ELSE q[i + 1]]
FirstOf(q, e) == CHOOSE k \in DOMAIN q :
                     /\ ExecOf(q[k]) = e
                     /\ \A j \in 1..(k - 1) : ExecOf(q[j]) # e

EndTask(t) == task' = [task EXCEPT ![t].pc = "done", ![t].cancelled = FALSE]

\* task.cancel(), unless there is no task or it has ended.
BugCancelTask(t) == task' = task
CancelTask(t) ==
    task' = IF t # NoTask /\ Unfinished(t)
            THEN [task EXCEPT ![t].cancelled = TRUE] ELSE task
----------------------------------------------------------------------------
(* enqueue: one execution per registered handler, all or none.             *)

\* The next id: objects are numbered as they are created.
NextExec(e) ==
    /\ row[e].status = "absent"
    /\ \A f \in 1..(e - 1) : row[f].status # "absent"

Enqueue(n) ==
    /\ Turn
    /\ \E e \in Exec : NextExec(e) /\ e + n - 1 \in Exec
    /\ seg' = [op   |-> IF Len(queue) + n > MaxPending THEN "reject"
                                                        ELSE "enqueue",
               at   |-> "request", obj |-> NoObj, left |-> n]
    /\ UNCHANGED <<durable, memory, mode, history>>

\* After its last handler the fan-out loop is over.
NextHandler ==
    IF seg.left = 1 THEN Idle
    ELSE [seg EXCEPT !.at = "request", !.obj = NoObj, !.left = @ - 1]

EnqueueOne(e) ==
    /\ mode = "up" /\ seg.op = "enqueue"
    /\ NextExec(e)
    /\ LET o == FreshObj(e) IN
         /\ mem' = [mem EXCEPT ![o] = [status |-> "pending", retry |-> 0,
                                       error |-> ""]]
         /\ queue' = Append(queue, o)
    /\ Requested(e)
    /\ seg' = NextHandler
    /\ UNCHANGED <<lease, task, active, flags, mode, history>>

RejectRequest(e) ==
    /\ mode = "up" /\ seg.op = "reject" /\ seg.at = "request"
    /\ NextExec(e)
    /\ Requested(e)
    /\ seg' = [seg EXCEPT !.at = "fail", !.obj = FreshObj(e)]
    /\ UNCHANGED <<lease, memory, mode, history>>

RejectFail ==
    /\ mode = "up" /\ seg.op = "reject" /\ seg.at = "fail"
    /\ Failed(ExecOf(seg.obj), 0, "queue_full", FALSE)
    /\ seg' = NextHandler
    /\ UNCHANGED <<lease, memory, mode, history>>
----------------------------------------------------------------------------
(* The scheduling loop and the done callback.                              *)

StartNext ==
    /\ Turn /\ Tick
    /\ queue # <<>>
    /\ ActiveCount < MaxConcurrent
    /\ LET o == Head(queue)
           e == ExecOf(o)
       IN \E s \in Slot :
            /\ task[<<e, s>>].pc = "none"
            /\ task' = [task EXCEPT ![<<e, s>>] =
                            [pc |-> "created", obj |-> o, cancelled |-> FALSE]]
            /\ active' = [active EXCEPT ![e] = <<e, s>>]
    /\ queue' = Tail(queue)
    /\ UNCHANGED <<durable, mem, flags, seg, mode, history>>

\* _forget_active pops whatever task the id maps to by then.
Forget(t) ==
    /\ Turn
    /\ task[t].pc = "done"
    /\ active' = [active EXCEPT ![ExecOf(t)] = NoTask]
    /\ task' = [task EXCEPT ![t] = FreeTask]
    /\ UNCHANGED <<durable, mem, queue, flags, seg, mode, history>>
----------------------------------------------------------------------------
(* _process_work_item.                                                     *)

\* The task's first step; the done callback of an earlier task of the same
\* execution was scheduled before it and so runs before it.
FirstStep(t) ==
    /\ Turn
    /\ task[t].pc = "created" /\ ~task[t].cancelled
    /\ \A u \in Task : ExecOf(u) = ExecOf(t) => task[u].pc # "done"

MarkCancelled(o) ==
    /\ mem' = [mem EXCEPT ![o].status = "failed", ![o].error = "cancelled"]
    /\ Failed(ExecOf(o), mem[o].retry, "cancelled", FALSE)

BeginCancelled(t) ==
    LET o == task[t].obj IN
    /\ FirstStep(t)
    /\ ExecOf(t) \in flags
    /\ mem[o].status # "completed"
    /\ MarkCancelled(o)
    /\ flags' = flags \ {ExecOf(t)}
    /\ EndTask(t)
    /\ UNCHANGED <<lease, queue, active, seg, mode, history>>

Begin(t) ==
    LET e == ExecOf(t)
        o == task[t].obj
    IN
    /\ FirstStep(t)
    /\ e \notin flags
    /\ mem[o].status \in {"pending", "retrying"}
    /\ mem' = [mem EXCEPT ![o].status = "running"]
    /\ Started(e)
    /\ lease' = [lease EXCEPT ![e] = IF @ = "none" THEN "fresh" ELSE @]
    /\ attempt' = [attempt EXCEPT ![e] = "fresh"]
    /\ starts' = [starts EXCEPT ![e] = @ + 1]
    /\ task' = [task EXCEPT ![t].pc = "handler"]
    /\ \/ seg' = seg
       \/ seg' = Seg("begin", "fail", o)
    /\ UNCHANGED <<queue, active, flags, mode, acked, replays, crashes>>

\* The task is past its first step and nobody has cancelled it.
Returning(t) == task[t].pc = "handler" /\ ~task[t].cancelled

\* Neither the event nor a handler of that name exists any more.
NoHandler(t) ==
    /\ mode = "up" /\ seg.op = "begin"
    /\ task[t].obj = seg.obj /\ Returning(t)
    /\ mem' = [mem EXCEPT ![seg.obj].status = "failed",
                          ![seg.obj].error = "no_handler"]
    /\ Failed(ExecOf(t), mem[seg.obj].retry, "no_handler", TRUE)
    /\ EndTask(t)
    /\ seg' = Idle
    /\ UNCHANGED <<lease, queue, active, flags, mode, history>>

HandlerOk(t) ==
    LET e == ExecOf(t)
        o == task[t].obj
    IN
    /\ Turn /\ Returning(t)
    /\ \/ /\ mem[o].status = "failed"
          /\ UNCHANGED <<mem, row, flags>>
       \/ /\ mem[o].status = "running"
          /\ e \in flags
          /\ MarkCancelled(o)
          /\ flags' = flags \ {e}
       \/ /\ mem[o].status = "running"
          /\ e \notin flags
          /\ mem' = [mem EXCEPT ![o].status = "completed", ![o].error = ""]
          /\ Completed(e)
          /\ UNCHANGED flags
    /\ EndTask(t)
    /\ UNCHANGED <<lease, queue, active, seg, mode, history>>

\* The handler raises or times out: _maybe_retry up to its sleep.
HandlerFails(t) ==
    LET e == ExecOf(t)
        o == task[t].obj
    IN
    /\ Turn /\ Returning(t)
    /\ \/ /\ CanRetry(o)
          /\ mem' = [mem EXCEPT ![o] = [status |-> "retrying",
                                        retry |-> @.retry + 1,
                                        error |-> "error"]]
          /\ Retried(e, "retrying", mem[o].retry + 1, "error")
          /\ task' = [task EXCEPT ![t].pc = "sleep"]
       \/ /\ ~CanRetry(o) /\ mem[o].status = "running"
          /\ mem' = [mem EXCEPT ![o].status = "failed", ![o].error = "error"]
          /\ Failed(e, mem[o].retry, "error", TRUE)
          /\ EndTask(t)
       \/ /\ ~CanRetry(o) /\ mem[o].status = "failed"
          /\ mem' = [mem EXCEPT ![o].error = "error"]
          /\ EndTask(t)
          /\ UNCHANGED row
    /\ UNCHANGED <<lease, queue, active, flags, seg, mode, history>>

\* asyncio throws CancelledError into the task.  Before its first step the
\* body never runs, and in the retry delay no except clause is active.
CancelDelivered(t) ==
    LET e == ExecOf(t)
        o == task[t].obj
    IN
    /\ Turn
    /\ Unfinished(t) /\ task[t].cancelled
    /\ \/ /\ task[t].pc \in {"created", "sleep"}
          /\ UNCHANGED <<mem, row, flags>>
       \/ /\ task[t].pc = "handler"
          /\ flags' = flags \ {e}
          /\ IF mem[o].status = "running"
             THEN MarkCancelled(o)
             ELSE /\ mem' = IF mem[o].status = "failed" THEN mem
                            ELSE [mem EXCEPT ![o].error = "cancelled"]
                  /\ UNCHANGED row
    /\ EndTask(t)
    /\ UNCHANGED <<lease, queue, active, seg, mode, history>>
----------------------------------------------------------------------------
(* Going back to the queue: after the retry delay, a lease reclaim, a      *)
(* restart or an operator replay.                                          *)

\* The retry delay and a reclaim respect the cap, a restart ignores it, and
\* a replay appends by force unless the execution is tracked already.
Requeue(o, op) ==
    LET e == ExecOf(o) IN
    /\ mem' = [mem EXCEPT ![o].status = "pending"]
    /\ Retried(e, "pending", mem[o].retry,
               IF op = "replay" THEN "replay" ELSE mem[o].error)
    /\ \/ /\ op \in {"sleep", "reclaim"} /\ ~Room
          /\ seg' = Seg(op, "drop", o)
          /\ UNCHANGED queue
       \/ /\ op \in {"sleep", "reclaim"} => Room
          /\ seg' = Idle
          /\ queue' = IF op = "replay" /\ (active[e] # NoTask \/ Queued(e))
                      THEN queue ELSE Append(queue, o)

SleepOver(t) ==
    LET o == task[t].obj IN
    /\ Turn
    /\ task[t].pc = "sleep" /\ ~task[t].cancelled
    /\ Requeue(o, "sleep")
    /\ IF Room THEN EndTask(t) ELSE UNCHANGED task
    /\ UNCHANGED <<lease, active, flags, mode, history>>

SegPending ==
    /\ seg.at = "pending"
    /\ Requeue(seg.obj, seg.op)
    /\ UNCHANGED <<lease, task, active, flags, mode, history>>

\* The queue was full: a retry is no dead letter, a reclaimed lease is one.
Drop ==
    LET o == seg.obj IN
    /\ seg.at = "drop"
    /\ mem' = [mem EXCEPT ![o].status = "failed", ![o].error = "queue_full"]
    /\ Failed(ExecOf(o), mem[o].retry, "queue_full", seg.op = "reclaim")
    /\ IF seg.op = "sleep"
       THEN \E t \in Task : task[t].pc = "sleep" /\ task[t].obj = o
                            /\ ~task[t].cancelled /\ EndTask(t)
       ELSE UNCHANGED task
    /\ seg' = Idle
    /\ UNCHANGED <<lease, queue, active, flags, mode, history>>
----------------------------------------------------------------------------
(* request_cancel: first every queued object of the execution, then the    *)
(* task that _active maps it to.                                           *)

Cancellable(e) == row[e].status \in Open \/ Queued(e) \/ active[e] # NoTask

CancelTurn(e) ==
    \/ Turn /\ Cancellable(e)
    \/ mode = "up" /\ seg.op = "cancel" /\ ExecOf(seg.obj) = e

CancelQueued(e) ==
    /\ CancelTurn(e)
    /\ Queued(e)
    /\ flags' = flags \union {e}
    /\ LET k == FirstOf(queue, e)
           o == queue[k]
       IN /\ MarkCancelled(o)
          /\ queue' = RemoveAt(queue, k)
          /\ seg' = Seg("cancel", "", o)
    /\ UNCHANGED <<lease, task, active, mode, history>>

\* The durable cancel comes first, but not over a finished execution.
BugMarksNever(o) == FALSE
BugMarksAlways(o) == TRUE
MarksFirst(o) == mem[o].status \in Open

CancelActive(e) ==
    LET t    == active[e]
        o    == task[t].obj
        live == t # NoTask /\ Unfinished(t)
    IN
    /\ CancelTurn(e)
    /\ ~Queued(e)
    /\ flags' = flags \union {e}
    /\ IF t # NoTask /\ MarksFirst(o)
       THEN MarkCancelled(o)
       ELSE UNCHANGED <<mem, row>>
    /\ CancelTask(t)
    /\ acked' = IF live \/ seg.op = "cancel" THEN acked \union {e} ELSE acked
    /\ seg' = Idle
    /\ UNCHANGED <<lease, queue, active, mode, attempt, starts, replays, crashes>>
----------------------------------------------------------------------------
(* reclaim_stale_leases, one row of its scan.                              *)

\* Time passes the TTL.  started_at is stamped by the first attempt only,
\* so a later attempt may be younger than the row's lease.
LeaseAges(e) ==
    /\ mode = "up" /\ seg = Idle
    /\ row[e].status = "running"
    /\ attempt[e] = "fresh"
    /\ lease' = [lease EXCEPT ![e] = "stale"]
    /\ \/ attempt' = [attempt EXCEPT ![e] = "stale"]
       \/ /\ starts[e] > 1 /\ lease[e] = "fresh"
          /\ UNCHANGED attempt
    /\ UNCHANGED <<row, memory, seg, mode, starts, acked, replays, crashes>>

Reclaim(e) ==
    LET t == active[e]
        o == IF t # NoTask THEN task[t].obj ELSE FreshObj(e)
        status == IF t # NoTask THEN mem[o].status ELSE "running"
        retry  == IF t # NoTask THEN mem[o].retry ELSE row[e].retry
        dead   == retry >= MaxRetries
    IN
    /\ Turn /\ Tick
    /\ row[e].status = "running" /\ lease[e] = "stale"
    /\ t # NoTask \/ HasFreshObj(e)
    /\ active' = [active EXCEPT ![e] = NoTask]
    /\ CancelTask(t)
    /\ IF status = "running"
       THEN /\ mem' = [mem EXCEPT ![o] = [status |-> "failed",
                                          retry  |-> retry,
                                          error  |-> "timeout"]]
            /\ Failed(e, retry, "timeout", dead)
            /\ seg' = IF dead THEN Idle ELSE Seg("reclaim", "retrying", o)
       ELSE UNCHANGED <<mem, row, seg>>
    /\ UNCHANGED <<lease, queue, flags, mode, history>>

ReclaimRetrying ==
    LET o == seg.obj IN
    /\ seg.op = "reclaim" /\ seg.at = "retrying"
    /\ mem' = [mem EXCEPT ![o].status = "retrying", ![o].retry = @ + 1]
    /\ Retried(ExecOf(o), "retrying", mem[o].retry + 1, "timeout")
    /\ seg' = Seg("reclaim", "pending", o)
    /\ UNCHANGED <<lease, queue, task, active, flags, mode, history>>
----------------------------------------------------------------------------
(* replay_dead_letters, one row (limit = 1) with a live scheduler.         *)

Replay(e) ==
    LET o == FreshObj(e) IN
    /\ Turn /\ Tick
    /\ row[e].dead
    /\ replays[e] < MaxReplays
    /\ HasFreshObj(e)
    /\ mem' = [mem EXCEPT ![o] = [status |-> "retrying",
                                  retry  |-> row[e].retry,
                                  error  |-> ""]]
    /\ Retried(e, "retrying", row[e].retry, "replay")
    /\ replays' = [replays EXCEPT ![e] = @ + 1]
    /\ seg' = Seg("replay", "pending", o)
    /\ UNCHANGED <<lease, queue, task, active, flags, mode,
                   attempt, starts, acked, crashes>>
----------------------------------------------------------------------------
(* The process dies and comes back; _recover runs before anything else.    *)

Crash ==
    /\ mode # "down"
    /\ crashes < MaxCrashes
    /\ crashes' = crashes + 1
    /\ mode' = "down"
    /\ mem' = [o \in Obj |-> [status |-> "pending", retry |-> 0, error |-> ""]]
    /\ queue' = <<>>
    /\ task' = [t \in Task |-> FreeTask]
    /\ active' = [e \in Exec |-> NoTask]
    /\ flags' = {}
    /\ seg' = Idle
    /\ UNCHANGED <<durable, attempt, starts, acked, replays>>

Boot ==
    /\ mode = "down"
    /\ mode' = "boot"
    /\ UNCHANGED <<durable, memory, seg, history>>

\* The scan reads rows ORDER BY created_at: the first one is next.
IsRunning(e) == row[e].status = "running"
BugIsWaiting(e) == row[e].status = "pending" /\ ~Queued(e)
IsWaiting(e) == row[e].status \in {"pending", "retrying"} /\ ~Queued(e)

\* The run that the restart repeats is charged to the retry budget.
BugCharged(e) == row[e].retry
Charged(e) == row[e].retry + 1

RecoverRunning(e) ==
    LET o == FreshObj(e) IN
    /\ mode = "boot" /\ seg = Idle
    /\ IsRunning(e) /\ \A f \in 1..(e - 1) : ~IsRunning(f)
    /\ IF row[e].retry < MaxRetries
       THEN /\ mem' = [mem EXCEPT ![o] = [status |-> "retrying",
                                          retry  |-> Charged(e),
                                          error  |-> "interrupted"]]
            /\ Retried(e, "retrying", Charged(e), "interrupted")
            /\ seg' = Seg("recover", "pending", o)
       ELSE /\ Failed(e, row[e].retry, "interrupted", TRUE)
            /\ UNCHANGED <<mem, seg>>
    /\ UNCHANGED <<lease, queue, task, active, flags, mode, history>>

RecoverWaiting(e) ==
    LET o == FreshObj(e) IN
    /\ mode = "boot" /\ seg = Idle
    /\ \A f \in Exec : ~IsRunning(f)
    /\ IsWaiting(e) /\ \A f \in 1..(e - 1) : ~IsWaiting(f)
    /\ mem' = [mem EXCEPT ![o] = FromRow(e)]
    /\ queue' = Append(queue, o)
    /\ UNCHANGED <<durable, task, active, flags, seg, mode, history>>

BugRecovered ==
    /\ mode = "boot" /\ seg = Idle
    /\ \A e \in Exec : ~IsRunning(e)
    /\ mode' = "up"
    /\ UNCHANGED <<durable, memory, seg, history>>

Recovered ==
    /\ mode = "boot" /\ seg = Idle
    /\ \A e \in Exec : ~IsRunning(e) /\ ~IsWaiting(e)
    /\ mode' = "up"
    /\ UNCHANGED <<durable, memory, seg, history>>
----------------------------------------------------------------------------
Init ==
    /\ row = [e \in Exec |-> [status |-> "absent", retry |-> 0,
                              error |-> "", dead |-> FALSE]]
    /\ lease = [e \in Exec |-> "none"]
    /\ mem = [o \in Obj |-> [status |-> "pending", retry |-> 0, error |-> ""]]
    /\ queue = <<>>
    /\ task = [t \in Task |-> FreeTask]
    /\ active = [e \in Exec |-> NoTask]
    /\ flags = {}
    /\ seg = Idle
    /\ mode = "up"
    /\ attempt = [e \in Exec |-> "none"]
    /\ starts = [e \in Exec |-> 0]
    /\ acked = {}
    /\ replays = [e \in Exec |-> 0]
    /\ crashes = 0

\* What the scheduler does of its own accord once it is given work.
SchedulerStep ==
    \/ \E e \in Exec : EnqueueOne(e) \/ RejectRequest(e)
    \/ RejectFail
    \/ StartNext
    \/ SegPending
    \/ Drop
    \/ ReclaimRetrying
    \/ Boot
    \/ \E e \in Exec : RecoverRunning(e) \/ RecoverWaiting(e)
    \/ Recovered

TaskStep(t) ==
    \/ BeginCancelled(t)
    \/ Begin(t)
    \/ NoHandler(t)
    \/ HandlerOk(t)
    \/ HandlerFails(t)
    \/ CancelDelivered(t)
    \/ SleepOver(t)
    \/ Forget(t)

\* What users, operators, the clock and failures do to it.
Environment ==
    \/ \E n \in 1..Fanout : Enqueue(n)
    \/ \E e \in Exec : \/ CancelQueued(e)
                       \/ CancelActive(e)
                       \/ LeaseAges(e)
                       \/ Reclaim(e)
                       \/ Replay(e)
    \/ Crash

Next == SchedulerStep \/ (\E t \in Task : TaskStep(t)) \/ Environment

Spec == Init /\ [][Next]_vars

(***************************************************************************)
(* The loop keeps running callbacks, every handler ends (wait_for bounds   *)
(* it), a cancellation is delivered and a dead process is restarted.       *)
(***************************************************************************)
Fairness ==
    /\ WF_vars(SchedulerStep)
    /\ \A t \in Task : WF_vars(TaskStep(t))
    /\ WF_vars(seg.op = "cancel"
                /\ \E e \in Exec : CancelQueued(e) \/ CancelActive(e))

FairSpec == Spec /\ Fairness
----------------------------------------------------------------------------
(* Properties.                                                             *)

\* The task will still do something for its execution.
Live(t)    == Unfinished(t) /\ ~task[t].cancelled
Carried(e) == Queued(e) \/ \E t \in Task : ExecOf(t) = e /\ Live(t)

NoDuplicate ==
    \A i, j \in DOMAIN queue : ExecOf(queue[i]) = ExecOf(queue[j]) => i = j

\* An execution is carried by one queue entry or one task, never two: two
\* attempts of one handler never run side by side.
OneCarrier ==
    /\ \A t, u \in Task : Live(t) /\ Live(u) /\ ExecOf(t) = ExecOf(u) => t = u
    /\ \A t \in Task : Live(t) => ~Queued(ExecOf(t))
    /\ NoDuplicate

\* Whenever the loop is free, a row that is not terminal has somebody in
\* memory who will take it further: no row is stranded until a restart.
NoStrandedRow ==
    Turn => \A e \in Exec : row[e].status \in Open => Carried(e)

\* An open execution is carried once: neither twice at any moment nor by
\* nobody when the loop is free (agent_scheduler.py:411, :660).
CarriedOnce == OneCarrier /\ NoStrandedRow

\* A cancel the scheduler acknowledged holds for good: the row stays failed,
\* is no dead letter, and nothing in memory will run it again.
CancelIsFinal ==
    \A e \in acked : /\ row[e].status = "failed" /\ ~row[e].dead
                     /\ Turn => ~Carried(e)

\* Crashes, reclaims and failures together start a handler at most once per
\* unit of its retry budget, plus once per operator replay.
AttemptsBounded ==
    \A e \in Exec : starts[e] <= MaxRetries + 1 + replays[e]

\* Every task that still works is the one _active maps its id to, so that a
\* cancel or a reclaim reaches it and the concurrency cap counts it.
InFlightTracked ==
    \A t \in Task : Live(t) => active[ExecOf(t)] = t

\* A dead letter is a failed row with no automatic way on: its retries are
\* spent, its handler is gone, or its reclaim met a full queue.
DeadLetterIsTerminal ==
    \A e \in Exec : row[e].dead =>
        /\ row[e].status = "failed"
        /\ \/ row[e].retry = MaxRetries
           \/ row[e].error \in {"no_handler", "queue_full"}
        /\ Turn => ~Carried(e)

\* The one retryable failure that is neither retried nor dead lettered is the
\* one a process death leaves behind in the middle of a lease reclaim.
SilentLossNeedsCrash ==
    Turn => \A e \in Exec : row[e].status = "failed" /\ ~row[e].dead =>
                \/ row[e].error \in {"cancelled", "queue_full"}
                \/ row[e].error = "timeout" /\ crashes > 0

\* Every failure is accounted for, by a dead letter with no way on or by a
\* cause that is not the handler's (agent_scheduler.py:674, :704).
FailuresAccounted == DeadLetterIsTerminal /\ SilentLossNeedsCrash

\* The retry budget is kept, and what it does not cover is accounted for
\* (agent_scheduler.py:150, :548).
BudgetIsKept == AttemptsBounded /\ FailuresAccounted

\* What was acknowledged or has completed is final: no task, recovery or
\* reclaim that is still on its way rewrites it (agent_scheduler.py:615).
OutcomeIsFinal ==
    [][/\ CancelIsFinal'
       /\ \A e \in Exec : row[e].status = "completed" => row'[e] = row[e]]_vars

\* However many tasks and objects an execution had, and wherever the death
\* cut in, a restart leaves one queue entry for each row that is open and
\* none for any other.
RestartRequeuesOnce ==
    [][mode = "boot" /\ mode' = "up" =>
           /\ \A e \in Exec : Queued(e) <=> row[e].status \in Open
           /\ NoDuplicate]_mode

\* Only a restart or an operator replay grows the queue beyond its cap.
QueueCapped ==
    [][Len(queue') > Len(queue) /\ Len(queue') > MaxPending
           => mode = "boot" \/ seg.op = "replay"]_queue

\* The lease timeout takes only an attempt that has itself run past the TTL.
LeaseCoversAttempt ==
    [][\A e \in Exec :
           row[e].status = "running" /\ row'[e].status = "failed"
           /\ row'[e].error = "timeout" => attempt[e] = "stale"]_row

\* Every requested execution is settled: completed, or failed for good.
Settles ==
    \A e \in Exec : row[e].status \in Open
                     ~> row[e].status \in {"completed", "failed"}
=============================================================================
