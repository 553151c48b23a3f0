---------------------------- MODULE PlanApproval ----------------------------
(***************************************************************************)
(* One background work item whose plan stops at steps that need a user's   *)
(* approval and goes on when it is granted (handlers/execute_handlers.py,  *)
(* handlers/plan_runner.py, handlers/approve_handlers.py, plan_resume.py,  *)
(* kernel/governance_ops.py, capability_governance.py, read_ports/work.py, *)
(* runtime_loop.py).                                                       *)
(*                                                                         *)
(* As in Scheduler, everything runs on one asyncio loop: an action is the  *)
(* code up to the next commit or await, seg keeps the callback that is     *)
(* between two commits, and Crash may cut it there.  The scheduler itself  *)
(* is reduced to what its own module shows of it: a handler run is queued, *)
(* runs, is retried after a timeout or a restart, and ends.                *)
(*                                                                         *)
(* A definition whose name starts with Bug is a seeded fault: no action    *)
(* uses it; in the place of the definition after it, it breaks a property. *)
(***************************************************************************)
EXTENDS Naturals, FiniteSets

CONSTANTS
    Steps,          \* steps in the plan, numbered 0..Steps-1
    Gated,          \* the steps whose tool is high risk
    MaxApr,         \* bound: approvals requested
    MaxRuns,        \* bound: handler executions
    MaxStarts,      \* bound: user requests to execute the item
    MaxCommands,    \* bound: approve and reject clicks
    MaxRetries,     \* ExecutionPolicy.max_retries
    MaxCrashes,     \* bound: process deaths
    MaxTimeouts,    \* bound: handler timeouts
    MaxStale,       \* bound: background dispatches that outlive their timeout
    PromptLoop      \* a failed dispatch is told before the next user request

Step == 0..(Steps - 1)
Apr  == 1..MaxApr
Run  == 1..MaxRuns

ASSUME PlanApprovalAssumption ==
    /\ Steps \in Nat \ {0}
    /\ Gated \subseteq Step
    /\ MaxApr \in Nat \ {0}
    /\ MaxRuns \in Nat \ {0}
    /\ MaxStarts \in Nat
    /\ MaxCommands \in Nat
    /\ MaxRetries \in Nat
    /\ MaxCrashes \in Nat
    /\ MaxTimeouts \in Nat
    /\ MaxStale \in Nat
    /\ PromptLoop \in BOOLEAN

VARIABLES
    wi,         \* work_items.status
    approval,   \* approvals.status
    resume,     \* plan_resumes row of an approval: resume_from, 0 for no row
    intent,     \* aprdis: row: resume_from (0 for no row) and dispatched
    progress,   \* progress: row: resume_from, 0 for no row
    stepres,    \* stepres: rows, the steps this work item has a result of
    idem,       \* idem: rows, steps by the correlation that ran them
    run,        \* handler executions of ExecuteRequested, ApproveRequested
    current,    \* run of _current_execute_requested, 0 for none
    flag,       \* exec_{work_id} in _cancelled_executions
    dispatch,   \* the _dispatch_bg task of the runtime loop
    seg,        \* the callback between two commits
    boot,       \* the runtime loop has not started yet
    gate,       \* history: the step an approval was requested for
    used,       \* history: tool calls on the strength of an approval
    calls,      \* history: tool calls per step
    passed,     \* history: steps whose tool returned a success
    requested,  \* ExecuteRequested events in the log, by approval_id
    spent       \* history: uses of the bounded environment actions

store   == <<approval, resume, intent, progress, stepres, idem, requested>>
history == <<gate, used, calls, passed>>
vars == <<wi, store, run, current, flag, dispatch, seg, boot, history, spent>>

Handling == {"lock", "decide", "call", "drop", "dropped", "deny", "intent",
             "take", "emit", "confirm", "step", "tool", "idem", "stepres",
             "progress", "register", "pass", "close", "report", "return"}
Ended    == {"lost", "done", "failed", "cancelled"}
Ats      == {"none", "emitted", "queued"} \union Handling \union Ended
Outs     == {"", "completed", "pending", "failed", "cancelled"}

RunType == [kind : {"none", "execute", "approve"}, at : Ats,
            from : 0..Steps, step : 0..Steps, apr : 0..MaxApr,
            decision : {"", "approve", "deny"}, out : Outs, said : Outs,
            retry : 0..MaxRetries, corr : 0..MaxRuns]
NoRun == [kind |-> "none", at |-> "none", from |-> 0, step |-> 0, apr |-> 0,
          decision |-> "", out |-> "", said |-> "", retry |-> 0, corr |-> 0]

Segs == [op : {"idle", "run", "request", "cancel", "clear", "status", "expire"},
         id : 0..(MaxRuns + MaxApr)]
Idle == [op |-> "idle", id |-> 0]
Costs == {"starts", "commands", "crashes", "timeouts", "stale"}

TypeOK ==
    /\ wi \in {"pending", "running", "waiting_approval", "completed",
               "failed", "cancelled"}
    /\ approval \in [Apr -> {"absent", "pending", "approved", "denied", "expired"}]
    /\ resume \in [Apr -> 0..Steps]
    /\ intent \in [Apr -> [from : 0..Steps, sent : BOOLEAN]]
    /\ progress \in 0..Steps
    /\ stepres \subseteq Step
    /\ idem \subseteq Run \X Step
    /\ run \in [Run -> RunType]
    /\ current \in 0..MaxRuns
    /\ flag \in BOOLEAN
    /\ dispatch \in [st : {"idle", "claimed", "waiting", "error"}, run : 0..MaxRuns]
    /\ seg \in Segs
    /\ boot \in BOOLEAN
    /\ gate \in [Apr -> Step \union {Steps}]
    /\ used \in [Apr -> Nat]
    /\ calls \in [Step -> Nat]
    /\ passed \subseteq Step
    /\ requested \in [Apr -> Nat]
    /\ spent \in [Costs -> Nat]
----------------------------------------------------------------------------
(* Reading the state.                                                      *)

Turn == seg = Idle /\ ~boot

\* A request comes from outside; the dispatch that waits for a result is woken
\* two iterations of the loop after it.
UserTurn == Turn /\ (PromptLoop => dispatch.st # "error")
NoIntent == [from |-> 0, sent |-> FALSE]

\* Runs are numbered as their request events are logged.
NextRun(r) == run[r].at = "none" /\ \A q \in 1..(r - 1) : run[q].at # "none"
NextApr(a) == approval[a] = "absent" /\ \A b \in 1..(a - 1) : approval[b] # "absent"
IsExecute(r) == run[r].kind = "execute"
LatestExecute(r) == IsExecute(r) /\ \A q \in (r + 1)..MaxRuns : ~IsExecute(q)

\* The handler may go on: it is in its callback, or nothing else is.
Mine(r) == seg = [op |-> "run", id |-> r]
Go(r, at) == /\ run' = [run EXCEPT ![r].at = at]
             /\ seg' = [op |-> "run", id |-> r]

Spend(cost) == spent' = [spent EXCEPT ![cost] = @ + 1]

Cached(r, i) == <<run[r].corr, i>> \in idem \/ i \in stepres

CancelCheck == flag \/ wi = "cancelled"
----------------------------------------------------------------------------
(* Requests: an event is logged, then a task enqueues its handler run.     *)

NewRun(kind, from, a, decision, corr) ==
    [kind |-> kind, at |-> "emitted", from |-> from, step |-> 0, apr |-> a,
     decision |-> decision, out |-> "", said |-> "", retry |-> 0, corr |-> corr]

\* request_work_item_execute: running first, then the request event, which
\* has no correlation id.
Execute ==
    /\ UserTurn
    /\ spent["starts"] < MaxStarts
    /\ \/ wi \in {"pending", "failed"}
       \/ wi = "running" /\ current # 0 /\ run[current].at \in {"failed", "cancelled"}
    /\ flag' = FALSE
    /\ wi' = "running"
    /\ current' = 0
    /\ seg' = [op |-> "request", id |-> 0]
    /\ Spend("starts")
    /\ UNCHANGED <<store, run, dispatch, boot, history>>

RequestExecute(r) ==
    /\ seg.op = "request"
    /\ NextRun(r)
    /\ run' = [run EXCEPT ![r] = NewRun("execute", 0, 0, "", 0)]
    /\ current' = r
    /\ seg' = Idle
    /\ UNCHANGED <<wi, store, flag, dispatch, boot, history, spent>>

\* _process_background_tasks claims a pending item, and a task of its own
\* submits the command and waits for ExecuteCompleted.
DispatchClaim ==
    /\ Turn
    /\ wi = "pending"
    /\ wi' = "running"
    /\ current' = 0
    /\ dispatch' = [st |-> "claimed", run |-> 0]
    /\ UNCHANGED <<store, run, flag, seg, boot, history, spent>>

DispatchSubmit(r) ==
    /\ Turn
    /\ dispatch.st = "claimed"
    /\ NextRun(r)
    /\ run' = [run EXCEPT ![r] = NewRun("execute", 0, 0, "", r)]
    /\ current' = r
    /\ dispatch' = [st |-> "waiting", run |-> r]
    /\ UNCHANGED <<wi, store, flag, seg, boot, history, spent>>

\* No ExecuteCompleted will come, or the run still waits behind others.
Overdue == /\ dispatch.st = "waiting"
           /\ run[dispatch.run].at \in {"queued", "failed", "cancelled"}

\* The command failed, or nothing completed it in time: the item is failed,
\* whatever it is by now.
DispatchFails ==
    /\ Turn
    /\ \/ dispatch.st = "error" /\ UNCHANGED spent
       \/ Overdue /\ spent["stale"] < MaxStale /\ Spend("stale")
    /\ wi' = "failed"
    /\ dispatch' = [st |-> "idle", run |-> 0]
    /\ UNCHANGED <<store, run, current, flag, seg, boot, history>>

\* The approve and reject endpoints refuse an approval that is not pending.
Decide(r, a, decision) ==
    /\ UserTurn
    /\ spent["commands"] < MaxCommands
    /\ approval[a] = "pending"
    /\ NextRun(r)
    /\ run' = [run EXCEPT ![r] = NewRun("approve", 0, a, decision, r)]
    /\ Spend("commands")
    /\ UNCHANGED <<wi, store, current, flag, dispatch, seg, boot, history>>

Enqueue(r) ==
    /\ Turn
    /\ run[r].at = "emitted"
    /\ run' = [run EXCEPT ![r].at = "queued"]
    /\ UNCHANGED <<wi, store, current, flag, dispatch, seg, boot, history, spent>>
----------------------------------------------------------------------------
(* on_execute_requested and run_plan_steps.                                *)

\* An explicit resume_from on the event beats the durable progress.
Cursor(r) == IF run[r].from > 0 THEN run[r].from ELSE progress

BugCancelSeen(r) == FALSE
CancelSeen(r) == CancelCheck

BeginExecute(r) ==
    /\ Turn
    /\ run[r].at = "queued" /\ IsExecute(r)
    /\ IF CancelSeen(r)
       THEN /\ flag' = FALSE
            /\ run' = [run EXCEPT ![r].at = "report", ![r].out = "cancelled"]
            /\ UNCHANGED <<wi, current>>
       ELSE /\ wi' = "running"
            /\ current' = IF wi = "running" THEN current
                          ELSE IF LatestExecute(r) THEN r ELSE 0
            /\ run' = [run EXCEPT ![r].at = "step", ![r].step = Cursor(r)]
            /\ UNCHANGED flag
    /\ seg' = [op |-> "run", id |-> r]
    /\ UNCHANGED <<store, dispatch, boot, history, spent>>

\* The head of the loop: past the end, a cached result, a call or a request.
PlanOver(r) ==
    /\ Mine(r) /\ run[r].at = "step" /\ run[r].step >= Steps
    /\ run' = [run EXCEPT ![r].at = "close", ![r].out = "completed"]
    /\ UNCHANGED <<wi, store, current, flag, dispatch, seg, boot, history, spent>>

SkipStep(r) ==
    LET i == run[r].step IN
    /\ Mine(r) /\ run[r].at = "step" /\ i < Steps
    /\ Cached(r, i)
    /\ progress' = i + 1
    /\ run' = [run EXCEPT ![r].step = i + 1]
    /\ UNCHANGED <<wi, approval, resume, intent, stepres, idem, requested, current,
                   flag, dispatch, seg, boot, history, spent>>

CallStep(r) ==
    LET i == run[r].step IN
    /\ Mine(r) /\ run[r].at = "step" /\ i < Steps
    /\ ~Cached(r, i) /\ i \notin Gated
    /\ calls' = [calls EXCEPT ![i] = @ + 1]
    /\ run' = [run EXCEPT ![r].at = "tool"]
    /\ seg' = Idle
    /\ UNCHANGED <<wi, store, current, flag, dispatch, boot, gate, used, passed, spent>>

\* request_approval, then the pending branch of the runner: the resume row,
\* the progress past the pending step, and the plan stops.
RequestApproval(r, a) ==
    LET i == run[r].step IN
    /\ Mine(r) /\ run[r].at = "step" /\ i < Steps
    /\ ~Cached(r, i) /\ i \in Gated
    /\ NextApr(a)
    /\ approval' = [approval EXCEPT ![a] = "pending"]
    /\ gate' = [gate EXCEPT ![a] = i]
    /\ run' = [run EXCEPT ![r].at = "register", ![r].apr = a]
    /\ UNCHANGED <<wi, resume, intent, progress, stepres, idem, requested, current,
                   flag, dispatch, seg, boot, used, calls, passed, spent>>

BugNextResume(i) == IF i + 2 > Steps THEN Steps ELSE i + 2
NextResume(i) == i + 1

Register(r) ==
    /\ Mine(r) /\ run[r].at = "register"
    /\ resume' = [resume EXCEPT ![run[r].apr] = NextResume(run[r].step)]
    /\ Go(r, "pass")
    /\ UNCHANGED <<wi, approval, intent, progress, stepres, idem, requested, current,
                   flag, dispatch, boot, history, spent>>

PassPending(r) ==
    /\ Mine(r) /\ run[r].at = "pass"
    /\ progress' = run[r].step + 1
    /\ run' = [run EXCEPT ![r].at = "close", ![r].out = "pending"]
    /\ UNCHANGED <<wi, approval, resume, intent, stepres, idem, requested, current,
                   flag, dispatch, seg, boot, history, spent>>

\* The awaited tool of a step answers the execute handler.
StepReturns(r) ==
    /\ Turn
    /\ run[r].at = "tool" /\ IsExecute(r)
    /\ \/ /\ passed' = passed \union {run[r].step}
          /\ run' = IF CancelCheck
                    THEN [run EXCEPT ![r].at = "close", ![r].out = "cancelled"]
                    ELSE [run EXCEPT ![r].at = "idem"]
       \/ /\ run' = [run EXCEPT ![r].at  = "close",
                                ![r].out = IF CancelCheck THEN "cancelled" ELSE "failed"]
          /\ UNCHANGED passed
    /\ seg' = [op |-> "run", id |-> r]
    /\ UNCHANGED <<wi, store, current, flag, dispatch, boot, gate, used, calls, spent>>

\* record_step_success commits the correlation's row, if there is one, then
\* the item's.
RecordIdem(r) ==
    /\ Mine(r) /\ run[r].at = "idem"
    /\ idem' = IF run[r].corr = 0 THEN idem
               ELSE idem \union {<<run[r].corr, run[r].step>>}
    /\ Go(r, "stepres")
    /\ UNCHANGED <<wi, approval, resume, intent, progress, stepres, requested, current,
                   flag, dispatch, boot, history, spent>>

BugAlready(a) == intent[a].sent
Already(a) == requested[a] > 0 \/ intent[a].sent

RecordStep(r) ==
    /\ Mine(r) /\ run[r].at = "stepres"
    /\ stepres' = stepres \union {run[r].step}
    /\ Go(r, IF IsExecute(r) THEN "progress"
             ELSE IF Already(run[r].apr) THEN "confirm" ELSE "intent")
    /\ UNCHANGED <<wi, approval, resume, intent, progress, idem, requested, current,
                   flag, dispatch, boot, history, spent>>

Progress(r) ==
    /\ Mine(r) /\ run[r].at = "progress"
    /\ progress' = run[r].step + 1
    /\ run' = [run EXCEPT ![r].at = "step", ![r].step = @ + 1]
    /\ UNCHANGED <<wi, approval, resume, intent, stepres, idem, requested, current,
                   flag, dispatch, seg, boot, history, spent>>

StatusOf(out) == CASE out = "completed" -> "completed"
                   [] out = "pending"   -> "waiting_approval"
                   [] out = "failed"    -> "failed"
                   [] out = "cancelled" -> "cancelled"

\* The item's status, ExecuteCompleted, and the end of the handler.
Close(r) ==
    /\ Mine(r) /\ run[r].at = "close"
    /\ wi' = StatusOf(run[r].out)
    /\ flag' = (flag /\ run[r].out # "cancelled")
    /\ Go(r, "report")
    /\ UNCHANGED <<store, current, dispatch, boot, history, spent>>

Report(r) ==
    /\ Mine(r) /\ run[r].at = "report"
    /\ run' = [run EXCEPT ![r].at = "return", ![r].said = run[r].out]
    /\ dispatch' = IF dispatch.st = "waiting" /\ dispatch.run = r
                   THEN IF run[r].out = "failed"
                        THEN [dispatch EXCEPT !.st = "error"]
                        ELSE [st |-> "idle", run |-> 0]
                   ELSE dispatch
    /\ UNCHANGED <<wi, store, current, flag, seg, boot, history, spent>>

Return(r) ==
    /\ Mine(r) /\ run[r].at = "return"
    /\ run' = [run EXCEPT ![r].at = "done"]
    /\ seg' = Idle
    /\ UNCHANGED <<wi, store, current, flag, dispatch, boot, history, spent>>
----------------------------------------------------------------------------
(* on_approve_requested, under the lock of its approval.                   *)

WaitForLock(r) ==
    /\ Turn
    /\ run[r].at = "queued" /\ ~IsExecute(r)
    /\ run' = [run EXCEPT ![r].at = "lock"]
    /\ UNCHANGED <<wi, store, current, flag, dispatch, seg, boot, history, spent>>

Locked(a) == \E r \in Run : /\ ~IsExecute(r) /\ run[r].apr = a
                            /\ run[r].at \in Handling \ {"lock"}

\* The plan to resume: the row of the approval, else its dispatch intent.
BugResumed(a) == resume[a]
Resumed(a) == IF resume[a] > 0 THEN resume[a] ELSE intent[a].from
Answered(r) ==
    LET a == run[r].apr IN
    /\ Resumed(a) > 0
    /\ resume[a] > 0 => Cached(r, resume[a] - 1)

BugConsumable(a) == approval[a] \in {"pending", "approved"}
Consumable(a) == approval[a] = "pending"

\* Denied: forget the plan.  The step has a result: use it.  Otherwise the
\* gate consumes the pending approval, or refuses and the plan is forgotten.
Acquire(r) ==
    LET a == run[r].apr IN
    /\ Turn
    /\ run[r].at = "lock" /\ ~Locked(a)
    /\ \/ /\ run[r].decision = "deny"
          /\ Go(r, "drop")
          /\ UNCHANGED approval
       \/ /\ run[r].decision = "approve" /\ Answered(r)
          /\ run' = [run EXCEPT ![r].at = "idem", ![r].step = Resumed(a) - 1]
          /\ seg' = [op |-> "run", id |-> r]
          /\ UNCHANGED approval
       \/ /\ run[r].decision = "approve" /\ ~Answered(r) /\ Consumable(a)
          /\ approval' = [approval EXCEPT ![a] = "approved"]
          /\ Go(r, "call")
       \/ /\ run[r].decision = "approve" /\ ~Answered(r) /\ ~Consumable(a)
          /\ Go(r, "drop")
          /\ UNCHANGED approval
    /\ UNCHANGED <<wi, resume, intent, progress, stepres, idem, requested, current,
                   flag, dispatch, boot, history, spent>>

CallApproved(r) ==
    LET a == run[r].apr IN
    /\ Mine(r) /\ run[r].at = "call"
    /\ used' = [used EXCEPT ![a] = @ + 1]
    /\ calls' = [calls EXCEPT ![gate[a]] = @ + 1]
    /\ run' = [run EXCEPT ![r].at = "tool"]
    /\ seg' = Idle
    /\ UNCHANGED <<wi, store, current, flag, dispatch, boot, gate, passed, spent>>

ApprovedReturns(r) ==
    LET a == run[r].apr IN
    /\ Turn
    /\ run[r].at = "tool" /\ ~IsExecute(r)
    /\ \/ /\ passed' = passed \union {gate[a]}
          /\ run' = IF Resumed(a) = 0
                    THEN [run EXCEPT ![r].at = "return"]
                    ELSE [run EXCEPT ![r].at = "idem", ![r].step = Resumed(a) - 1]
       \/ /\ run' = [run EXCEPT ![r].at = "drop"]
          /\ UNCHANGED passed
    /\ seg' = [op |-> "run", id |-> r]
    /\ UNCHANGED <<wi, store, current, flag, dispatch, boot, gate, used, calls, spent>>

SaveIntent(r) ==
    /\ Mine(r) /\ run[r].at = "intent"
    /\ intent' = [intent EXCEPT ![run[r].apr] = [from |-> run[r].step + 1, sent |-> FALSE]]
    /\ Go(r, "take")
    /\ UNCHANGED <<wi, approval, resume, progress, stepres, idem, requested, current,
                   flag, dispatch, boot, history, spent>>

TakeResume(r) ==
    /\ Mine(r) /\ run[r].at \in {"take", "drop"}
    /\ resume' = [resume EXCEPT ![run[r].apr] = 0]
    /\ Go(r, IF run[r].at = "take" THEN "emit" ELSE "dropped")
    /\ UNCHANGED <<wi, approval, intent, progress, stepres, idem, requested, current,
                   flag, dispatch, boot, history, spent>>

\* _dispatch_plan_resume; the new run inherits this one's correlation.
EmitResume(r, q) ==
    LET a == run[r].apr IN
    /\ Mine(r) /\ run[r].at = "emit"
    /\ NextRun(q)
    /\ requested' = [requested EXCEPT ![a] = @ + 1]
    /\ run' = [run EXCEPT ![r].at = "confirm",
                          ![q] = NewRun("execute", run[r].step + 1, 0, "", run[r].corr)]
    /\ current' = q
    /\ UNCHANGED <<wi, approval, resume, intent, progress, stepres, idem, flag,
                   dispatch, seg, boot, history, spent>>

ConfirmIntent(r) ==
    /\ Mine(r) /\ run[r].at = "confirm"
    /\ intent' = [intent EXCEPT ![run[r].apr] = [from |-> run[r].step + 1, sent |-> TRUE]]
    /\ Go(r, "return")
    /\ UNCHANGED <<wi, approval, resume, progress, stepres, idem, requested, current,
                   flag, dispatch, boot, history, spent>>

DropIntent(r) ==
    /\ Mine(r) /\ run[r].at = "dropped"
    /\ intent' = [intent EXCEPT ![run[r].apr] = NoIntent]
    /\ Go(r, IF run[r].decision = "deny" THEN "deny" ELSE "return")
    /\ UNCHANGED <<wi, approval, resume, progress, stepres, idem, requested, current,
                   flag, dispatch, boot, history, spent>>

\* The projector of ApprovalDenied moves a pending approval only.
Denied(a, status) ==
    approval' = [approval EXCEPT ![a] = IF @ = "pending" THEN status ELSE @]

Deny(r) ==
    /\ Mine(r) /\ run[r].at = "deny"
    /\ Denied(run[r].apr, "denied")
    /\ Go(r, "return")
    /\ UNCHANGED <<wi, resume, intent, progress, stepres, idem, requested, current,
                   flag, dispatch, boot, history, spent>>
----------------------------------------------------------------------------
(* Timeouts, the expiry sweep, cancellation, death and restart.            *)

\* The scheduler's retry of a handler that timed out or was interrupted.
Restart(rec) == [rec EXCEPT !.at = "queued", !.retry = @ + 1, !.out = "", !.step = 0,
                            !.apr = IF rec.kind = "execute" THEN 0 ELSE @]
BugAgain(rec) == Restart(rec)
Again(rec) == IF rec.retry < MaxRetries THEN Restart(rec)
              ELSE [rec EXCEPT !.at = "failed"]

\* wait_for bounds the handler at its awaits; a dead-lettered execute handler
\* of the current attempt closes the running item.
HandlerTimesOut(r) ==
    /\ Turn
    /\ run[r].at \in {"tool", "lock"}
    /\ spent["timeouts"] < MaxTimeouts
    /\ run' = [run EXCEPT ![r] = Again(@)]
    /\ wi' = IF run[r].retry >= MaxRetries /\ wi = "running" /\ current = r
             THEN "failed" ELSE wi
    /\ Spend("timeouts")
    /\ UNCHANGED <<store, current, flag, dispatch, seg, boot, history>>

\* expire_stale_approvals, one row of its scan.
Expire(a) ==
    /\ Turn
    /\ approval[a] = "pending"
    /\ resume' = [resume EXCEPT ![a] = 0]
    /\ seg' = [op |-> "expire", id |-> a]
    /\ UNCHANGED <<wi, approval, intent, progress, stepres, idem, requested, run,
                   current, flag, dispatch, boot, history, spent>>

ExpireDenies ==
    /\ seg.op = "expire"
    /\ Denied(seg.id, "expired")
    /\ seg' = Idle
    /\ UNCHANGED <<wi, resume, intent, progress, stepres, idem, requested, run,
                   current, flag, dispatch, boot, history, spent>>

\* cancel_background_work_item: stop the tracked handlers one by one, clear
\* every plan row of the item, and only then the status.
Cancel ==
    /\ UserTurn
    /\ wi \notin {"completed", "failed", "cancelled"}
    /\ flag' = TRUE
    /\ seg' = [op |-> "cancel", id |-> 0]
    /\ UNCHANGED <<wi, store, run, current, dispatch, boot, history, spent>>

Tracked(r) == IsExecute(r) /\ run[r].at \in {"queued", "tool"}

CancelRun(r) ==
    /\ seg.op = "cancel"
    /\ Tracked(r)
    /\ run' = [run EXCEPT ![r].at = "cancelled"]
    /\ UNCHANGED <<wi, store, current, flag, dispatch, seg, boot, history, spent>>

CancelClears ==
    /\ seg.op = "cancel"
    /\ \A r \in Run : ~Tracked(r)
    /\ resume' = [a \in Apr |-> 0]
    /\ intent' = [a \in Apr |-> NoIntent]
    /\ progress' = 0
    /\ stepres' = {}
    /\ idem' = {}
    /\ seg' = [op |-> "status", id |-> 0]
    /\ UNCHANGED <<wi, approval, requested, run, current, flag, dispatch, boot,
                   history, spent>>

CancelStamps ==
    /\ seg.op = "status"
    /\ wi' = "cancelled"
    /\ seg' = Idle
    /\ UNCHANGED <<store, run, current, flag, dispatch, boot, history, spent>>

\* The queue comes back from its rows, an event not yet enqueued does not.
Interrupted(rec) ==
    CASE rec.at = "emitted"     -> [rec EXCEPT !.at = "lost"]
      [] rec.at \in Handling    -> Again(rec)
      [] OTHER                  -> rec

Crash ==
    /\ spent["crashes"] < MaxCrashes
    /\ Spend("crashes")
    /\ run' = [r \in Run |-> Interrupted(run[r])]
    /\ flag' = FALSE
    /\ dispatch' = [st |-> "idle", run |-> 0]
    /\ seg' = Idle
    /\ boot' = TRUE
    /\ UNCHANGED <<wi, store, current, history>>

\* _recover_interrupted_background_tasks: only a running item is looked at.
Recovered ==
    IF wi # "running" THEN wi
    ELSE IF current = 0 THEN "pending"
    ELSE CASE run[current].at = "lost"                  -> "pending"
           [] run[current].at \in {"failed", "cancelled"} -> "failed"
           [] run[current].at = "done" /\ run[current].said # ""
                                          -> StatusOf(run[current].said)
           [] OTHER                       -> wi

RecoverWork ==
    /\ boot
    /\ boot' = FALSE
    /\ wi' = Recovered
    /\ UNCHANGED <<store, run, current, flag, dispatch, seg, history, spent>>
----------------------------------------------------------------------------
Init ==
    /\ wi = "pending"
    /\ approval = [a \in Apr |-> "absent"]
    /\ resume = [a \in Apr |-> 0]
    /\ intent = [a \in Apr |-> NoIntent]
    /\ progress = 0
    /\ stepres = {}
    /\ idem = {}
    /\ run = [r \in Run |-> NoRun]
    /\ current = 0
    /\ flag = FALSE
    /\ dispatch = [st |-> "idle", run |-> 0]
    /\ seg = Idle
    /\ boot = FALSE
    /\ gate = [a \in Apr |-> Steps]
    /\ used = [a \in Apr |-> 0]
    /\ calls = [i \in Step |-> 0]
    /\ passed = {}
    /\ requested = [a \in Apr |-> 0]
    /\ spent = [c \in Costs |-> 0]

ExecuteStep(r) ==
    \/ BeginExecute(r)
    \/ PlanOver(r)
    \/ SkipStep(r)
    \/ CallStep(r)
    \/ \E a \in Apr : RequestApproval(r, a)
    \/ Register(r)
    \/ PassPending(r)
    \/ StepReturns(r)
    \/ Progress(r)
    \/ Close(r)
    \/ Report(r)

ApproveStep(r) ==
    \/ WaitForLock(r)
    \/ Acquire(r)
    \/ CallApproved(r)
    \/ ApprovedReturns(r)
    \/ SaveIntent(r)
    \/ TakeResume(r)
    \/ \E q \in Run : EmitResume(r, q)
    \/ ConfirmIntent(r)
    \/ DropIntent(r)
    \/ Deny(r)

RunStep(r) ==
    \/ Enqueue(r)
    \/ ExecuteStep(r)
    \/ ApproveStep(r)
    \/ RecordIdem(r)
    \/ RecordStep(r)
    \/ Return(r)

\* What the process does between the handlers once it has begun it.
Callback ==
    \/ \E r \in Run : RequestExecute(r) \/ DispatchSubmit(r) \/ CancelRun(r)
    \/ ExpireDenies
    \/ CancelClears
    \/ CancelStamps
    \/ RecoverWork

Environment ==
    \/ Execute
    \/ DispatchClaim
    \/ DispatchFails
    \/ \E r \in Run, a \in Apr : Decide(r, a, "approve") \/ Decide(r, a, "deny")
    \/ \E r \in Run : HandlerTimesOut(r)
    \/ \E a \in Apr : Expire(a)
    \/ Cancel
    \/ Crash

Next == (\E r \in Run : RunStep(r)) \/ Callback \/ Environment

Spec == Init /\ [][Next]_vars

\* Handlers end (wait_for bounds them), callbacks run, and a dead process is
\* restarted.  Users, the clock and the runtime loop's tick need do nothing.
FairSpec ==
    /\ Spec
    /\ WF_vars(Callback)
    /\ \A r \in Run : WF_vars(RunStep(r))
----------------------------------------------------------------------------
(* Properties.                                                             *)

\* Governance keeps its promise: an approval is resolved once, for good, and
\* the tool behind it is called at most once, and only after the grant.
Promise == INSTANCE Approval WITH Apr <- Apr, approval <- approval, used <- used
ApprovalPromise == Promise!Spec

\* However often a user approves and the handler is retried, an approval sends
\* its plan on at most once.
ResumeOnce == \A a \in Apr : requested[a] <= 1

\* A result on file is the result of a tool that succeeded, so a skipped step
\* was really done.
RecordedIsTrue == stepres \subseteq passed

\* An approval's row sends the plan to the step after the one it gates.
ResumesAfterGate ==
    \A a \in Apr : Resumed(a) > 0 => Resumed(a) = gate[a] + 1

\* A dispatch intent once on file is followed by its ExecuteRequested, through
\* deaths and retries, unless a cancel clears the item's results or the user
\* also asks to deny.
DenyAsked(a) == \E r \in Run : run[r].apr = a /\ run[r].decision = "deny"
IntentIsKept ==
    \A a \in Apr : intent[a].from > 0
        ~> requested[a] > 0 \/ gate[a] \notin stepres \/ DenyAsked(a)

\* A tool is called only after the tools of all earlier steps have succeeded.
StepsInOrder ==
    [][\A i \in Step : calls'[i] # calls[i]
           => \A j \in 0..(i - 1) : j \in passed]_calls

\* Every call of a tool after the first is paid for by the restart of a handler,
\* a death, or a user's request to execute the item again: no click, resumption
\* or skipped result by itself repeats a step.
Retried  == {p \in Run \X (1..MaxRetries) : p[2] <= run[p[1]].retry}
Failures == Cardinality(Retried) + spent["crashes"] + spent["starts"]
RepeatsArePaid == \A i \in Step : calls[i] <= 1 + Failures

\* A completed item has done every step of its plan.
CompletedMeansDone == wi = "completed" => passed = Step

\* A cancelled item stays cancelled, whatever handlers are still about.
CancelledIsFinal == [][wi = "cancelled" => wi' = "cancelled"]_wi
=============================================================================
