---------------------------- MODULE BriefDelivery ----------------------------
(***************************************************************************)
(* One project brief: the versions it delivers, their review, and the ways *)
(* it is run again - execute, rework and rerun - with the undo of an       *)
(* attempt that never started and its recovery at boot                     *)
(* (product/work_delivery.py, project_brief.compile_project_brief_delivery, *)
(* handlers/execute_handlers.py, read_ports, plan_resume.py and            *)
(* runtime_loop.start).                                                    *)
(*                                                                         *)
(* All of it runs on the asyncio loop.  A call, or a handler between two   *)
(* awaits, is a chain of commits that nothing interleaves: "turn" is the   *)
(* chain in progress, and an action is one commit of it.  A write may      *)
(* fail, and the process may die, between any two.  Handlers interleave at *)
(* their awaits: a plan step and the model call.                           *)
(*                                                                         *)
(* What the code folds from the log is folded from "log" here, with the    *)
(* position in the log as seq.  A plan has one step.  Lane A is abstracted *)
(* to what this code sees of it (Scheduler models it); its queue has room. *)
(* Left out: adoption of suggestions, PATCH and DELETE of the work item,   *)
(* approvals (PlanApproval), and the text of deliveries and notes.         *)
(*                                                                         *)
(* A definition whose name starts with Bug is a seeded fault: no action    *)
(* uses it; in the place of the definition after it, it breaks a property. *)
(***************************************************************************)
EXTENDS Naturals, FiniteSets, SequencesExt

CONSTANTS
    MaxRetries,     \* retry budget of an execution
    MaxEvents       \* bound: calls, failed writes, timeouts and process deaths

ASSUME BriefDeliveryAssumption == {MaxRetries, MaxEvents} \subseteq Nat

VARIABLES
    log,            \* status changes, ExecuteRequested, decisions
    versions,       \* published deliveries: the execution of each
    dispatched,     \* decisions with a rework_dispatched event
    bills,          \* LLMCallRecorded by execution
    rows,           \* scheduled_executions by execution
    cursor,         \* operational plan_resumes: the execution that wrote them, or 0
    stash,          \* rerun_stash row: the cursor it holds, or 0
    tosend,         \* requests whose enqueue is still a task of the loop
    flag,           \* the in-memory cancel flag of exec_{id}
    place,          \* where each handler awaits
    turn,           \* the chain of commits in progress
    past            \* history
----------------------------------------------------------------------------
durable == <<log, versions, dispatched, bills, rows, cursor, stash>>
memory  == <<tosend, flag, place>>
vars    == <<durable, memory, turn, past>>

\* Every call requests at most one execution, and so does every boot.
Exec == 1..MaxEvents

Statuses == {"pending", "running", "completed", "failed", "cancelled"}
Whys     == {"none", "rework", "rerun", "cancel"}
Reviews  == {"accepted", "changes_requested"}
Callers  == {"execute", "rework", "rerun", "boot"}

\* of: for a status the execution it is caused by, for a decision the
\* version, for a request the decision it carries out (0 for none).
Status(what, why, of) == [kind |-> "status", what |-> what, why |-> why, of |-> of]
Request(caller, of)   == [kind |-> "request", what |-> caller, why |-> "none", of |-> of]
Decision(what, of)    == [kind |-> "decision", what |-> what, why |-> "none", of |-> of]

Idle == [call |-> "none", at |-> "none", arg |-> 0, prior |-> "none", held |-> 0]
Turn(call, at, arg) == [Idle EXCEPT !.call = call, !.at = at, !.arg = arg]

Row == [status : {"none", "queued", "running", "completed", "failed"},
        tries : 0..MaxRetries, answer : {"none", "completed", "failed", "cancelled"}]
NoRow == [status |-> "none", tries |-> 0, answer |-> "none"]

Live(e) == rows[e].status \in {"queued", "running"}

TypeOK ==
    /\ \A i \in 1..Len(log) :
          /\ log[i].of \in Nat /\ log[i].why \in Whys
          /\ \/ log[i].kind = "status"   /\ log[i].what \in Statuses
             \/ log[i].kind = "request"  /\ log[i].what \in Callers
             \/ log[i].kind = "decision" /\ log[i].what \in Reviews
    /\ versions \in Seq(Exec)
    /\ dispatched \subseteq 1..Len(log)
    /\ bills \in [Exec -> Nat]
    /\ rows \in [Exec -> Row]
    /\ {cursor, stash} \subseteq Exec \union {0}
    /\ tosend \subseteq Exec
    /\ flag \in BOOLEAN
    /\ place \in [Exec -> {"none", "step", "model"}]
    /\ \A e \in Exec : place[e] # "none" => rows[e].status = "running"
    /\ turn.call \in Callers \union {"none", "cancel", "handler"}
    /\ turn.call = "none" <=> turn.at = "none"

Init ==
    /\ log = <<Status("pending", "none", 0)>>
    /\ versions = <<>>
    /\ dispatched = {}
    /\ bills = [e \in Exec |-> 0]
    /\ rows = [e \in Exec |-> NoRow]
    /\ cursor = 0
    /\ stash = 0
    /\ tosend = {}
    /\ flag = FALSE
    /\ place = [e \in Exec |-> "none"]
    /\ turn = Idle
    /\ past = [events |-> 0, faults |-> 0,
               redone |-> {}, unheard |-> {}, held |-> 0,
               source |-> [e \in Exec |-> 0]]
----------------------------------------------------------------------------
(* What the code folds from the log. *)

IsStatus(e)  == e.kind = "status"
IsRequest(e) == e.kind = "request"

LastStatus  == SelectLastInSeq(log, IsStatus)
LastRequest == SelectLastInSeq(log, IsRequest)
LastRunning == SelectLastInSeq(log, LAMBDA e : IsStatus(e) /\ e.what = "running")

WorkStatus == log[LastStatus].what
Requests   == Cardinality({i \in 1..Len(log) : IsRequest(log[i])})

RequestedSince(seq) == LastRequest > seq

\* _current_execute_requested: the execution of this attempt, 0 if it has
\* not dispatched.
CurrentRequest ==
    IF \/ LastRequest > LastRunning
       \/ LastRequest > 0 /\ LastRunning > 0 /\ log[LastRunning].of = Requests
    THEN Requests
    ELSE 0

\* latest_execute_handler_failed, failed_handler_close_error
HandlerFailed == CurrentRequest # 0 /\ rows[CurrentRequest].status = "failed"

\* A reopen that no request follows.
HalfOpen(why) ==
    /\ WorkStatus = "pending"
    /\ log[LastStatus].why = why
    /\ ~RequestedSince(LastStatus)

\* The status before a half-open rework, "none" when it is not one to go back to.
Prior ==
    LET before == SelectLastInSubSeq(log, 1, LastStatus - 1, IsStatus) IN
    IF HalfOpen("rework") /\ before # 0 /\ log[before].what \in {"completed", "failed"}
    THEN log[before].what
    ELSE "none"

Current == Len(versions)

\* latest_decision of the current version, 0 for none
Latest == SelectLastInSeq(log, LAMBDA e : e.kind = "decision" /\ e.of = Current)

IsRework(d) == d # 0 /\ log[d].what = "changes_requested"

\* _rework_request_withdrawn
Withdrawn ==
    LET opens == {i \in (Latest + 1)..Len(log) :
                     IsStatus(log[i]) /\ log[i].why = "rework"}
        first == {i \in opens : log[i].what = "pending" /\
                     \A j \in opens : log[j].what = "pending" => i <= j}
    IN  /\ IsRework(Latest)
        /\ opens # {}
        /\ \/ ~RequestedSince(Latest)
           \/ \E i \in first : ~RequestedSince(i)

\* current_review_status
Shown == IF Latest = 0 \/ Withdrawn THEN "unreviewed" ELSE log[Latest].what
----------------------------------------------------------------------------
Free == turn = Idle

At(calls, step) == turn.call \in calls /\ turn.at = step

Step(at) == turn' = [turn EXCEPT !.at = at]
Done == turn' = Idle

Emit(event) == log' = Append(log, event)

\* A request's dispatcher is a task the loop runs before it takes another
\* call; only a cancel may be ready in the same turn.
Call ==
    /\ tosend = {}
    /\ past.events < MaxEvents
    /\ past' = [past EXCEPT !.events = @ + 1]

\* request_work_item_execute, called by execute, rework and rerun: the flag
\* of an earlier cancel goes first, then three commits.
Execute ==
    /\ Free
    /\ Call
    /\ \/ WorkStatus \in {"pending", "failed"}
       \/ WorkStatus = "running" /\ HandlerFailed
    /\ flag' = FALSE
    /\ turn' = Turn("execute", "running", 0)
    /\ UNCHANGED <<durable, tosend, place>>

SetRunning ==
    /\ At({"execute", "rework", "rerun"}, "running")
    /\ Emit(Status("running", "none", 0))
    /\ Step("request")
    /\ UNCHANGED <<versions, dispatched, bills, rows, cursor, stash, memory, past>>

\* The dispatcher of the request is a task of the loop.
RequestExecution ==
    /\ At({"execute", "rework", "rerun", "boot"}, "request")
    /\ Emit(Request(turn.call, turn.arg))
    /\ tosend' = tosend \union {Requests + 1}
    /\ Step("discard")
    /\ UNCHANGED <<versions, dispatched, bills, rows, cursor, stash, flag, place, past>>

DiscardStash ==
    /\ At({"execute", "rework", "rerun", "boot"}, "discard")
    /\ stash' = 0
    /\ CASE turn.call = "rework" -> Step("dispatch")
         [] turn.call = "boot"   -> Step("release")
         [] OTHER                -> Done
    /\ UNCHANGED <<log, versions, dispatched, bills, rows, cursor, memory, past>>

\* A review that is decided takes no other decision.
BugUndecided == Current > 0
Undecided == Current > 0 /\ Shown = "unreviewed"

\* decide_delivery(accepted): a repeated call changes nothing, and a version
\* whose rework was asked for is a conflict.
Accept ==
    /\ Free
    /\ Call
    /\ Undecided
    /\ Emit(Decision("accepted", Current))
    /\ UNCHANGED <<versions, dispatched, bills, rows, cursor, stash, memory, turn>>

\* request_rework with a decision to record.
AskRework ==
    /\ Free
    /\ Call
    /\ Undecided
    /\ WorkStatus # "running"
    /\ Emit(Decision("changes_requested", Current))
    /\ turn' = Turn("rework", "settle", Len(log) + 1)
    /\ UNCHANGED <<versions, dispatched, bills, rows, cursor, stash, memory>>

\* request_rework again: by its idempotency key, or for the rework that is
\* shown; while the brief runs only for the latest decision.
RetryRework(d) ==
    /\ Free
    /\ Call
    /\ log[d].kind = "decision" /\ IsRework(d)
    /\ WorkStatus = "running" => d = Latest
    /\ turn' = Turn("rework", "settle", d)
    /\ UNCHANGED <<durable, memory>>

\* The execution of a decision is requested already.
BugSent(d) == d \in dispatched
Sent(d) == RequestedSince(d)

\* _complete_rework_dispatch up to its first commit.
Settle ==
    /\ At({"rework"}, "settle")
    /\ LET d       == turn.arg
           settled == d # Latest \/ d \in dispatched
           halfway == Prior # "none" /\ stash # 0
       IN  \/ settled /\ Done
           \/ ~settled /\ Sent(d) /\ Step("dispatch")
           \/ ~settled /\ ~Sent(d) /\ halfway /\ Step("restore")
           \/ ~settled /\ ~Sent(d) /\ ~halfway /\ Step("note")
    /\ UNCHANGED <<durable, memory, past>>

\* The note on the plan; a finished brief is then reopened.
NoteRework ==
    /\ At({"rework"}, "note")
    /\ \/ /\ WorkStatus \in {"completed", "failed"}
          /\ turn' = [turn EXCEPT !.at = "open", !.prior = WorkStatus]
       \/ /\ WorkStatus \notin {"completed", "failed"}
          /\ Step("take")
    /\ UNCHANGED <<durable, memory, past>>

\* rerun_project_brief, by the user or by a timer.
Rerun ==
    /\ Free
    /\ Call
    /\ WorkStatus = "completed" /\ Current > 0
    /\ turn' = Turn("rerun", "open", 0)
    /\ UNCHANGED <<durable, memory>>

Reopen ==
    /\ At({"rework", "rerun"}, "open")
    /\ Emit(Status("pending", turn.call, 0))
    /\ past' = [past EXCEPT !.held = cursor]
    /\ Step("take")
    /\ UNCHANGED <<versions, dispatched, bills, rows, cursor, stash, memory>>

\* The operational rows a take leaves.
BugLeft == cursor
Left == 0

\* take_plan_resumes_for_work_item, then on to the request: a brief that is
\* running already only lacks its ExecuteRequested.
TakeCursor ==
    /\ At({"rework", "rerun"}, "take")
    /\ stash' = cursor
    /\ cursor' = Left
    /\ \/ /\ WorkStatus = "running"
          /\ turn' = [turn EXCEPT !.at = "request", !.held = cursor]
          /\ UNCHANGED flag
       \/ /\ WorkStatus # "running"
          /\ turn' = [turn EXCEPT !.at = "running", !.held = cursor]
          /\ flag' = FALSE
    /\ UNCHANGED <<log, versions, dispatched, bills, rows, tosend, place, past>>

MarkDispatched ==
    /\ At({"rework"}, "dispatch")
    /\ dispatched' = dispatched \union {turn.arg}
    /\ Done
    /\ UNCHANGED <<log, versions, bills, rows, cursor, stash, memory, past>>

\* Operational rows win over the stash.
BugUnstashed == cursor
Unstashed == IF cursor = 0 THEN stash ELSE cursor

\* restore_rerun_plan_stash
RestoreStash ==
    /\ At({"rework", "boot"}, "restore")
    /\ cursor' = Unstashed
    /\ stash' = 0
    /\ Step("put")
    /\ UNCHANGED <<log, versions, dispatched, bills, rows, memory, past>>

\* restore_half_open_rework and its twin for a rerun, _restore_half_open_reruns.
PutBack ==
    /\ At({"rework", "boot"}, "put")
    /\ Emit(IF HalfOpen("rerun") THEN Status("completed", "rerun", 0)
                                 ELSE Status(Prior, "rework", 0))
    /\ IF turn.call = "boot" THEN Step("release") ELSE Done
    /\ UNCHANGED <<versions, dispatched, bills, rows, cursor, stash, memory, past>>

\* _restore_completed_brief: the status first, then what the rerun took.
UndoRerun ==
    /\ At({"rerun"}, "undo")
    /\ Emit(Status("completed", "rerun", 0))
    /\ Step("return")
    /\ UNCHANGED <<versions, dispatched, bills, rows, cursor, stash, memory, past>>

ReturnCursor ==
    /\ At({"rerun"}, "return")
    /\ \/ turn.held = 0 /\ UNCHANGED <<cursor, stash>>
       \/ turn.held # 0 /\ cursor' = turn.held /\ stash' = 0
    /\ Done
    /\ UNCHANGED <<log, versions, dispatched, bills, rows, memory, past>>

BugCancels(e) == rows[e].status = "queued"
Cancels(e) == Live(e)

\* cancel_project_brief: every execution Lane A tracks fails as cancelled and
\* its task is cancelled; one not enqueued yet has only the flag.
Cancel ==
    /\ Free
    /\ past.events < MaxEvents
    /\ WorkStatus \in {"pending", "running"}
    /\ flag' = TRUE
    /\ rows' = [e \in Exec |-> IF Cancels(e) THEN [rows[e] EXCEPT !.status = "failed"] ELSE rows[e]]
    /\ place' = [e \in Exec |-> "none"]
    /\ turn' = Turn("cancel", "stop", 0)
    /\ past' = [past EXCEPT !.events = @ + 1, !.unheard = @ \union tosend]
    /\ UNCHANGED <<log, versions, dispatched, bills, cursor, stash, tosend>>

CancelStatus ==
    /\ At({"cancel"}, "stop")
    /\ Emit(Status(IF Current > 0 THEN "completed" ELSE "failed", "cancel", 0))
    /\ Done
    /\ UNCHANGED <<versions, dispatched, bills, rows, cursor, stash, memory, past>>
----------------------------------------------------------------------------
(* The handler, on_execute_requested. *)

Enqueue(e) ==
    /\ Free
    /\ e \in tosend
    /\ tosend' = tosend \ {e}
    /\ rows' = [rows EXCEPT ![e].status = "queued"]
    /\ UNCHANGED <<log, versions, dispatched, bills, cursor, stash, flag, place, turn, past>>

Handle(at, e) == turn' = Turn("handler", at, e)

Begin(e) ==
    /\ Free
    /\ rows[e].status = "queued"
    /\ rows' = [rows EXCEPT ![e].status = "running"]
    /\ \/ flag /\ Handle("cancelled", e)
       \/ ~flag /\ WorkStatus # "running" /\ Handle("stamp", e)
       \/ ~flag /\ WorkStatus = "running" /\ Handle("load", e)
    /\ UNCHANGED <<log, versions, dispatched, bills, cursor, stash, memory, past>>

Return(answer) ==
    rows' = [rows EXCEPT ![turn.arg].status = "completed", ![turn.arg].answer = answer]

\* The cancel was heard before the first step: the status is the cancel's.
ReportCancelled ==
    /\ At({"handler"}, "cancelled")
    /\ flag' = FALSE
    /\ Return("cancelled")
    /\ Done
    /\ UNCHANGED <<log, versions, dispatched, bills, cursor, stash, tosend, place, past>>

StampRunning ==
    /\ At({"handler"}, "stamp")
    /\ Emit(Status("running", "none", turn.arg))
    /\ Step("load")
    /\ UNCHANGED <<versions, dispatched, bills, rows, cursor, stash, memory, past>>

\* load_plan_progress: a cursor skips the step.
LoadProgress ==
    /\ At({"handler"}, "load")
    /\ \/ /\ cursor = 0
          /\ place' = [place EXCEPT ![turn.arg] = "step"]
          /\ Done
          /\ UNCHANGED past
       \/ /\ cursor # 0
          /\ Step("compile")
          /\ past' = [past EXCEPT !.source[turn.arg] = cursor]
          /\ UNCHANGED place
    /\ UNCHANGED <<durable, tosend, flag>>

StepReturns(e) ==
    /\ Free
    /\ place[e] = "step"
    /\ place' = [place EXCEPT ![e] = "none"]
    /\ \/ /\ cursor' = e
          /\ past' = [past EXCEPT !.source[e] = e]
          /\ Handle("compile", e)
       \/ /\ Handle("fail", e)
          /\ UNCHANGED <<cursor, past>>
    /\ UNCHANGED <<log, versions, dispatched, bills, rows, stash, tosend, flag>>

\* successful_brief_llm_calls
BugPaid(e) == FALSE
Paid(e) == bills[e] > 0

Published(e) == \E v \in 1..Current : versions[v] = e

\* compile_project_brief_delivery up to the model call.  A brief without
\* readable sources, over the cost cap or with unchanged sources needs none.
Compile ==
    /\ At({"handler"}, "compile")
    /\ LET e == turn.arg IN
          \/ Published(e) /\ Step("complete") /\ UNCHANGED place
          \/ ~Published(e) /\ Step("publish") /\ UNCHANGED place
          \/ ~Published(e) /\ Paid(e) /\ Step("fail") /\ UNCHANGED place
          \/ /\ ~Published(e) /\ ~Paid(e)
             /\ place' = [place EXCEPT ![e] = "model"]
             /\ Done
    /\ UNCHANGED <<durable, tosend, flag, past>>

\* An answer is billed, good or not; a failed call may still be published,
\* as a fallback.
ModelReturns(e) ==
    /\ Free
    /\ place[e] = "model"
    /\ place' = [place EXCEPT ![e] = "none"]
    /\ \E at \in {"bill", "fail", "publish"} : Handle(at, e)
    /\ UNCHANGED <<durable, tosend, flag, past>>

Bill ==
    /\ At({"handler"}, "bill")
    /\ bills' = [bills EXCEPT ![turn.arg] = @ + 1]
    /\ \E at \in {"publish", "fail"} : Step(at)
    /\ UNCHANGED <<log, versions, dispatched, rows, cursor, stash, memory, past>>

Publish ==
    /\ At({"handler"}, "publish")
    /\ versions' = Append(versions, turn.arg)
    /\ Step("complete")
    /\ UNCHANGED <<log, dispatched, bills, rows, cursor, stash, memory, past>>

Finish(at, status) ==
    /\ At({"handler"}, at)
    /\ Emit(Status(status, "none", turn.arg))
    /\ turn' = [turn EXCEPT !.at = "answer", !.prior = status]
    /\ UNCHANGED <<versions, dispatched, bills, rows, cursor, stash, memory, past>>

\* ExecuteCompleted and the end of the row.
Answer ==
    /\ At({"handler"}, "answer")
    /\ Return(turn.prior)
    /\ Done
    /\ UNCHANGED <<log, versions, dispatched, bills, cursor, stash, memory, past>>

BugCanRetry(e) == rows[e].tries <= MaxRetries
CanRetry(e) == rows[e].tries < MaxRetries

\* The execution fails in Lane A: another attempt, or a dead letter.
TryAgain(e) ==
    \/ /\ CanRetry(e)
       /\ rows' = [rows EXCEPT ![e].status = "queued", ![e].tries = @ + 1]
       /\ Done
    \/ /\ ~CanRetry(e)
       /\ rows' = [rows EXCEPT ![e].status = "failed"]
       /\ Handle("close", e)

TimesOut(e) ==
    /\ Free
    /\ place[e] # "none"
    /\ past.events < MaxEvents
    /\ past' = [past EXCEPT !.events = @ + 1]
    /\ place' = [place EXCEPT ![e] = "none"]
    /\ TryAgain(e)
    /\ UNCHANGED <<log, versions, dispatched, bills, cursor, stash, tosend, flag>>

\* The dead letter is that of the running attempt.
BugCloses(e) == FALSE
Closes(e) == WorkStatus = "running" /\ CurrentRequest = e

\* close_dead_lettered_domain_work
CloseDeadLettered ==
    /\ At({"handler"}, "close")
    /\ \/ /\ Closes(turn.arg)
          /\ Emit(Status("failed", "none", 0))
       \/ /\ ~Closes(turn.arg)
          /\ UNCHANGED log
    /\ Done
    /\ UNCHANGED <<versions, dispatched, bills, rows, cursor, stash, memory, past>>
----------------------------------------------------------------------------
(* A write fails. *)

Fault ==
    /\ past.events < MaxEvents
    /\ past' = [past EXCEPT !.events = @ + 1, !.faults = @ + 1]

\* The call ends with the error, unless it has something to undo.  A rework
\* that is running already is left to the next boot.
CallFails ==
    /\ turn.call \in {"execute", "rework", "rerun", "cancel"}
    /\ turn.at # "settle"
    /\ Fault
    /\ LET reruns  == turn.call = "rerun" /\ turn.at \in {"take", "running", "request"}
           reworks == turn.call = "rework" /\ turn.at = "running" /\ turn.prior # "none"
       IN  \/ reruns /\ Step("undo")
           \/ reworks /\ Step("restore")
           \/ ~reruns /\ ~reworks /\ Done
    /\ UNCHANGED <<durable, memory>>

\* A bill that cannot be written is logged only, like a close.
HandlerFails ==
    /\ At({"handler"}, turn.at)
    /\ turn.at \notin {"load", "compile"}
    /\ past.events < MaxEvents
    /\ \/ turn.at = "bill" /\ Step("publish") /\ UNCHANGED rows
       \/ turn.at = "close" /\ Done /\ UNCHANGED rows
       \/ turn.at \notin {"bill", "close"} /\ TryAgain(turn.arg)
    /\ past' = [past EXCEPT !.events = @ + 1, !.faults = @ + 1,
                            !.redone = @ \union {turn.arg}]
    /\ flag' = (flag /\ turn.at # "cancelled")
    /\ UNCHANGED <<log, versions, dispatched, bills, cursor, stash, tosend, place>>

BootFails ==
    /\ turn.call = "boot"
    /\ turn.at \notin {"rows", "work"}
    /\ Fault
    /\ IF turn.at = "release" THEN Done ELSE Step("release")
    /\ UNCHANGED <<durable, memory>>
----------------------------------------------------------------------------
(* Death, and RuntimeLoop.start. *)

Crash ==
    /\ past.events < MaxEvents
    /\ past' = [past EXCEPT !.events = @ + 1,
                            !.redone = @ \union {e \in Exec : rows[e].status = "running"}]
    /\ tosend' = {}
    /\ flag' = FALSE
    /\ place' = [e \in Exec |-> "none"]
    /\ turn' = Turn("boot", "rows", 0)
    /\ UNCHANGED durable

BugInterrupted(e) == FALSE
Interrupted(e) == rows[e].status = "running"

\* Scheduler._recover
BootRows ==
    /\ At({"boot"}, "rows")
    /\ rows' = [e \in Exec |->
                   IF ~Interrupted(e) THEN rows[e]
                   ELSE IF CanRetry(e)
                        THEN [rows[e] EXCEPT !.status = "queued", !.tries = @ + 1]
                        ELSE [rows[e] EXCEPT !.status = "failed"]]
    /\ Step("work")
    /\ UNCHANGED <<log, versions, dispatched, bills, cursor, stash, memory, past>>

\* A reopen for a boot to undo.
BugHalfway == Prior # "none"
Halfway == HalfOpen("rerun") \/ Prior # "none"

\* _recover_interrupted_background_tasks
BootWork ==
    /\ At({"boot"}, "work")
    /\ LET running    == WorkStatus = "running"
           row        == IF CurrentRequest = 0 THEN NoRow ELSE rows[CurrentRequest]
       IN  \/ running /\ row.status = "none" /\ Step("request")
           \/ running /\ row.status \in {"queued", "running"} /\ Step("release")
           \/ running /\ row.status \in {"completed", "failed"} /\ Step("sync")
           \/ ~running /\ Halfway /\ Step("restore")
           \/ ~running /\ ~Halfway /\ Step("release")
    /\ UNCHANGED <<durable, memory, past>>

\* _emit_running_work_failed, _sync_completed_execute_status
BootSync ==
    /\ At({"boot"}, "sync")
    /\ LET row == rows[CurrentRequest] IN
          Emit(Status(IF row.status = "failed" THEN "failed" ELSE row.answer, "none", 0))
    /\ Step("release")
    /\ UNCHANGED <<versions, dispatched, bills, rows, cursor, stash, memory, past>>

\* release_finished_rerun_stashes
BootRelease ==
    /\ At({"boot"}, "release")
    /\ stash' = IF HalfOpen("rerun") \/ HalfOpen("rework") THEN stash ELSE 0
    /\ Done
    /\ UNCHANGED <<log, versions, dispatched, bills, rows, cursor, memory, past>>
----------------------------------------------------------------------------
CallStarts ==
    \/ Execute \/ Accept \/ AskRework \/ Rerun \/ Cancel
    \/ \E d \in 1..Len(log) : RetryRework(d)

CallStep ==
    \/ SetRunning \/ RequestExecution \/ DiscardStash
    \/ Settle \/ NoteRework \/ Reopen \/ TakeCursor \/ MarkDispatched
    \/ RestoreStash \/ PutBack \/ UndoRerun \/ ReturnCursor
    \/ CancelStatus

HandlerStep ==
    \/ ReportCancelled \/ StampRunning \/ LoadProgress \/ Compile \/ Bill \/ Publish
    \/ Finish("complete", "completed") \/ Finish("fail", "failed")
    \/ Answer \/ CloseDeadLettered

BootStep == BootRows \/ BootWork \/ BootSync \/ BootRelease

LaneA(e) == Enqueue(e) \/ Begin(e) \/ StepReturns(e) \/ ModelReturns(e) \/ TimesOut(e)

Next ==
    \/ CallStarts \/ CallStep
    \/ \E e \in Exec : LaneA(e)
    \/ HandlerStep
    \/ BootStep
    \/ CallFails \/ HandlerFails \/ BootFails
    \/ Crash

Spec == Init /\ [][Next]_vars

\* The loop does not rest while a chain, a task or a boot can go on, and a plan
\* step or a model call returns or times out.
Fairness == WF_vars(CallStep \/ HandlerStep \/ BootStep \/ \E e \in Exec : LaneA(e))

FairSpec == Spec /\ Fairness
----------------------------------------------------------------------------
\* No execution is billed twice for the model or publishes two versions,
\* however often Lane A runs it again (work_delivery.py:732, :783).
PaidAndPublishedOnce ==
    \A e \in Exec :
        /\ bills[e] <= 1
        /\ Cardinality({v \in 1..Current : versions[v] = e}) <= 1

\* A version that was accepted stays accepted as long as it is the current
\* one: neither a retried rework nor a recovery reopens its review
\* (work_delivery.py:1278).
AcceptedIsFinal ==
    [][Shown = "accepted" /\ Current' = Current => Shown' = "accepted"]_vars

\* A rework decision starts at most one execution, however often the call is
\* repeated after a failure (work_delivery.py:1466).
ReworkStartsOnce ==
    \A d \in 1..Len(log) : IsRework(d) =>
        Cardinality({i \in 1..Len(log) : IsRequest(log[i]) /\ log[i].what = "rework"
                                         /\ log[i].of = d}) <= 1

\* Retried executions and repeated calls do nothing twice that costs the user.
NothingTwice == PaidAndPublishedOnce /\ ReworkStartsOnce

\* A reopen that was undone leaves the plan cursor it took where it was, unless
\* a write failed: then _restore_completed_brief may be cut between the status
\* and the cursor (work_delivery.py:1662, plan_resume.py:423).
UndoKeepsCursor ==
    Free /\ log[LastStatus].why \in {"rework", "rerun"} /\ WorkStatus # "pending"
        => cursor = past.held \/ past.faults > 0

\* Executions that outlive the end of their run: taken up again after a
\* death or a failed write, or cancelled before they were enqueued.
Stray == past.redone \union past.unheard
StrayWrote == \E i \in 1..Len(log) : IsStatus(log[i]) /\ log[i].of \in Stray

\* A brief that is not running has no execution at work but a stray one,
\* until a stray one has set its status (agent_scheduler.py:714).
QuietMeansIdle ==
    Free /\ WorkStatus # "running" =>
        \A e \in Exec : Live(e) => e \in Stray \/ StrayWrote

\* An execution that Lane A or the loop will go on with.
Carried(e) == rows[e].status = "queued" \/ place[e] # "none" \/ e \in tosend

\* A running brief has an execution that will end it, unless a write failed
\* or a stray execution has set the status: a run that is stamped by another
\* execution than the one requested last is closed by no dead letter
\* (runtime_loop.py:418, execute_handlers.py:308).
RunningIsCarried ==
    Free /\ WorkStatus = "running" /\ past.faults = 0 =>
        \/ \E e \in Exec : Carried(e)
        \/ StrayWrote

\* The status of the brief and the executions of Lane A agree, both ways.
StatusIsTrue == QuietMeansIdle /\ RunningIsCarried

\* A rework or a rerun reads its sources again: it compiles from the cursor
\* of another execution only if one of the two is stray, or after a stray one
\* has set the status (work_delivery.py:1752).
SourcesReadAgain ==
    \A e \in Exec : \A i \in 1..Len(log) :
        /\ Published(e)
        /\ IsRequest(log[i]) /\ log[i].what \in {"rework", "rerun"}
        /\ Cardinality({j \in 1..i : IsRequest(log[j])}) = e
        => past.source[e] = e \/ {e, past.source[e]} \intersect Stray # {} \/ StrayWrote

\* When a boot ends, no reopen is left half done, a running brief is carried
\* and no stash is left behind, unless a write failed (runtime_loop.py:517).
BootSettles ==
    [][turn.call = "boot" /\ turn'.call = "none" /\ past'.faults = 0 =>
          /\ ~HalfOpen("rerun")' /\ (Prior = "none")'
          /\ stash' = 0
          /\ (WorkStatus = "running")' => \E e \in Exec : Carried(e)']_vars

\* A running brief comes to an end, unless a write failed or a stray execution
\* has set the status (runtime_loop.py:908).
Finishes ==
    WorkStatus = "running" ~> WorkStatus # "running" \/ past.faults > 0 \/ StrayWrote
=============================================================================
