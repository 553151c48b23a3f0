# personal-ai-runtime: verification project

TLA+ models of the durable core of the personal AI runtime (`src/backend/app/core/runtime`),
the TLC configurations that check them, and theorems about them checked by TLAPS.
All source paths below are relative to `src/backend/app/` unless they say otherwise.

Contents:

1. Inventory: the parts of the system, their state, operations and hard behaviours
2. Plan: the modules, what composes what, runs and theorems
3. The modules and how they correspond to the code
4. The runs: what each one checks, bounds, fairness
5. What is proved, from what and how
6. What disagrees with the documentation, and what the properties excuse
7. What is not modelled, and why

## 1. Inventory

The repository has 816 source files. The core is a local-first agent runtime in Python
(`backend/app`, 176 files, 46k lines): an event-sourced kernel on SQLite, a scheduler that runs
handlers for logged events, a governance layer that stops high-risk tool calls until a user
approves, and a runtime loop that drives background work. On top sit an LLM chat loop
(`core/agents`), tools (`core/harness`), product features (`product`), an HTTP API (`api`), a
React frontend and a desktop shell.

One process runs one asyncio loop. Handlers are coroutines on that loop; some tools run in
threads. Everything that must survive a restart is in SQLite; everything else (the queue, the task
table, cancel flags, locks, futures) is rebuilt or lost.

### 1.1 Lane A scheduler — `core/runtime/agent_scheduler.py`, `scheduled_execution.py`, `execution_events.py`, `kernel/execution_repository.py`, `kernel/projectors_execution.py`

- **State.** `_pending` (a list), `_active` (execution id to asyncio task), `_cancelled_executions`
  (flags), the `ScheduledExecution` objects, and the projected table `handler_executions`.
- **Operations.** `enqueue` (fan-out to all handlers of an event, all or none), the scheduling loop,
  `_process_work_item`, `_maybe_retry`, `request_cancel`, `reclaim_stale_leases`, `_recover`,
  `replay_dead_letters`, `requeue_pending`, the done callback `_forget_active`.
- **Interactions.** Called by event dispatch for every logged event with a handler; by the runtime
  loop for lease reclaim; by cancel requests; each transition of an object is an event emitted
  through the kernel, whose projector writes the row.
- **Hard.** Objects are shared by queue and tasks; a cancel is delivered at an await of its target; a
  reclaim requeues an object another task still unwinds on; several commits in one synchronous
  callback with a possible death between them; rebuilt from rows after a death.
- **Correct when.** Each open row has exactly one carrier; none is stranded; a cancel and a
  completion are final; attempts are bounded; dead letters are exactly the terminal failures; the
  queue obeys its cap; every execution settles.

### 1.2 Plan execution and approval resume — `handlers/plan_runner.py`, `execute_handlers.py`, `approve_handlers.py`, `plan_resume.py`

- **State.** Rows of `plan_resumes` under several key families: the resume row of an approval,
  `aprdis:` dispatch intents, `progress:` cursors, `stepres:` and `idem:` step results; an in-memory
  lock per approval.
- **Operations.** Run the steps of a plan; stop at one that needs approval and register how to go on;
  on approval run that step and dispatch the rest of the plan as a new execution; on denial or
  failure drop the rows; skip steps that have a result.
- **Interactions.** Runs inside scheduler handlers, asks governance for capabilities, writes work item
  status, emits `ExecuteCompleted` for whoever waits.
- **Hard.** Every row is its own commit; the handler may be timed out, cancelled or die between any
  two of them and is then retried from the beginning; users click twice or both ways.
- **Correct when.** Steps run in order, a step with a result does not run again, an approval pays for
  one call, the plan goes on once and does go on.

### 1.3 Capability governance — `capability_governance.py`, `kernel/governance_ops.py`, `api/approvals.py`

- **State.** `approvals` (status, expiry), policies, in-memory taint marks, `cap_intent:` rows.
- **Operations.** Request, grant, deny, expire, consume; invoke a capability with or without approval.
- **Hard.** The API checks the status long before the handler consumes it; the sweep expires
  meanwhile; the grant is consumed before the tool runs.
- **Correct when.** An approval is resolved once and for good, and pays for at most one call of the
  tool it was requested for.

### 1.4 Runtime loop — `runtime_loop.py`

- **State.** Its tasks; timers; dispatch tasks that wait for completions.
- **Operations.** Boot recovery of interrupted work items, timers, reactions, dispatch of pending
  background items, expiry sweep, lease reclaim, checkpoints and pruning.
- **Hard.** A dispatch task can outlive what it waits for; boot recovery reads rows left by a death
  anywhere.
- **Correct when.** Every pending item is dispatched once at a time; recovery moves an interrupted
  item to a state that matches its execution; a timer fires once per due time.

### 1.5 Command submission and event dispatch — `kernel/event_dispatch.py`

- **State.** Futures by correlation id, completion events, threads and their loops.
- **Operations.** `emit_event` hands a committed event to the scheduler in a task of its own;
  `submit_command` waits for a completion or a timeout; wake-up from other threads.
- **Hard.** An event is committed and its enqueue is lost with the process; a future resolved on a
  loop that is gone; a timeout racing a late answer.
- **Correct when.** A waiter gets the answer of its own command, once, or a timeout.

### 1.6 Work items — `read_ports/work.py`, `work_item_engine.py`, `api/work_items.py`

- **State.** `work_items` (status, metadata with the current `ExecuteRequested`), goals,
  dependencies.
- **Operations.** Create, execute, cancel, patch, post status, ready check of dependencies.
- **Hard.** Two ways of writing a status, one of which bypasses the state machine; running is stamped
  before the request event exists.
- **Correct when.** Terminal states are final; an item is not run while its dependencies are open.

### 1.7 Event store, projections and sovereignty — `kernel/kernel.py`, `kernel/projectors_*.py`, `kernel/sovereignty_ops.py`

- **State.** `event_log`, projections, `projection_checkpoints`, exported logs.
- **Operations.** `emit_event` (append and project in one transaction), checkpoint, rebuild, export,
  import (which replaces the log and rebuilds).
- **Hard.** A checkpoint reads the log and the tables, and is saved, in separate steps; an import runs
  in a thread and may replace the log between any two commits of the loop.
- **Correct when.** Projections equal a replay of the log.

### 1.8 Memory index — `kernel/memory_index_sync.py`, `store/vector.py`, `memory.py`

- **State.** `memories`, the vector collection (not in SQLite), `memory_index_repairs`.
- **Operations.** Commit an event, then bring the index up to date; on a failure write a repair row;
  drain rows in a maintenance tick; reconcile the whole index after an import.
- **Hard.** Real threads: commits take no lock, index work takes one, so the two may come in different
  orders; two stores with no common transaction; a death or a failing repair write between them.
- **Correct when.** Every disagreement between memories and vectors is owed to somebody, and is made
  good once writers and faults stop.

### 1.9 Project briefs — `product/work_delivery.py`, `product/project_brief.py`

- **State.** Published deliveries, review decisions, the rerun stash and the plan cursor in
  `plan_resumes`, LLM bills; in the plan, skip tokens (size and mtime of a file, id digest of a mailbox)
  that let a step confirm a source unchanged without reading it.
- **Operations.** Execute, compile, publish, accept, ask for rework, rerun, cancel; the undo of an
  attempt that never started; recovery of half-open attempts at boot.
- **Hard.** Each call is a chain of separate commits over several stores; Lane A may run an execution
  again after it has paid or published; tokens, cursor and versions are written at different times.
- **Correct when.** Nothing is paid or published twice, a decision is carried out once, an undo restores
  what it took, and a version describes what its run saw.

### 1.10 Inbox — `product/inbox.py`, `handlers/inbox_poll_handlers.py`, `core/harness/builtin_tools/email.py`, `cron_registry.py`

- **State.** The mailbox on the IMAP server; `inbox_emails` (status, notified, digested); the cursor, which is the `next_uid` of
  the latest `InboxPollCompleted`; the row of the `inbox_poll` timer in `timer_events`.
- **Operations.** The timer fires and is created again; a poll reads the unseen ids, a page of mail and a new cursor, brings the
  status of known mail up to date, lets the model classify new mail, records, announces and flags it; the user marks a mail.
- **Hard.** The mailbox changes between the reads of one poll; the timer's poll and the page's overlap at the call of the model; a
  poll that is cut off is run again from its old cursor; a mark is on the server before it is in the table; fire and re-arm are two
  commits.
- **Correct when.** No mail ends below the cursor without a row, what is important is announced, what the user has handled stays so,
  and the table comes to agree with the mailbox.

### 1.11 The other parts

| part | state and operations | hard behaviour | correct when |
| --- | --- | --- | --- |
| other timers (`cron_registry.py`, `runtime_loop.py`) | timers table, cron registry | a clock that jumps | each due time fires once |
| reactions (`reaction_registry.py`) | cooldowns, periodic evaluation | evaluation beside changes | at most one reaction per cooldown |
| taint (`taint.py`) | marks with a time to live | approvals outlive marks | a tainted write is always gated |
| chat loop (`core/agents`) | conversation, checkpoints, tool rounds | replay of an interrupted loop | no tool call twice |
| LLM failover (`core/agents/llm_failover.py`) | provider order, budgets | retries across providers | bounded, no double stream |
| MCP (`core/harness/mcp_*.py`) | connections, tool registrations | revocation against in-flight calls | no call through a revoked server |
| monitors, digests (`product/inbox_monitors.py`, `url_monitors.py`, `morning_brief.py`) | filter rules, last hashes | check beside edit | a change is reported once |
| notifications (`notification_bridge.py`) | websocket clients | none durable | best effort |
| database, instance lock (`store/`) | connection, lock file | second process | one writer |
| container, configuration, HTTP API, frontend, desktop, scripts | wiring and user interface | none of the core's | — |

`PROJECT.json` lists every part with its status, and the hazards with the line where each bites.

## 2. Plan

| # | module | about | state |
| --- | --- | --- | --- |
| 1 | `Scheduler` | Lane A, one action per callback segment | done |
| 2 | `SchedulerProofs` | theorems about it | types, queue cap, restart; under `PromptLoop` all its safety and action properties |
| 3 | `Approval` | abstract promise of governance | done |
| 4 | `PlanApproval` | a work item with gated steps; implements `Approval` | done |
| 5 | `PlanApprovalProofs` | refinement, safety and action properties | all its safety and action properties done |
| 6 | `LaggingCopy`, `LaggingCopyProofs` | abstract promise of a copy that may lag but not drift silently | done |
| 7 | `MemoryIndex` | post-commit sync, repair queue, import; implements `LaggingCopy` | done |
| 8 | `MemoryIndexProofs` | types and the refinement of `LaggingCopy` | done |
| 9 | `WorkTree` | goals, tasks, dependencies; log, projection, checkpoint, rebuild, restore | done |
| 9a | `WorkTreeProofs` | theorems about it | all its properties done |
| 10 | `BriefDelivery` | a brief under execute, accept, rework, rerun, cancel and recovery | done |
| 10a | `BriefDeliveryProofs` | theorems about it | all its safety and action properties done |
| 11 | `BriefReuse` | what a brief that runs again keeps of its last version | done |
| 12 | `BriefReuseProofs` | theorems about it | all three properties done |
| 13 | `InboxPoll` | the mailbox, its cursor, overlapping polls, marks, and the timer behind them | done |
| 14 | `InboxPollProofs` | theorems about it | its safety and action properties done |
| 15 | `Commands` | futures, completion events, threads, timeouts | open |
| 16 | `Reactions` | one-shot timers, cooldowns | open |
| 17 | `Governance` | taint, routing, policies, capability intents | open |
| 18 | `ChatCheckpoint`, `Mesh` | replay of tool loops, MCP revocation | open |

Order: the scheduler first, since every other behaviour runs on it; then the approval protocol, which is
what the program promises its user; then the stores that other parts rely on (memories, work items, log);
then the product feature with the longest chains of commits, the project brief, and the one that follows a store it does not own,
the inbox. `PlanApproval`, `BriefDelivery` and `InboxPoll` use a handler run (queued, running, retried, ended) in place of the scheduler.

Every invariant and action property of a passing run is stated by a theorem of section 5. Theorems worth proving next are those of the
open modules; the scheduler without `PromptLoop` keeps fewer properties, and which ones it keeps is not worked out.

## 3. The modules

Common ground. Everything but the threads of `MemoryIndex` and the restore in `WorkTree` runs on one event loop, so an action is the code between two points at
which something else may happen: an `await`, or the commit of an event (the process can die behind
any commit). A synchronous callback that commits several times is a chain of actions; the variable
`seg` (in `BriefDelivery`, `WorkTree` and `InboxPoll`: `turn`) names the chain that is under way, and while it is not `Idle` no other callback may act
(`Turn`). Only `Crash` cuts a chain. A module whose name ends in `Proofs` holds theorems only. A
definition whose name starts with `Bug` is the definition behind it with one slip (a dropped guard,
an off-by-one, a missing reset); no action uses it, and put in place of the true definition it makes
a named property fail, which shows that the property depends on that line of the code.

### 3.1 `Scheduler`

| code | model |
| --- | --- |
| `handler_executions` row | `row` (status, retry count, class of error, `dead_letter`), `absent` before it is requested |
| `started_at` against `running_lease_ttl_seconds` | `lease`: none, fresh or stale |
| `ScheduledExecution` objects | `mem`, a heap of `Copy` objects per execution, since a reclaim or replay loads a second object for one row |
| `_pending`, `_active`, `_cancelled_executions` | `queue` of objects, `active` (id to task), `flags` |
| asyncio tasks running `_process_work_item` | `task`: created, in its handler, in the retry delay, done (done callback not run yet), and `cancelled` when `task.cancel()` is not delivered yet |

- `Enqueue`, `EnqueueOne`, `RejectRequest`, `RejectFail` — `enqueue`: the whole fan-out if it fits
  below the cap, else each one is requested and failed with `queue_full`.
- `StartNext`, `Begin`, `BeginCancelled`, `NoHandler`, `HandlerOk`, `HandlerFails` — the loop and
  `_process_work_item` with all its early returns. `Begin` keeps the age of an earlier `started_at`.
- `SleepOver`, `SegPending`, `Requeue`, `Drop` — the way back to the queue after the retry delay, a
  reclaim, a restart or a replay, and the four different rules for a full queue.
- `CancelQueued`, `CancelActive`, `CancelDelivered` — `request_cancel` and what the
  `CancelledError` meets: before the first step the body never runs; in the retry delay no
  `except` clause of `_process_work_item` is active; in the handler the row may have changed.
- `LeaseAges`, `Reclaim`, `ReclaimRetrying` — `reclaim_stale_leases`, one row at a time.
- `Replay` — `replay_dead_letters` against a live scheduler.
- `Crash`, `Boot`, `RecoverRunning`, `RecoverWaiting`, `Recovered` — `_recover`: running rows first,
  in order of creation, charged with a retry or dead-lettered, then waiting rows are appended.
- `Forget` — the done callback, which pops whatever task the id maps to by then.

`PromptLoop` is a constant. asyncio runs a done callback and a pending cancellation in the next
iteration of the loop, and a timer that has come due in the same iteration runs after them or
before them, depending on when each was scheduled. `PromptLoop = TRUE`: the timer-driven callbacks
(scheduling tick, lease reclaim, replay) find the loop drained, which is the normal case since they are
milliseconds to minutes apart. `FALSE`: a tick may fall in between. Properties that need the normal
case are checked with `TRUE`; what breaks without it is shown (section 6). `RestartRequeuesOnce`, which must
hold in either case, is proved for both and for any number of objects and tasks per execution.

### 3.2 `Approval` and `PlanApproval`

`Approval` is the promise: an approval is requested, resolved once and for good (approved,
denied, expired), and an approved one pays for at most one call. `PlanApproval` implements it:
`approval` and `used` are mapped to themselves, and everything else must stutter.

| code | model |
| --- | --- |
| `work_items.status` | `wi` |
| `approvals.status` | `approval` |
| `plan_resumes` rows | `resume` (by approval), `intent` (`aprdis:`), `progress` (`progress:`), `stepres` (`stepres:`), `idem` (`idem:`) |
| `metadata._current_execute_requested` | `current` |
| handler executions of `ExecuteRequested` and `ApproveRequested` | `run`: where the handler is, its `resume_from`, its current step, its approval, its decision, its correlation |
| `_approval_locks` | `Locked`: some run is in the code under the lock |
| `_dispatch_bg` | `dispatch` |
| `ExecuteRequested` events with an approval id | `requested` |

- `Execute`, `RequestExecute` — `request_work_item_execute`; `DispatchClaim`, `DispatchSubmit`,
  `DispatchFails` — `_process_background_tasks` and its task; `Decide` — the approve and reject
  endpoints; `Enqueue` — the task that hands a logged event to the scheduler.
- `BeginExecute`, `PlanOver`, `SkipStep`, `CallStep`, `RequestApproval`, `Register`, `PassPending`,
  `StepReturns`, `RecordIdem`, `RecordStep`, `Progress`, `Close`, `Report`, `Return` —
  `on_execute_requested` and `run_plan_steps`, commit by commit.
- `WaitForLock`, `Acquire`, `CallApproved`, `ApprovedReturns`, `SaveIntent`, `TakeResume`,
  `EmitResume`, `ConfirmIntent`, `DropIntent`, `Deny` — `on_approve_requested`.
- `Expire`, `ExpireDenies` — `expire_stale_approvals`; `Cancel`, `CancelRun`, `CancelClears`,
  `CancelStamps` — `cancel_background_work_item`; `HandlerTimesOut` — the scheduler's timeout and
  retry, with the closing of the item behind a dead letter; `Crash`, `RecoverWork` — death, scheduler
  recovery and `_recover_interrupted_background_tasks`.

`gate`, `used`, `calls` and `passed` are history: which step an approval was for, calls on the
strength of it, calls per step, steps that succeeded. They are read by properties, never by guards;
the one exception is that the approved handler calls the tool that the approval names, and the name
is `gate`.

### 3.3 `LaggingCopy` and `MemoryIndex`

`LaggingCopy` is the promise of a second store without a common transaction: a copy disagrees with its source
about a key only while work on that key is owed, or after it was lost to a named event.
`MemoryIndex` implements it with `source` the `memories` table, `copy` the vector collection, `owed` what
a thread has in hand or the repair queue holds, `lost` the history variable of the same name.

| code | model |
| --- | --- |
| `memories.content`, vectors | `table`, `index` (by id; `Gone` for no row or no vector) |
| `event_log` seq, `memory_index_repairs` | `seq`, `repairs` (kind, seq, tries, `failed_permanent` as `dead`) |
| the asyncio thread, `asyncio.to_thread` workers | `Loop`, `Worker`; `pc` says where each is |
| `memory_index_operation_lock` | `Locked` places: whoever is in one of them holds it |

- `Derive`, `Check`, `Commit` — the writers, which check and then commit; `SyncOk`, `SyncFail`, `Queue` — the
  post-commit index call, its compensating delete, and the repair row, whose write may fail too.
- `Drain`, `DrainOk`, `DrainFail`, `DrainDone`, `DrainFailed`, `DrainEnd` — the maintenance tick: a batch of
  pending rows, one index call each, then a delete of the row or a higher `retry_count`; `Requeue` — the operator.
- `Export`, `Import`, `List`, `ListFail`, `ReconcileOk`, `ReconcileFail`, `ReconcileEnd` — a backup, its import in one
  transaction, and the reconcile under the same lock, which upserts and deletes vector by vector.

The reasons for a loss, each an event of the model: a death between commit and sync; a sync that another one,
or an import, has overtaken because commits and index work take turns in different orders; a repair row that
could not be written; a repair row that an import left under the (aggregate, seq) of a new event.

### 3.4 `BriefDelivery`

One project brief. `log` holds its status changes, requests and decisions, and what the code folds from the event
log (`WorkStatus`, `CurrentRequest`, `HalfOpen`, `Prior`, `Withdrawn`) is folded from it here, with the position as seq.

| code | model |
| --- | --- |
| `deliveries`, `rework_dispatched` events, `LLMCallRecorded` | `versions`, `dispatched`, `bills` |
| `scheduled_executions` | `rows` |
| `plan_resumes`: progress and results, the `rerun_stash` row | `cursor`, `stash`: the execution whose results they are |
| tasks of `emit_event`, the cancel flag of `exec_{id}` | `tosend`, `flag` |
| handlers at an `await`; a call or a handler between two awaits | `place`; `turn`, the chain of commits in progress |

- `Execute`, `Accept`, `AskRework`, `RetryRework`, `Settle`, `Rerun`, `Cancel` and the commits they consist of
  (`SetRunning`, `RequestExecution`, `DiscardStash`, `NoteRework`, `Reopen`, `TakeCursor`, `MarkDispatched`).
- `RestoreStash`, `PutBack`, `UndoRerun`, `ReturnCursor` — the undo of a reopen whose request failed.
- `Begin`, `ReportCancelled`, `StampRunning`, `LoadProgress`, `StepReturns`, `Compile`, `ModelReturns`, `Bill`,
  `Publish`, `Finish`, `Answer`, `TryAgain`, `TimesOut`, `CloseDeadLettered` — the handler under Lane A.
- `CallFails`, `HandlerFails`, `BootFails` — any write may fail, and what each `except` then does; `Crash`, `BootRows`,
  `BootWork`, `BootSync`, `BootRelease` — death and recovery.

Assumed: the queue has room; adoption of suggestions, `PATCH` and `DELETE` of the item, and approvals are left out.
The properties name where an excuse is needed (`past.redone`, `past.unheard`, `past.faults`); section 6 says why.

### 3.5 `WorkTree`

| code | model |
| --- | --- |
| `event_log` of work items, `work_items` | `log`, `table` |
| the uuids given out so far, none of them twice | `ids` |
| `projection_checkpoints`, an exported log | `checkpoint`, `saved` |
| the call in progress (completion listener, cascade delete, checkpoint) | `turn` |

- `Create`, `SetStatus`, `SetGoalStatus`, `PatchStatus`, `SetProgress`, `Move`, `RestoreBrief`, `DeleteTask`,
  `DeleteGoal`, `DeleteNext` — API, tools and the undo of a brief, each through `emit_event`
  (`Emit`: append and `Apply` in one commit). `OnCreated`, `OnStatusChanged`, `OnUpdated`, `OnDeleted` are the projectors,
  with their recount of a goal's progress. `Move` may name a parent that is gone, since nothing checks it, but no id that has not been
  given out: it is a fresh uuid and nobody knows it. An event carries the parent its item has by the log, as history for `ProgressIsCurrent`.
- `Listen`, `Start` — the completion listener of the cron registry, which starts successors one commit at a time.
- `ReadLog`, `SaveCheckpoint`, `Rebuild`, `Export`, `Restore`, `Crash` — sovereignty operations; a restore
  may fall between any two commits of a call.

Assumed: items are plain (no plan runs), parents are goals and no goal is moved under itself, an update is one field
and changes it, a rebuild runs while nothing else does.

### 3.6 `BriefReuse`

The data side of a brief that is run again; the control side, calls that overlap and their undo, is `BriefDelivery`.

| code | model |
| --- | --- |
| a file or mailbox as it is | `disk`, its version |
| skip parameters of a plan step (`known_size`, `known_mtime_ns`, `known_id_digest`, hash) | `token` |
| rework notes in the plan; recorded step results with the place to resume | `noted`; `cursor` |
| the execution; the current version | `run`; `current` |

- `Execute`, `Rerun`, `NoteRework`, `Reopen` — the calls; `ReadSource`, `ReadFails`, `EndPlan` — `read_file` and
  `check_inbox`, which return a marker instead of a body when the token matches.
- `Compile` with `_reuse_split`, `_republish_previous_brief`, `_reusable_findings`; `ModelAnswers`, `ModelFails`, `Publish`,
  `SkipPublished`; `Sync` — `_sync_brief_fingerprints`, with `_file_fingerprint` asking the disk again.
- `Edit` — the world changes a source at any time; `Interrupt` — a failed write or a death anywhere.

A result is `n` for version `n` read in full and `-n` for the marker that confirms version `n`; the hash of a
marker taken for content is `-n` too. Assumed: size and mtime identify the version of a file; runs follow
each other; a finding cites one source; a step result and its progress row are one write; memories, truncation and
the mailbox scope are left out. `NoteRework` may also meet a version that has been reworked before, which the code
permits only for one under review: a superset of the histories.

### 3.7 `InboxPoll`

| code | model |
| --- | --- |
| the IMAP mailbox, by uid | `box`: absent, unread, read, gone |
| `inbox_emails` (status, notified) | `rows` |
| `next_uid` of the latest `InboxPollCompleted` | `last`; 0 for none, an error, or another UIDVALIDITY |
| the `inbox_poll` row of `timer_events`; a `TimerFired` not handled yet | `timer`; `fired` |
| executions of `on_inbox_poll_requested` | `polls`: the timer's and the page's, each with what it has read |
| `mark_inbox_email_status` at its `await` | `mark` |

- `TimerDue`, `Rearm`, `OnTimerFired`, `PollInbox` — the timer scan, its handler, and the button of the page.
- `Index`, `PageSince`, `PageNewest`, `PageHighest`, `FetchFails` — `check_inbox`, read by read: with a cursor the oldest mail behind
  it, without one the newest page and then the highest uid.
- `SyncUnread`, `Compare`, `Classified`, `Record`, `RecordRead`, `Flag`, `Complete`, `Ends` — `apply_inbox_poll_payload` and the end
  of its handler, commit by commit, with the call of the model between `Compare` and `Classified`.
- `MarkAtOnce`, `MarkBegins`, `MarkSent`, `MarkStored`, `MarkFails` — a user's mark, on the server first if it changes `\Seen`.
- `Arrives`, `Elsewhere`, `Renumbered` — the server and other mail clients; `Cut` — a timeout or a failed write, after which Lane A runs
  the poll again with its old cursor; `Dies`, `Boots` — a death, which also loses events not enqueued yet, and `_init_timers`.

Assumed: a higher uid has the later date; the timer's fifteen minutes are longer than a poll with its retries; what the network
does is taken between two chains of commits, which read nothing of it. When the model fails to classify, no mail is
important. Left out: headers, filter rules, notifications other than the flag behind them, the digest, the limits of 500 and 5000 rows,
and `poll_inbox` inside an execution, which no caller uses.

## 4. The runs

| run | bounds | checks | states |
| --- | --- | --- | --- |
| `scheduler` | 2 executions, 1 retry, queue cap 1, concurrency 2, fan-out 2, 1 death, 1 replay, drained loop | `TypeOK`, `CarriedOnce`, `InFlightTracked`, `BudgetIsKept`, `OutcomeIsFinal`, `RestartRequeuesOnce`, `Settles` | 428,677 |
| `plan` | 2 steps, the first gated, 2 approvals, 5 runs, 2 clicks, 2 retries, 1 death, 1 timeout | `ResumeOnce`, `RecordedIsTrue`, `ResumesAfterGate`, `RepeatsArePaid`, `ApprovalPromise`, `IntentIsKept` | 283,758 |
| `plan_steady` | 4 steps, two gated, 2 approvals, 6 runs, 3 clicks, 1 user request, 1 retry, 2 timeouts, no death | `TypeOK`, `CompletedMeansDone`, `StepsInOrder`, `CancelledIsFinal` | 1,007,853 |
| `memory` | 1 memory with 2 texts, the loop and a worker, seq up to 3, 2 tries, 3 faults, 1 death, 1 import, 1 requeue | `TypeOK`, `CopyPromise`, `Converges` | 518,107 |
| `delivery` | 1 retry, 4 events (calls, failed writes, timeouts, deaths) | `TypeOK`, `NothingTwice`, `AcceptedIsFinal`, `UndoKeepsCursor`, `StatusIsTrue`, `SourcesReadAgain`, `BootSettles`, `Finishes` | 508,594 |
| `tree` | 3 items, one of them a goal, 6 units of work (events, exports, checkpoints) | `TypeOK`, `TableIsFold`, `ReadyIsStarted`, `ProgressIsCurrent` | 1,390,396 |
| `reuse` | a mailbox and a file, 2 edits each, 4 runs, 2 faults | `TypeOK`, `BriefIsCurrent`, `BodiesAreRead` | 5,118,453 |
| `inbox` | 3 mails, the first read already, pages of 1, 1 important, 1 retry, 3 events of the world (arrivals, changes, marks, polls asked for), 1 fault or death | `TypeOK`, `NoMailSkipped`, `ImportantIsFlagged`, `HandledIsKept`, `Syncs` | 1,574,673 |
| `scheduler_untracked`, `scheduler_lease`, `plan_skip`, `plan_cancel` | as small as the counterexample needs | one property each, violated | section 6 |

Why the bounds are enough. *Scheduler*: a queue cap of 1 with a fan-out of 2 makes every rule about a
full queue bite (rejection, dropped retry, dropped reclaim, forced replay, restart above the cap);
one retry gives each execution a first and a last attempt, so both branches of every retry decision
occur; two executions give the interference there is (they share the queue, its cap and the
concurrency limit, nothing else).
*PlanApproval*: two approvals are needed for a second gate or for a
second request of the same gate; two clicks for approve against approve and approve against deny; five runs
hold the first execution, two clicks and two resumptions. `plan` has the death, which may
fall behind each commit; `plan_steady` has none and affords a longer plan, a re-execution and more timeouts.
The actions that need a bound exhausted in one run are taken in another: between them the passing
runs take every action.

*MemoryIndex*: three events are a memory made, changed and deleted, or an event between an export
and an import and one after it that takes its seq again; three faults are a failed sync and as many failed tries as
exhaust a repair row. Two threads are enough, since the lock leaves one in the index and the other in a commit.
*BriefDelivery*: four events are, for example, a run, a rework, a failed write in it and the repeated call, or a death and what
a boot does; one retry gives an execution a first and a last attempt. *WorkTree*: a goal with two tasks, or a task that waits for
another; six units hold three creations, a completion with its listener, and a checkpoint or a restore that falls in between.
*BriefReuse*: a mailbox and a file behave differently, and one source can change while the other is the same; four runs are
a first version, a rerun that confirms, a rework and a rerun after it; two faults are a failed read or a death in each of two.
*InboxPoll*: a page of one mail makes two new ones more than a page; with a first mail to set the cursor, three mails are the
fewest with which a page can skip one. Three events are two arrivals and a change, or a poll of the page, an arrival and a mark.

`MaxStale = 0` in the passing runs of `PlanApproval` says that no background dispatch outlives the
timeout it waits with. It is an assumption about time, not something the code enforces; what
happens otherwise is `plan_cancel`. `PromptLoop = TRUE` in `plan_steady` is a second one: a dispatch whose run has failed
is told so two iterations of the loop later, and no user manages to send a request and then a cancel
in between. `plan_steady` assumes no process death because `StepsInOrder` is
false with one; that is `plan_skip`.

Bounds that occur in guards: `MaxCrashes`, `MaxReplays` in `Scheduler`; `MaxStarts`, `MaxCommands`,
`MaxCrashes`, `MaxTimeouts`, `MaxStale` and the sizes `MaxRuns`, `MaxApr` in `PlanApproval`; `MaxEvents`, `MaxFaults`,
`MaxCrashes`, `MaxImports`, `MaxRequeues` in `MemoryIndex`; `MaxEvents` in `BriefDelivery`; `MaxWork`
in `WorkTree`; `MaxEdits`, `MaxRuns`, `MaxFaults` in `BriefReuse`; `MaxWork`, `MaxFaults` in `InboxPoll`. The runs
switch off the deadlock check, because the system really stops: once everything is settled and no
user, operator or clock does anything, there is nothing to do, and a plan may wait for its user for ever.

Fairness. `Scheduler!Fairness`: weak fairness of what the scheduler does of its own accord, of
each task, and of the continuation of a cancel under way. The event loop runs every ready callback; a
handler ends because `_process_work_item` wraps it in `wait_for`; a dead process is assumed to be
started again. Cancels, the passing of time, reclaims, replays, requests and deaths are under no
fairness. `PlanApproval!FairSpec`: the same for callbacks and for each handler run; users, the expiry
sweep, timeouts, deaths and the dispatch tick need do nothing. `IntentIsKept` and `Settles` rest on it.
`MemoryIndex!FairSpec`: a thread goes on once it has begun, and the maintenance tick comes round while rows are pending; `Converges`
rests on it. `BriefDelivery!FairSpec`: weak fairness of all that the process does by itself taken
together: a call, a handler and a boot that have begun go on, and Lane A starts, retries and ends what is open; which of several it
takes first is left open, so no execution is promised a turn while new ones keep coming (calls are bounded). The model call ends,
since the handler has a timeout. `Finishes` rests on it. `InboxPoll!FairSpec`: weak fairness of all that the process does by itself taken together, the clock included,
so the timer keeps coming due; no single poll is promised a turn. `Syncs` rests on it. `WorkTree` and `BriefReuse` have safety properties only,
under no fairness.

What the main properties say, and why a test would hardly reach them:

- `CarriedOnce` (`OneCarrier`, `NoStrandedRow`): the queue, the task table and the rows agree at every point at which
  the loop is free, through cancels delivered late, reclaims of live handlers, and restarts.
- `OutcomeIsFinal`: neither a zombie task nor a recovery rewrites a row that completed or whose cancel was acknowledged.
- `BudgetIsKept` (`AttemptsBounded`, `FailuresAccounted`): no combination of crashes, reclaims and failures starts a handler more often
  than its retry budget and its replays allow (a crash loop is charged), and a failed row is a dead letter or on its way back, or a
  death cut its reclaim in two (section 6).
- `RestartRequeuesOnce`: the queue after a restart is exactly the set of open rows.
- `Settles`: every requested execution completes or fails for good.
- `ApprovalPromise`: refinement of `Approval`, under double clicks, expiry between click and handler, timeouts
  and deaths behind every commit.
- `ResumeOnce`, `IntentIsKept`: after the grant the plan goes on at most once, and once the
  dispatch intent is on file it does go on, unless a cancel clears the item or the user also denies.
- `RepeatsArePaid`: every call of a tool after its first is paid for by the restart of a handler (behind a timeout or a death), a death, or a
  user's new request; double clicks, resumptions and results on file never repeat a step by themselves. One unit for each death would not
  do: a death restarts every handler it finds, and two of them may stand before the same step. With the one death of `plan` the two counts
do not come apart, with two they do; the theorem holds for any number.
- `RecordedIsTrue`, `StepsInOrder`, `CompletedMeansDone`: results on file are true and the order of the
  plan is kept.
- `CopyPromise`, `Converges`: no vector of a memory drifts silently, and the drain catches up, whatever threads, faults, deaths and
  an import do in between.
- `NothingTwice` (`PaidAndPublishedOnce`, `ReworkStartsOnce`), `AcceptedIsFinal`: retries of an execution and repeated calls neither pay, publish nor
  start anything twice, and no recovery reopens an accepted version.
- `UndoKeepsCursor`, `BootSettles`: an undone rework or rerun leaves the cursor it took where it was, and a boot leaves nothing half open.
- `StatusIsTrue` (`QuietMeansIdle`, `RunningIsCarried`), `Finishes`: the status of the item and the executions of Lane A agree, and a running brief ends.
- `SourcesReadAgain`: a rework or a rerun does not compile from what an older execution read.
- `TableIsFold`: through checkpoints, rebuilds and a restore at any point, the table is the fold of the log.
- `ReadyIsStarted`: a task whose dependencies have all been completed since has been started, in whatever order they were.
- `ProgressIsCurrent`: a goal's progress is that of its children, or what a user set after the last event that counts them.
- `BriefIsCurrent`: a version declares and quotes the content its run saw, however often content, tokens and markers are carried over.
- `BodiesAreRead`: the model is never asked about a source whose body is neither in the prompt nor replaced by carried findings.
- `NoMailSkipped`: whatever arrives or is deleted between the reads of a poll, and whichever of two polls reports last, no mail ends
  below the cursor without a row but in one named case.
- `ImportantIsFlagged`, `HandledIsKept`: through retries, overlaps and deaths, what is important is announced and what the user has handled
  stays so, but for the named cases.
- `Syncs`: when the mailbox rests, the table comes to agree with it, whatever a stale index has undone before.

## 5. What is proved

TLAPS checks the theorems for every value of the constants that the named assumptions allow
(`SchedulerAssumption`, `PlanApprovalAssumption`, `MemoryIndexAssumption`, `WorkTreeAssumption`, `BriefDeliveryAssumption`, `BriefReuseAssumption`, `InboxPollAssumption`: sizes are naturals, those
that must be are positive, goals are items and users set statuses that exist, the mailbox of a brief is its first source or none, and the important mails are among
those that ever arrive), and a theorem that
holds only in a mode of the constants names that mode as a hypothesis. Nothing else is assumed.

`SchedulerProofs`

- `TypeInvariant`: `Spec => []TypeInv`, where `TypeInv` strengthens `TypeOK` so that it is inductive:
  `TaskOK` (a used task slot holds an object of its own execution), `ActiveOK` (`_active` maps an id
  to a used slot of that id), `SegOK` (the callback under way has what its next step reads, and a
  requeued object still has a retry to spend), `Unborn` (an execution nobody requested is nowhere in
  memory) and `BootOK` (nothing runs in a process that is down or recovering). `TypeOK` alone is not inductive:
  a retry counter stays within the budget only because a retry is committed for an object
  whose counter was below it when the chain began.
- `TypeCorrect`: `Spec => []TypeOK`.
- `QueueCapCorrect`: `Spec => QueueCapped`, a property that is proved and checked by no run. The fan-out checks room for all handlers once and then
  appends one by one; `SegOK` carries the room that is left.
- `RestartCorrect`: `Spec => RestartRequeuesOnce`, in any mode of the loop. The invariant `BootUnique`
  says that in a booting process the queue has no duplicates and holds only rows that wait; with
  the order of the scan (running rows first) it gives exactly one entry per open row at the end.

`SchedulerProofs`, second part, in the normal mode of the loop: each theorem has the hypothesis `PromptLoop`. The other mode is not a
corner left out: without the hypothesis `InFlightTracked` is false and `scheduler_untracked` shows the behaviour (section 6)

- `CarriedOnceCorrect`, `InFlightTrackedCorrect`, `BudgetIsKeptCorrect`: `Spec => []P` for `CarriedOnce`, `InFlightTracked`
  and `BudgetIsKept`; `OutcomeIsFinalCorrect`: `Spec => OutcomeIsFinal`.

All four follow from one invariant `Safe` (theorem `SafeHolds`), which TLC has checked on two objects and two task slots per execution. It is a
conjunction over the executions (`Settled`): executions share the queue and nothing else, so a step is `Safe` when it
keeps `Settled` of the one execution it is about (`Touches`, `OtherSettled`, `OneStep`). Why each part of `Settled` is needed:

- `OneTask`: one task slot in use per execution, and `_active` knows it while it works. That is `InFlightTracked`. The hypothesis counts in
  three actions only, `StartNext`, `Reclaim` and `Replay`, which reuse an id: in a drained loop the last task of that id has neither a
  done callback to come, which would pop the new task from `_active`, nor a cancellation that is not delivered.
- `EntryFits`, `TaskFits`: the object that carries an execution has the status and retry count of the row. A task that works
  on an old copy would commit an old status over a newer one.
- `Ending`: a task that is over, or has been told to end, leaves nothing running, and nothing open but what has gone back to the queue.
- `Held`, `AtHand`: what the row says between two commits of one callback, and that this callback is the only reason why an open row may have no
  carrier. With `Turn` this gives `NoStrandedRow`.
- `Letter`: what a dead letter, a failure without one, and an acknowledged cancel mean; a row that was given up
  without a letter is one that timed out while the callback was cut off by a death.
- `Budget`: starts against retries and replays, sharper while the row waits.

`PlanApprovalProofs`, for any plan, any set of gated steps, any number of approvals, runs, clicks, requests, retries,
timeouts and deaths, and without any fairness; hypotheses are named where a theorem has one

- `PromiseKept`: `Spec => ApprovalPromise`, the refinement of `Approval`. `RequestApproval` is its `Request`,
  the consuming branch of `Acquire`, `Deny` and `ExpireDenies` are its `Resolve`, `CallApproved` is its `Use`, and
  every other step stutters (`StepPromise`).
- `OnceCorrect`, `RecordedCorrect`, `AfterGateCorrect`, `TypeCorrect`: `Spec => []P` for `ResumeOnce`,
  `RecordedIsTrue`, `ResumesAfterGate` and `TypeOK`.
- `RepeatsCorrect`: `Spec => []RepeatsArePaid`.
- `CancelledCorrect`: `Spec => CancelledIsFinal`, if `MaxStale = 0` and `PromptLoop`; without them `plan_cancel` and its like happen.
- `InOrderCorrect`, `CompletedCorrect`: `Spec => StepsInOrder` and `Spec => []CompletedMeansDone`, if besides `MaxCrashes = 0`; with a death
  the first is `plan_skip`, and a plan that skips a step ends as completed.

The first five follow from one invariant `Inv`, with one lemma per action that shows it is kept. Why each part is needed:
`PaidOK` says that a run about to call its approved tool has the loop to itself and holds an approval
that is granted and unused; that the consume and the call are not separated by an await is what makes `Use` safe.
`OnceOK` says the same of a run between "already dispatched?" and its `ExecuteRequested`. `RunOK` ties a run that records
a step to the step its approval was requested for (`Truthful`) and gives each point of a handler
the fields it reads (`Shaped`), `RowsOK` ties the resume and intent rows to the gate and the recorded results
to successful calls, and `GateOK` keeps rows off approvals nobody requested. None of the parts is
inductive alone. The lock of `on_approve_requested` (`Locked`) is not needed for any of these five: they
follow from the order of the commits and the absence of awaits between them.

`CancelledIsFinal` adds `CancelInv`. `Steady` is about handlers: between two awaits a handler has the loop to itself, one that saw no cancel
cannot meet one before it closes the item (`CancelCheck` is read in the same callback), and what it is about to report is the
status it wrote. `Flagged` is about the rest: the flag is up only for an item that is cancelled or being cancelled, no failed dispatch is
left to be told by then (`PromptLoop`), and a process that boots has forgotten flag, dispatch and callback together, so a death between the flag and the
status loses the cancel but never undoes it.

`StepsInOrder` and `CompletedMeansDone` add `OrderInv`, which says who has the plan: one execute handler or one approval at a time may still move it on
(`OneHolder`), and the status, the current request, the dispatch and the callback under way tell whether there is one (`Holding`), which is
what keeps a second execution away. Whoever has it stands behind done steps only (`Behind`, `Gates`, `Ordered`); the progress row alone may be
ahead, by the step that waits for approval, and then a handler that has stopped, an approval or `waiting_approval` stands before it. That clause is the one
a death breaks. `Recalls` keeps an approve handler's row in place from the result of its step to the request it sends. `Before(i)` speaks of all
steps before `i`, so no induction over the plan is needed.

`RepeatsArePaid` adds `PaidFor`, an account for each step: the calls made, the execute handlers that may still make one (`Callers`), the
approvals that may still pay for one or send a plan on to it (`Payers`), and the executions of the item that may still come (`Coming`) are
together at most one and the failures. A call, a request for approval, a resumption and a new execution move one unit from one term to another; a restart adds as
many callers as retries (`Retries`, by a bijection), a death one more execution to come. The account needs cardinalities, not
induction: it is compared before and after one step (`Balance`).

`LaggingCopyProofs`

- `NeverSilent`: `Spec => []NoSilentDrift`: in whatever implements `LaggingCopy`, a key whose copy is wrong is owed or lost.
  It gives `CopyPromise` its meaning.

`MemoryIndexProofs`, for any set of memories, texts and threads, any batch size, and any number of retries, faults, deaths,
imports and requeues, without any fairness

- `CopyKept`: `Spec => CopyPromise`, the refinement of `LaggingCopy`. `Commit` and `Derive` are its `Write`, an import is its
  `Replace`, and a call on the index, whether it succeeds or fails (`SyncOk`, `SyncFail`, `DrainOk`, `DrainFail`, `ReconcileOk`, `ReconcileFail`),
  its `Work` on that memory. What touches neither table nor index (listing, queueing, the bookkeeping of a drain, a death) is a `Reckon`.
- `NoSilentDrift`: `Spec => []`(an entry that is wrong is in somebody's hand, in the queue, or on record as lost), the same as a state.
- `TypeCorrect`: `Spec => []TypeOK`.

The invariant `Inv` has three layers, each inductive given the ones before it, and TLC has checked all three.
`Shape`: one thread at most holds the lock (`Mutex`), only the loop checks before it writes and only workers drain and reconcile (`Roles`), a key
names one repair row (`Ledger`), and the tables are finite. `Order` says what the numbers mean: an event that is not late has a seq
of its own up to the last one (`Events`), carries what the table holds unless the loop has committed after it and has yet to sync
(`Current`), a row that is not late and deletes belongs to a memory that is gone (`Rows`), and what a reconcile has listed goes for
the table unless a writer has committed since (`Snapshot`). None of this survives an import by itself, which sets the seq back; that is what the
mark `late` is for. `Cover` says that each memory whose entry is wrong has a thread or a pending row that will write the right one, and that a
drain which deletes a row has written what the row stood for. The queue is a sequence; the proof sees it as the set of debts
its rows stand for (`Debts`), and the lemmas on `Persist`, the delete, the rewrite and the batch say what each does to that set.
The delete takes the first row that matches, and that there is a first one is proved from the well-foundedness of the naturals (`LeastOf`).

`WorkTreeProofs`, for any number of items, any choice of goals among them and of statuses that users set, and any length of the log; no
hypotheses

- `TypeCorrect`, `FoldCorrect`, `ReadyCorrect`, `ProgressCorrect`: `Spec => []P` for `TypeOK`, `TableIsFold`, `ReadyIsStarted` and
  `ProgressIsCurrent`.

The invariant has four layers, `Shape`, `Fold`, `Ready` and `Progress`, and TLC has checked them at the bounds of `tree`. `Replay` is a
recursive function; that its steps exist and are unique is proved by the well-foundedness of the naturals (`StatesExist`, `RunsAgree`), and from that
what is needed of it: one event more (`ReplayAppend`), a split at a checkpoint (`ReplaySplit`), and that it keeps what every event keeps
(`ReplayKeeps`). Every projector is one new row and one recount (`ApplyIsPut`), so what events do to rows and to progress is proved once
(`ApplyFacts`, `ApplyProgress`).

- `Shape` adds to the types that no row and no event names an id that has not been given out. A goal is therefore created
  without children, and its progress of 0 is right.
- `Fold` says beside the table that the checkpoint is the replay of the log up to its `last_applied_seq`, unless the restore came between its two
  reads (`torn`), which is what makes a rebuild right; and that a snapshot under way goes on with the length of the log it read.
- `Ready` says of each task that waits and has all it needs that it is excused, or that the listener of the last completion is on its way to it
  (`Pursued`). A commit that completes the last dependency wakes that listener; the pending successors are read in the next callback, and a start of one
  leaves the others to be done. `Done` (what is completed was completed by an event, in the log and in the exported one) makes the position of
  the last completion a position of the log.
- `Progress` says of the fold of the log and of the exported log what `ProgressIsCurrent` says of the table: an event that neither recounts a
  goal nor changes its children leaves their share as it is (`ShareKept`).

The attempt to prove `ProgressCorrect` corrected the model. Items used to be created in any order and `Move` could name one that did not
exist yet, so a goal could come into being with children; the property was then false for other goals than those of `Tree.cfg`. The code gives out a fresh
uuid, so `ids` now keeps what has been given out.

`BriefDeliveryProofs`, for any retry budget and any number of calls, failed writes, timeouts and deaths; no hypotheses

- `TypeCorrect`, `NothingIsDoneTwice`, `StatusStaysTrue`, `SourcesAreReadAgain`, `CursorSurvivesUndo`: `Spec => []P` for `TypeOK`,
  `NothingTwice`, `StatusIsTrue`, `SourcesReadAgain` and `UndoKeepsCursor`.
- `AcceptedStays`, `BootLeavesOrder`: `Spec => AcceptedIsFinal` and `Spec => BootSettles`.

All seven follow from one invariant `Inv` (theorem `Invariant`), which TLC has checked in every state of `delivery`, and in 3.5 million states of
random behaviours with twice the events. One lemma per action (`StepExecute` to `StepCrash`) shows that it is kept.

The code folds the log of a brief at every turn. The proof turns each fold into a position in the log, 0 for none, and a count (`LastIn`,
`CountIn`, `Folds`), and says once what an appended status, request or decision makes of them (`EmitStatus`, `EmitRequest`, `EmitDecision`); the
actions are then looked at through these lemmas only. That a bounded set of positions has a greatest member is proved from the
well-foundedness of the naturals (`MaxFacts`). Why each part of `Inv` is needed:

- `Chains`, `Points`: which commits a chain has, and what the code has checked before each and does not check again: the status it is
  about to overwrite (`open`, `sync`), the decision a rework carries out and that nothing was requested since (`LastRequest <= turn.arg`).
  Nothing interleaves with a chain, so each of these facts is kept until its commit.
- `Budget`: a call that has begun still has an id for the execution it will request.
- `Rows`: who has a running row: a handler at an await, the one that has the loop, or a boot that has yet to scan.
- `Marks`: what a status says of the entry before it. A reopened brief remembers the final status it left, so that `_open_rework` has one to go back to, and a
  decision to rework behind the last status means that the brief is not running.
- `Entries`: a rework is requested behind its decision, and once. It is the part of `NothingTwice` about calls, and it rests on the
  fact in `Points` that the decision is newer than every request.
- `Once`: the part about executions. A bill and a version are committed in the callback that follows the model call, and before that call there is neither.
- `Boots`: a boot starts with no handler, no flag and nothing to send, which is why its scan may fail every running row.
- `Fresh`: an execution not requested yet has no bill, version, source or mark.
- `Undo`: at each commit of a reopen, of its undo and of a boot, whether the cursor it took is still in place or in the stash (`HeldIn`). It holds while no
  write fails; section 6 says what a failed write does.
- `BootEnds`: a boot that has nothing left to do but its release has seen an execution that carries the brief.
- `Honest`, `Carry`, `Reads`: until an execution that outlived its run (`Stray`) has set the status, the one execution at work that is not stray is the last
  one requested, and the brief runs for it; a running brief has it, or a chain that will see to it; and it finds no cursor but its own. The
  three hold one another up: `Reads` needs that a reopen finds nobody at work (`Quiet`), which is `Honest`.

The proof attempt corrected `BootSettles`. It said "unless a write failed" of the state before a boot's last step; but that step, the release of the stash, is
itself a write that may fail, when a brief that was cancelled and reworked has left a cursor in the stash. The property now counts that
write; at the bounds of `delivery` the two say the same.

`BriefReuseProofs`, for any number of sources, edits, runs and faults

- `TypeCorrect`, `CurrentCorrect`, `BodiesCorrect`: `Spec => []P` for `TypeOK`, `BriefIsCurrent` and `BodiesAreRead`.

All three follow from `IInv`, which TLC has checked too. `Tokens` (a token carries the hash of the version it identifies, but for a
late stamp) and `Markers` (a marker the next run will read answers the token on the plan, or a rework has dropped that token) give
what the hash of a source in a brief can be (`Texts`), and with it that a draft from quotes of this run is a good version
(`GoodDraft`); `SameQuoted` shows it for findings carried over from the last version, and `Drafts` keeps it from compile to publish and
from publish to the token sync. For `BodiesAreRead`: `Steps` (without a failed read nothing before the cursor is missing) and
`Digested` make the brief complete, `Synced` (the tokens are those of the current version) then makes every unread source an unchanged
one, and `Reworks` says that a rework has no token to confirm anything with. `Notes` ties the torn rework to the notes in the plan.

`InboxPollProofs`, for any number of mails, any page size, retry budget and set of important mails

- `TypeCorrect`, `NothingSkipped`, `Announced`: `Spec => []P` for `TypeOK`, `NoMailSkipped` and `ImportantIsFlagged`;
  `HandledStays`: `Spec => HandledIsKept`.

The invariant `IInv` says of every cursor (of the latest report, of a request, of a page read) that the mail with that uid has arrived
(`Reached`) and that every mail up to it has a row, was passed over, or is among what the poll still has to record (`Covered`);
`NoMailSkipped` is the part about the latest report. It is kept because mails arrive in the order of their uids (`InOrder`, `Grows`), because
the page behind a cursor takes the oldest and so leaves none out below its last (`OldestIsPrefix`; the newest page does, which is what
`past.passed` holds), and because the cursor is reported behind the last record. Two polls at once do no harm: each carries its own cover, and
rows never go away (`MarkHasRow` for a mark that is stored late). `Announced` needs that a poll has stored mails only while it stores.

Only model-checked: liveness (`Settles`, `IntentIsKept`, `Converges`, `Finishes`, `Syncs`), since fairness and `ENABLED` are beyond the
proof system's backends here. The models use no recursive operator.

## 6. What disagrees with the documentation, and what the properties excuse

The four below are counterexamples of runs that are expected to end in a violation.

1. `scheduler_untracked`. `_active` is documented as the in-flight tasks by execution id "for cancel".
   A retry appends its object to the queue before its own task's done callback has run; if a tick starts the
   next attempt in between, the callback of the old task pops the entry of the new one. The new handler can then
   not be cancelled, is not counted by the concurrency cap, and a second reclaim loads a second object.
2. `scheduler_lease`. `started_at` is stamped only when it is empty, so a retry inherits the lease of
   the first attempt, and the reclaim fails a young attempt; the configuration calls the limit one for rows
   stuck in running.
3. `plan_skip`. The runner saves progress past a step that is waiting for its approval. After a
   death at that point (or a re-execution after a failed dispatch) the retry starts behind the gated
   step: the rest of the plan runs although the step has neither been approved nor run.
4. `plan_cancel`. A cancel kills the handler whose `ExecuteCompleted` the background dispatch awaits;
   its timeout then stamps `failed` over `cancelled`. `tests/runtime/test_background_control_plane.py:833`
   asserts that the status must stay cancelled, with no scheduler in place.

The passing runs state their properties with named excuses. Each stands for a history of the model, described here.

*Scheduler.* A reclaim commits the failure and the retry separately; a death between them leaves a failed row with retries left
that is neither requeued nor a dead letter, against the docstring of `reclaim_stale_leases` (`FailuresAccounted`).

*MemoryIndex* (`lost`). Two threads may commit in one order and sync in the other. A death after the commit and before the sync or
the repair row leaves no trace. An import may overtake a sync that is waiting for the lock, which then writes an entry of the
replaced log. After an import sets the seq back, a repair row of the replaced log may hold the key a new one needs
(`memory_index_sync.py:68-82`).

*BriefDelivery.* `past.redone`: an execution that Lane A takes up again after its run has ended, because the death or the failed
write came behind the status; it stamps its status under a newer run, and then no dead letter closes the item.
`past.unheard`: a cancel that comes before the execution is enqueued sets a flag, which the next execute clears; the cancelled
execution then runs. `past.faults`: `_restore_completed_brief` commits the status before it gives back the cursor
(`work_delivery.py:1662-1694`). Outside the properties: a withdrawn rework is shown as requested again once any
later execution is requested (`work_delivery.py:1155-1185`), and a death right after the decision leaves it without a run until the
call is repeated; a failure of the write that records a bill is swallowed (`brain_telemetry.py:67-76`), which is why a bill may be lost.

*WorkTree* (`past`). The listener of a completion stamps a successor `running` but nothing executes it (`cron_registry.py:112`). A
death or a restore between the completion and the listener's commits loses the start. `PATCH` of a status wakes no listener, and
`PATCH` of a parent recounts neither goal. A checkpoint saved after a restore has replaced the log it was read from makes a rebuild
skip events.

*BriefReuse.* Each excuse is needed: without it TLC finds the history. `past.late`: `_file_fingerprint` asks the disk for size and
mtime after the model call (`project_brief.py:3634`) and stores them next to the hash of what was read before it; a file that changed
in between is called unchanged from then on. `past.torn`: a rework drops the tokens in one commit and the cursor in a later one;
after a death in between a failed run resumes with its markers and no tokens, and the JSON of a marker is taken for the text of the
file. `noted`: rework notes are never cleared, so after one rework the steps still confirm sources unchanged while the compiler
refuses to reuse the last version, and asks the model with empty bodies; the comment at `work_delivery.py:1502` says why a rework
must not do that. `past.unsynced`, `past.missed`: the same after a death between publish and the token sync, and after a read that failed.

*InboxPoll.* Each excuse is needed here too. `past.passed`: without a cursor (the first poll, a new UIDVALIDITY, and after every poll that
reported an error, which drops it) the newest page is read and then the highest uid becomes the cursor (`email.py:712-716`); mail that has been read
elsewhere and lies beyond the page, or arrives in between, gets no row, and an unread one only at a later poll. The docstring
of the other branch, "so a small limit cannot skip mail" (`email.py:339`), holds for that branch. In `HandledIsKept`: two polls that both found a mail
missing before the model answered both record it, and the second `INSERT OR REPLACE` resets to `pending` what the user has marked `handled` meanwhile
(`inbox.py:121-200`, `projectors_inbox.py:22`). `past.cut`: a poll cut off between the record of an important mail and its announcement; the
retry finds the mail known and never announces it. `timer = "lost"`: the second commit of a firing failed, and the schedule rests until the next
boot. Outside the properties: unread mail beyond the page is recorded from the ids of the unread index alone, with no sender and subject for the
model to classify (`inbox.py:131-135`), and its headers are never read again; a mark `read` may be undone by a poll that fetched its index before, until the next poll (`Syncs`).

## 7. What is not modelled, and why

In the modelled components:

- `Scheduler`: the command future that waits for a handler (planned in `Commands`), the closing of domain work
  behind a dead letter (in `PlanApproval`), the flush of a shutdown, `expire_stale_running_leases` (a repository helper
  the loop does not call), durations (a lease is fresh or stale, a delay ends at some time).
- `MemoryIndex`: embeddings, categories, confidence and claim status of a memory; empty texts, which no writer stores; search.
- `BriefDelivery`: adoption of suggestions, `PATCH` and `DELETE` of the item, plans of several steps, approvals, the repeat timer,
  metrics.
- `WorkTree`: execution of plans, scores and activity, tasks as parents and cycles of parents (which break the cascade delete),
  decomposition by the model, other aggregates of the log. A rebuild beside live writes is left out: only scripts call it.
- `InboxPoll`: the content of headers and bodies, filter rules beyond important or not, the digest and the texts of notifications,
  the user's settings, body download, drafts and replies.
- `BriefReuse`: overlapping runs, findings that cite several sources, memories, truncation, mailbox scope, the text of prompts and the
  validation of answers (an answer validates or not).
- `PlanApproval`: chat and `ask_user` branches, conversation continuation, project briefs,
  `continue_on_error`, items outside the background flow (they have no cancel check), taint and policy gates in front of the consume,
  low-risk approvals that are granted automatically, progress events, queue capacity, the data of results,
  `cap_intent` rows, `POST status` and `PATCH` of an item. The scheduler's recovery is folded
  into `Crash`, the close behind a dead letter into the timeout, and `ExecutionCompleted` into `Return`: in each case
  a death in between is closed in the same way by the recovery of the work item. Four hazards occur in its runs and have
  no property, because the code has no remedy to state: a death after the grant, a lost enqueue after it, an approval
  orphaned by a death before `register_plan_resume`, and an item that stays in `waiting_approval`.

Whole components: those of section 1.11, except the completion listener and the inbox timer of the timers, and the rows of the plan that are open. Most of
the repository's lines are there: prompts, parsing of mail and web pages, tool implementations, HTTP and user interface, whose state is
in the components above or in none. The LLM, the tools and SQLite itself are
outside: a tool call succeeds or fails, a committed transaction is atomic and durable. One process is assumed, which the
instance lock enforces (`scripts/replay_dead_letters.py` works around it; it is listed as a hazard).
