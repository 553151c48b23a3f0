------------------------------ MODULE WorkTree ------------------------------
(***************************************************************************)
(* The tree of work items: goals and tasks under them, kept as a           *)
(* projection of the event log (work_item_engine.py, api/work_items.py,    *)
(* builtin_tools/goals.py, kernel/projectors_core.py), the dependencies    *)
(* that start a task (cron_registry.py), and the checkpoints from which    *)
(* the projection is rebuilt, with the restore of an exported log          *)
(* (kernel/sovereignty_ops.py).                                            *)
(*                                                                         *)
(* Every change is one commit: emit_event appends to the log and applies   *)
(* the projector in the same transaction.  API calls, tools and timers run *)
(* on the asyncio loop and do not interleave; "turn" is what is left of    *)
(* the one in progress.  A restore runs in a thread, between any two of    *)
(* its commits, and the process may die there.                             *)
(*                                                                         *)
(* Items are plain: no plan is executed here (PlanApproval, BriefDelivery  *)
(* model that), and fields no property reads - titles, scores, activity -  *)
(* are left out.  Parents are goals, and no goal is moved under itself.    *)
(*                                                                         *)
(* A definition whose name starts with Bug is a seeded fault: no action    *)
(* uses it; in the place of the definition after it, it breaks a property. *)
(***************************************************************************)
EXTENDS Naturals, FiniteSets, SequencesExt

CONSTANTS
    Items,      \* work items that can be created, numbered 1..Items
    Goal,       \* those with work_type = goal; the others are tasks
    Asked,      \* bound: the statuses users set
    MaxWork     \* bound: events in the log, exports and checkpoints together

Item == 1..Items

TaskStatuses == {"pending", "running", "blocked", "waiting_approval",
                 "completed", "failed", "cancelled"}
GoalStatuses == {"active", "completed", "paused"}

ASSUME WorkTreeAssumption ==
    /\ Items \in Nat \ {0}
    /\ Goal \subseteq Item
    /\ Asked \subseteq TaskStatuses \union GoalStatuses
    /\ MaxWork \in Nat

VARIABLES
    ids,            \* ids given out: 1..ids, none of them twice (they are uuids)
    log,            \* event_log of the aggregate work_item; seq is the position
    table,          \* work_items
    checkpoint,     \* projection_checkpoints: the tables and last_applied_seq
    saved,          \* an exported log
    turn,           \* what is left of the call in progress
    past            \* history
----------------------------------------------------------------------------
vars == <<ids, log, table, checkpoint, saved, turn, past>>

Transitions ==
    [pending          |-> {"running", "completed", "cancelled"},
     running          |-> {"blocked", "waiting_approval", "completed", "failed"},
     blocked          |-> {"pending", "running", "cancelled"},
     waiting_approval |-> {"running", "cancelled"},
     completed        |-> {"pending"},
     failed           |-> {"pending"},
     cancelled        |-> {}]

\* A row of work_items; parent 0 for none, progress in percent.
NoRow == [there |-> FALSE, parent |-> 0, status |-> "none", needs |-> {}, progress |-> 0]
Row   == [there : {TRUE}, parent : {0} \union Item,
          status : TaskStatuses \union GoalStatuses, needs : SUBSET Item,
          progress : 0..100]

Empty == [i \in Item |-> NoRow]

\* What a user sets the progress of a goal to.
ByHand == 40

Idle == [at |-> "none", item |-> 0, todo |-> {}, seq |-> 0]
Turn(at, i, todo, seq) == [at |-> at, item |-> i, todo |-> todo, seq |-> seq]

TypeOK ==
    /\ table \in [Item -> Row \union {NoRow}]
    /\ checkpoint.seq \in Nat /\ checkpoint.table \in [Item -> Row \union {NoRow}]
    /\ turn.at \in {"none", "listen", "start", "delete", "snapshot"}
    /\ ids \in 0..Items
    /\ turn.item \in {0} \union Item /\ turn.todo \subseteq Item
    /\ Len(log) + past.copies <= MaxWork
    /\ past.cut \subseteq 1..Len(log)

NoCheckpoint == [seq |-> 0, table |-> Empty]

Init ==
    /\ ids = 0
    /\ log = <<>>
    /\ table = Empty
    /\ checkpoint = NoCheckpoint
    /\ saved = <<>>
    /\ turn = Idle
    /\ past = [copies |-> 0, cut |-> {}, read |-> <<>>, torn |-> FALSE, wrong |-> FALSE]
----------------------------------------------------------------------------
(* The projectors. *)

Children(t, g) == {i \in Item : t[i].there /\ t[i].parent = g}

\* completed children / children
Ratio(t, g) ==
    LET kids == Children(t, g)
        done == {i \in kids : t[i].status = "completed"}
    IN  IF kids = {} THEN 0 ELSE (100 * Cardinality(done)) \div Cardinality(kids)

\* _recalculate_parent_goal_progress: tasks keep no progress of children.
BugRecalculate(t, g) ==
    IF g \in Goal /\ t[g].status = "active" THEN [t EXCEPT ![g].progress = Ratio(t, g)] ELSE t
Recalculate(t, g) ==
    IF g \in Goal /\ t[g].there THEN [t EXCEPT ![g].progress = Ratio(t, g)] ELSE t

\* INSERT OR REPLACE; then the parent counts the new child.
OnCreated(t, e) ==
    Recalculate([t EXCEPT ![e.item] = [there |-> TRUE, parent |-> e.parent,
                                       status |-> e.value, needs |-> e.needs,
                                       progress |-> 0]],
                e.parent)

\* An UPDATE of a row that is not there changes nothing.
OnStatusChanged(t, e) ==
    IF ~t[e.item].there THEN t
    ELSE Recalculate([t EXCEPT ![e.item].status = e.value,
                               ![e.item].progress = IF e.value = "completed" THEN 100 ELSE @],
                     t[e.item].parent)

\* Only an update of the status counts the children again.
OnUpdated(t, e) ==
    LET row == t[e.item] IN
    CASE ~row.there           -> t
      [] row.there /\ e.field = "status"   ->
            Recalculate([t EXCEPT ![e.item].status = e.value], row.parent)
      [] row.there /\ e.field = "progress" -> [t EXCEPT ![e.item].progress = e.value]
      [] row.there /\ e.field = "parent"   -> [t EXCEPT ![e.item].parent = e.value]

\* The parent is read before the row goes.
BugOnDeleted(t, e) ==
    Recalculate([t EXCEPT ![e.item].there = FALSE], t[e.item].parent)
OnDeleted(t, e) == Recalculate([t EXCEPT ![e.item] = NoRow], t[e.item].parent)

\* projectors.apply
Apply(t, e) ==
    CASE e.type = "created" -> OnCreated(t, e)
      [] e.type = "status"  -> OnStatusChanged(t, e)
      [] e.type = "updated" -> OnUpdated(t, e)
      [] e.type = "deleted" -> OnDeleted(t, e)

Replay(t, events) ==
    LET after[n \in 0..Len(events)] == IF n = 0 THEN t ELSE Apply(after[n - 1], events[n])
    IN  after[Len(events)]

\* parent: that of a creation; in any other event history, the parent that the
\* item has by the log so far.
Event(type, i, field, value) ==
    [type |-> type, item |-> i, field |-> field, value |-> value,
     parent |-> Replay(Empty, log)[i].parent, needs |-> {}, quiet |-> FALSE]

Created(i, up, needs) ==
    [Event("created", i, "status", IF i \in Goal THEN "active" ELSE "pending")
        EXCEPT !.parent = up, !.needs = needs]
Changed(i, status) == Event("status", i, "status", status)
Updated(i, field, value) == Event("updated", i, field, value)
Deleted(i) == Event("deleted", i, "none", "none")

\* A completion that is no new one: the undo of a brief's rerun or rework.
Restored(i) == [Changed(i, "completed") EXCEPT !.quiet = TRUE]

\* emit_event: one transaction
Emit(e) ==
    /\ Len(log) + past.copies < MaxWork
    /\ log' = Append(log, e)
    /\ table' = Apply(table, e)
    /\ ids' = IF e.type = "created" THEN e.item ELSE ids
----------------------------------------------------------------------------
(* API calls, tools and the listener. *)

Free == turn = Idle

\* The listener reacts to a completion or a failure that is a new one.
Listens(e) == e.type = "status" /\ e.value \in {"completed", "failed"} /\ ~e.quiet

\* A call that is one commit, and the listener it wakes.
Commit(e) ==
    /\ Emit(e)
    /\ turn' = IF Listens(e) THEN Turn("listen", e.item, {}, Len(log) + 1) ELSE Idle
    /\ UNCHANGED <<checkpoint, saved, past>>

\* create_work_item, _writer_create_goal: a fresh id
Create(i, up, needs) ==
    /\ Free
    /\ i = ids + 1
    /\ up # 0 => table[up].there
    /\ i \in Goal => needs = {}
    /\ Commit(Created(i, up, needs))

\* update_work_item_status, POST of a task's status
SetStatus(i, status) ==
    /\ Free
    /\ table[i].there /\ i \notin Goal
    /\ status \in Transitions[table[i].status]
    /\ Commit(Changed(i, status))

\* POST or PATCH of a goal's status, _writer_complete_goal
SetGoalStatus(g, status) ==
    /\ Free
    /\ table[g].there /\ g \in Goal
    /\ status = "completed" \/ table[g].status # status
    /\ Commit(IF status = "completed" THEN Changed(g, status) ELSE Updated(g, "status", status))

\* update_work_item_fields: the status of a task past the state machine (an
\* update that repeats the status is left out, like every repeated update)
PatchStatus(i, status) ==
    /\ Free
    /\ table[i].there /\ i \notin Goal /\ table[i].status # status
    /\ Commit(Updated(i, "status", status))

\* PATCH of a goal's progress, _writer_update_goal_progress
SetProgress(g) ==
    /\ Free
    /\ table[g].there /\ g \in Goal /\ table[g].progress # ByHand
    /\ Commit(Updated(g, "progress", ByHand))

\* PATCH of parent_work_id, which nothing checks: the item may be gone.  No
\* caller knows an id before it is given out.
Move(i, up) ==
    /\ Free
    /\ up <= ids
    /\ table[i].there /\ table[i].parent # up
    /\ Commit(Updated(i, "parent", up))

\* _restore_completed_brief, restore_half_open_rework
RestoreBrief(i) ==
    /\ Free
    /\ table[i].there /\ i \notin Goal /\ table[i].status = "pending"
    /\ Commit(Restored(i))

\* _on_work_item_status_changed: the pending successors, read once
BugSuccessors(t, i) == {s \in Item : t[s].there /\ t[s].status = "pending" /\ t[s].needs = {i}}
Successors(t, i) == {s \in Item : t[s].there /\ t[s].status = "pending" /\ i \in t[s].needs}

Listen ==
    /\ turn.at = "listen"
    /\ LET next == Successors(table, turn.item) IN
          turn' = IF next = {} THEN Idle ELSE [turn EXCEPT !.at = "start", !.todo = next]
    /\ UNCHANGED <<ids, log, table, checkpoint, saved, past>>

\* are_dependencies_met: a dependency that is gone is not met.
Met(t, i) == \A d \in t[i].needs : t[d].there /\ t[d].status = "completed"

\* One successor after the other is started if all it needs is completed.
Rest(s) == IF turn.todo = {s} THEN Idle ELSE [turn EXCEPT !.todo = @ \ {s}]

Start(s) ==
    /\ turn.at = "start"
    /\ s \in turn.todo
    /\ \/ Met(table, s) /\ Emit(Changed(s, "running"))
       \/ ~Met(table, s) /\ UNCHANGED <<ids, log, table>>
    /\ turn' = Rest(s)
    /\ UNCHANGED <<checkpoint, saved, past>>

\* The subtree of an item: what every set with its children, and with theirs, has.
Below(t, i) ==
    {c \in Item : \A S \in SUBSET Item :
        Children(t, i) \subseteq S /\ (\A d \in S : Children(t, d) \subseteq S) => c \in S}

\* DELETE of a task, which leaves its children without a parent
DeleteTask(i) ==
    /\ Free
    /\ table[i].there /\ i \notin Goal
    /\ Commit(Deleted(i))

\* delete_work_item with cascade: the whole subtree, which a goal under
\* itself has none of; _writer_delete_goal: the children only.
DeleteGoal(g) ==
    /\ Free
    /\ table[g].there /\ g \in Goal /\ g \notin Below(table, g)
    /\ \E down \in {Below(table, g), Children(table, g)} :
          turn' = Turn("delete", g, down \union {g}, 0)
    /\ UNCHANGED <<ids, log, table, checkpoint, saved, past>>

\* What lies below goes first.
DeleteNext(i) ==
    /\ turn.at = "delete"
    /\ i \in turn.todo
    /\ turn.todo \intersect Below(table, i) = {}
    /\ i = turn.item => turn.todo = {i}
    /\ Emit(Deleted(i))
    /\ turn' = Rest(i)
    /\ UNCHANGED <<checkpoint, saved, past>>
----------------------------------------------------------------------------
(* Checkpoints, rebuild, export and restore. *)

\* save_projection_snapshot: last_applied_seq is that of the events read
\* first; the tables are read with the write, in a transaction of their own.
ReadLog ==
    /\ Free
    /\ Len(log) + past.copies < MaxWork
    /\ turn' = Turn("snapshot", 0, {}, Len(log))
    /\ past' = [past EXCEPT !.copies = @ + 1, !.read = log]
    /\ UNCHANGED <<ids, log, table, checkpoint, saved>>

SaveCheckpoint ==
    /\ turn.at = "snapshot"
    /\ checkpoint' = [seq |-> turn.seq, table |-> table]
    /\ turn' = Idle
    /\ past' = [past EXCEPT !.torn = past.wrong \/ log # past.read, !.read = <<>>]
    /\ UNCHANGED <<ids, log, table, saved>>

\* The events a rebuild replays.
BugSuffix == SubSeq(log, checkpoint.seq + 2, Len(log))
Suffix == SubSeq(log, checkpoint.seq + 1, Len(log))

\* rebuild: the checkpoint, then the events after it.  Only scripts call it,
\* on a database nothing else writes to.
Rebuild ==
    /\ Free
    /\ table' = Replay(checkpoint.table, Suffix)
    /\ past' = [past EXCEPT !.wrong = past.torn]
    /\ UNCHANGED <<ids, log, checkpoint, saved, turn>>

Export ==
    /\ Len(log) + past.copies < MaxWork
    /\ log # <<>>
    /\ saved' = log
    /\ past' = [past EXCEPT !.copies = @ + 1]
    /\ UNCHANGED <<ids, log, table, checkpoint, turn>>

\* import_event_log_rows: one transaction that replaces the log, forgets
\* every checkpoint and replays from nothing.
Restore ==
    /\ saved # <<>>
    /\ log' = saved
    /\ table' = Replay(Empty, saved)
    /\ checkpoint' = NoCheckpoint
    /\ saved' = <<>>
    /\ past' = [past EXCEPT !.cut = 1..Len(saved), !.torn = FALSE, !.wrong = FALSE]
    /\ UNCHANGED <<ids, turn>>

Crash ==
    /\ turn # Idle
    /\ turn' = Idle
    /\ past' = [past EXCEPT !.read = <<>>,
                            !.cut = IF turn.at \in {"listen", "start"} /\ turn.seq <= Len(log)
                                    THEN @ \union {turn.seq} ELSE @]
    /\ UNCHANGED <<ids, log, table, checkpoint, saved>>
----------------------------------------------------------------------------
Call(i) ==
    \/ \E up \in {0} \union Goal, needs \in SUBSET (1..(i - 1)) : Create(i, up, needs)
    \/ \E s \in Asked \intersect TaskStatuses : SetStatus(i, s) \/ PatchStatus(i, s)
    \/ \E s \in Asked \intersect GoalStatuses : SetGoalStatus(i, s)
    \/ SetProgress(i)
    \/ \E up \in Goal \ {i} : Move(i, up)
    \/ RestoreBrief(i) \/ DeleteTask(i) \/ DeleteGoal(i)

Next ==
    \/ \E i \in Item : Call(i) \/ Start(i) \/ DeleteNext(i)
    \/ Listen
    \/ ReadLog \/ SaveCheckpoint \/ Rebuild
    \/ Export \/ Restore
    \/ Crash

Spec == Init /\ [][Next]_vars
----------------------------------------------------------------------------
\* The table is what a replay of the whole log gives, through rebuilds from
\* a checkpoint too, unless that checkpoint was written after a restore had
\* replaced the log it was read from (sovereignty_ops.py:369, :406).
TableIsFold == past.wrong \/ table = Replay(Empty, log)

MadePending(s) ==
    SelectLastInSeq(log, LAMBDA e : e.item = s /\ e.field = "status" /\ e.value = "pending")

CompletedAt(d) ==
    SelectLastInSeq(log, LAMBDA e : e.item = d /\ e.field = "status" /\ e.value = "completed")

\* A task that waited for other items has been started once the last of them
\* completed, unless that was a PATCH or the undo of a brief, or the listener
\* was cut off by a death or a restore (cron_registry.py:76).
ReadyIsStarted ==
    Free /\ ~past.wrong =>
        \A s \in Item :
            table[s].there /\ table[s].status = "pending" /\ table[s].needs # {} /\ Met(table, s) =>
                LET k == Max({CompletedAt(d) : d \in table[s].needs}) IN
                    \/ k < MadePending(s)
                    \/ log[k].type # "status" \/ log[k].quiet
                    \/ k \in past.cut

\* An event after which the children of g have been counted, and one that
\* sets its progress otherwise or changes its children without a count.
Counts(e, g) ==
    e.parent = g /\ (e.type \in {"created", "status", "deleted"} \/ e.field = "status")
Sets(e, g) ==
    \/ e.item = g /\ (e.field = "progress" \/ (e.type = "status" /\ e.value = "completed"))
    \/ e.field = "parent" /\ g \in {e.parent, e.value}

\* The progress of a goal is the share of its children that are completed,
\* unless it was set by hand, the goal was completed, or a child was moved,
\* after the children were counted last (projectors_core.py:246).
ProgressIsCurrent ==
    past.wrong \/ \A g \in Goal : table[g].there =>
        \/ table[g].progress = Ratio(table, g)
        \/ SelectLastInSeq(log, LAMBDA e : Sets(e, g)) >=
               SelectLastInSeq(log, LAMBDA e : Counts(e, g))
=============================================================================
