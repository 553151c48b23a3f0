------------------------- MODULE PlanApprovalProofs -------------------------
(***************************************************************************)
(* Proofs about the approval protocol, for every plan, every choice of     *)
(* gated steps and every number of approvals, handler runs, clicks,        *)
(* timeouts and process deaths.                                            *)
(***************************************************************************)
EXTENDS PlanApproval, FiniteSetTheorems, TLAPS

(***************************************************************************)
(* Where a run may be, by what it has to know there: the points only an    *)
(* execute or only an approve handler reaches, the points at which a step  *)
(* is being recorded, and those a run reaches and leaves in one callback,  *)
(* with nothing but a death in between.                                    *)
(***************************************************************************)
ExecuteAts == {"step", "register", "pass", "progress"}
ApproveAts == {"lock", "call", "drop", "dropped", "deny",
               "intent", "take", "emit", "confirm"}
Recording  == {"idem", "stepres", "progress", "intent", "take", "emit", "confirm"}
Sending    == {"intent", "take", "emit"}
Exclusive  == Sending \union {"call"}

\* What makes TypeOK inductive: a run holds what its next step reads.
Shaped(rec) ==
    /\ rec.at # "none" => rec.kind # "none"
    /\ rec.at \in ExecuteAts => rec.kind = "execute"
    /\ rec.at \in ApproveAts => rec.kind = "approve"
    /\ rec.at \in Recording \union {"register", "pass"} => rec.step \in Step
    /\ rec.at = "tool" /\ rec.kind = "execute" => rec.step \in Step
    /\ rec.at = "close" => rec.out # ""
    /\ rec.at = "register" \/ rec.kind = "approve"
           => rec.apr \in Apr /\ approval[rec.apr] # "absent"

\* A run that records a step has done it, and the step is the one the
\* approval was requested for.
Truthful(rec) ==
    /\ rec.at \in Recording => rec.step \in passed
    /\ rec.at = "register" => rec.step = gate[rec.apr]
    /\ rec.at \in Recording /\ rec.kind = "approve" => rec.step = gate[rec.apr]

RunOK == \A r \in Run : Shaped(run[r]) /\ Truthful(run[r])

\* Nothing is on file for an approval that was not requested.
GateOK ==
    \A a \in Apr : /\ approval[a] # "absent" => gate[a] \in Step
                   /\ approval[a] = "absent" => resume[a] = 0 /\ intent[a].from = 0

\* The rows of an approval lead behind its gate, and what is recorded as done
\* is done.
RowsOK ==
    /\ \A a \in Apr : resume[a] > 0 => resume[a] = gate[a] + 1
    /\ \A a \in Apr : intent[a].from > 0 =>
           intent[a].from = gate[a] + 1 /\ gate[a] \in passed
    /\ stepres \subseteq passed
    /\ \A r \in Run, i \in Step : <<r, i>> \in idem => i \in passed

\* An approval that was used was granted; one that is about to be used is
\* granted and not used yet, and its run has the loop to itself.
PaidOK ==
    /\ \A a \in Apr : used[a] = 0 \/ (used[a] = 1 /\ approval[a] = "approved")
    /\ \A r \in Run : run[r].at = "call" =>
           Mine(r) /\ approval[run[r].apr] = "approved" /\ used[run[r].apr] = 0

\* The same of the event that sends the rest of the plan on.
OnceOK ==
    /\ \A a \in Apr : requested[a] \in {0, 1}
    /\ \A r \in Run : run[r].at \in Sending => Mine(r) /\ requested[run[r].apr] = 0

Inv == TypeOK /\ RunOK /\ GateOK /\ RowsOK /\ PaidOK /\ OnceOK
----------------------------------------------------------------------------
(* Facts the steps share.                                                  *)

\* What the invariant and its proof speak of besides the runs.
Rows == <<approval, resume, intent, stepres, idem, requested, gate, used, passed>>

\* Run r is the only one that changed, and it became rec.
Becomes(r, rec) ==
    /\ run' \in [Run -> RunType]
    /\ run'[r] = rec
    /\ \A q \in Run : q # r => run'[q] = run[q]

LEMMA BecomesFacts ==
    ASSUME TypeOK, NEW r \in Run, NEW rec \in RunType, run' = [run EXCEPT ![r] = rec]
    PROVE  Becomes(r, rec)
BY DEF TypeOK, Becomes

\* A run that only moves on keeps the rest of its record.
Moves(r, at) ==
    /\ run' \in [Run -> RunType]
    /\ run'[r].at = at
    /\ run'[r].kind = run[r].kind /\ run'[r].step = run[r].step
    /\ run'[r].apr = run[r].apr /\ run'[r].out = run[r].out
    /\ \A q \in Run : q # r => run'[q] = run[q]

LEMMA MovesFacts ==
    ASSUME TypeOK, NEW r \in Run, NEW at \in Ats, run' = [run EXCEPT ![r].at = at]
    PROVE  Moves(r, at)
<1>1. run[r] \in RunType
  BY DEF TypeOK
<1>2. [run[r] EXCEPT !.at = at] \in RunType
  BY <1>1 DEF RunType
<1>3. QED
  BY <1>1, <1>2 DEF TypeOK, RunType, Moves

LEMMA Zeros == 0 \in 0..Steps /\ 0 \in 0..MaxApr /\ 0 \in 0..MaxRuns /\ 0 \in 0..MaxRetries
BY PlanApprovalAssumption

LEMMA StepFits ==
    ASSUME NEW i \in 0..Steps, i < Steps
    PROVE  i \in Step /\ i \in Nat /\ i + 1 \in 0..Steps
BY PlanApprovalAssumption DEF Step

LEMMA SegFacts ==
    /\ Idle \in Segs
    /\ \A r \in Run : [op |-> "run", id |-> r] \in Segs
    /\ \A a \in Apr : [op |-> "expire", id |-> a] \in Segs
    /\ \A op \in {"request", "cancel", "status"} : [op |-> op, id |-> 0] \in Segs
BY PlanApprovalAssumption DEF Segs, Idle, Run, Apr

LEMMA SpendFacts ==
    ASSUME TypeOK, NEW c \in Costs, Spend(c)
    PROVE  spent' \in [Costs -> Nat]
BY DEF TypeOK, Spend

\* While one run, or no run, has the loop, no other is at an exclusive point.
LEMMA Alone ==
    ASSUME Inv, NEW r \in Run, NEW q \in Run, seg = Idle \/ Mine(r) \/ seg.op # "run",
           q # r \/ ~Mine(r)
    PROVE  run[q].at \notin Exclusive
BY DEF Inv, PaidOK, OnceOK, Mine, Idle, Exclusive

\* Only one run changed, and it is still well formed.
LEMMA OthersKept ==
    ASSUME Inv, NEW r \in Run, UNCHANGED <<approval, gate, passed>>,
           \A q \in Run : q # r => run'[q] = run[q],
           Shaped(run[r])', Truthful(run[r])'
    PROVE  RunOK'
<1>1. ASSUME NEW q \in Run, q # r PROVE Shaped(run[q])' /\ Truthful(run[q])'
  <2>1. Shaped(run[q]) /\ Truthful(run[q]) /\ run'[q] = run[q]
    BY <1>1 DEF Inv, RunOK
  <2>2. Shaped(run[q])'
    BY <2>1 DEF Shaped
  <2>3. QED
    BY <2>1, <2>2 DEF Truthful
<1>2. QED
  BY <1>1 DEF RunOK

\* A step that leaves the rows alone and moves one run to a point that is not
\* exclusive.
LEMMA QuietStep ==
    ASSUME Inv, TypeOK', UNCHANGED Rows, NEW r \in Run,
           \A q \in Run : q # r => run'[q] = run[q] /\ run[q].at \notin Exclusive,
           Shaped(run'[r]), Truthful(run'[r]), run'[r].at \notin Exclusive
    PROVE  Inv'
<1>1. RunOK'
  <2>1. Shaped(run[r])' /\ Truthful(run[r])'
    BY DEF Rows, Shaped, Truthful
  <2>2. QED
    BY <2>1, OthersKept DEF Rows
<1>2. GateOK' /\ RowsOK'
  BY DEF Inv, GateOK, RowsOK, Rows
<1>3. PaidOK'
  BY DEF Inv, PaidOK, Rows, Exclusive
<1>4. OnceOK'
  BY DEF Inv, OnceOK, Rows, Exclusive
<1>5. QED
  BY <1>1, <1>2, <1>3, <1>4 DEF Inv

\* A step that leaves the rows and the runs alone, while nobody is at an
\* exclusive point.
LEMMA StillStep ==
    ASSUME Inv, TypeOK', UNCHANGED <<Rows, run>>,
           \A q \in Run : run[q].at \notin Exclusive
    PROVE  Inv'
<1>1. RunOK'
  BY DEF Inv, RunOK, Shaped, Truthful, Rows
<1>2. GateOK' /\ RowsOK'
  BY DEF Inv, GateOK, RowsOK, Rows
<1>3. PaidOK'
  BY DEF Inv, PaidOK, Rows, Exclusive
<1>4. OnceOK'
  BY DEF Inv, OnceOK, Rows, Exclusive
<1>5. QED
  BY <1>1, <1>2, <1>3, <1>4 DEF Inv
----------------------------------------------------------------------------
(* Requests and the dispatch.                                              *)

LEMMA StillActions ==
    ASSUME Inv, Execute \/ DispatchClaim \/ DispatchFails \/ Cancel
    PROVE  Inv'
<1>1. seg = Idle /\ UNCHANGED <<Rows, run>>
  BY DEF Execute, DispatchClaim, DispatchFails, Cancel, Turn, UserTurn, store, history, Rows
<1>2. \A q \in Run : run[q].at \notin Exclusive
  BY <1>1 DEF Inv, PaidOK, OnceOK, Mine, Idle, Exclusive
<1>3. UNCHANGED <<progress, calls>>
  BY DEF Execute, DispatchClaim, DispatchFails, Cancel, store, history
<1>4. /\ wi' \in {"running", "failed", wi}
      /\ current' \in {0, current}
      /\ flag' \in {TRUE, FALSE, flag}
      /\ dispatch' \in {dispatch, [st |-> "claimed", run |-> 0], [st |-> "idle", run |-> 0]}
      /\ boot' = boot
  BY DEF Execute, DispatchClaim, DispatchFails, Cancel
<1>5. seg' \in Segs
  BY SegFacts DEF Inv, TypeOK, Execute, DispatchClaim, DispatchFails, Cancel
<1>6. spent' \in [Costs -> Nat]
  BY SpendFacts DEF Inv, TypeOK, Execute, DispatchClaim, DispatchFails, Cancel, Costs
<1>7. TypeOK'
  <2>1. /\ TypeOK
        /\ UNCHANGED <<approval, resume, intent, stepres, idem, requested, gate, used,
                       passed, run, progress, calls>>
    BY <1>1, <1>3 DEF Rows, Inv
  <2>2. current' \in 0..MaxRuns
    BY <2>1, <1>4, PlanApprovalAssumption DEF TypeOK
  <2>3. dispatch' \in [st : {"idle", "claimed", "waiting", "error"}, run : 0..MaxRuns]
    BY <2>1, <1>4, PlanApprovalAssumption DEF TypeOK
  <2>4. /\ wi' \in {"pending", "running", "waiting_approval", "completed", "failed",
                     "cancelled"}
        /\ flag' \in BOOLEAN /\ boot' \in BOOLEAN
    BY <2>1, <1>4 DEF TypeOK
  <2>5. QED
    BY <2>1, <2>2, <2>3, <2>4, <1>5, <1>6 DEF TypeOK
<1>8. QED
  BY <1>1, <1>2, <1>7, StillStep

LEMMA RecoverWorkStep ==
    ASSUME Inv, RecoverWork
    PROVE  Inv'
<1>1. /\ UNCHANGED <<Rows, run, progress, current, flag, dispatch, seg, calls, spent>>
      /\ boot' = FALSE /\ wi' = Recovered
  BY DEF RecoverWork, store, history, Rows
<1>2. wi' \in {"pending", "running", "waiting_approval", "completed", "failed", "cancelled"}
  <2>1. wi \in {"pending", "running", "waiting_approval", "completed", "failed", "cancelled"}
    BY DEF Inv, TypeOK
  <2>2. CASE wi # "running" \/ current = 0
    BY <1>1, <2>1, <2>2 DEF Recovered
  <2>3. CASE wi = "running" /\ current # 0
    <3>1. run[current].said \in Outs
      <4>1. current \in Run
        BY <2>3, PlanApprovalAssumption DEF Inv, TypeOK, Run
      <4>2. QED
        BY <4>1 DEF Inv, TypeOK, RunType
    <3>2. run[current].said = "" \/ StatusOf(run[current].said) \in
              {"completed", "waiting_approval", "failed", "cancelled"}
      BY <3>1 DEF StatusOf, Outs
    <3>3. QED
      BY <1>1, <2>1, <2>3, <3>2 DEF Recovered
  <2>4. QED
    BY <2>2, <2>3
<1>3. TypeOK'
  BY <1>1, <1>2 DEF Inv, TypeOK, Rows
<1>4. RunOK' /\ GateOK' /\ RowsOK'
  BY <1>1 DEF Inv, RunOK, Shaped, Truthful, GateOK, RowsOK, Rows
<1>5. PaidOK' /\ OnceOK'
  BY <1>1 DEF Inv, PaidOK, OnceOK, Mine, Rows
<1>6. QED
  BY <1>3, <1>4, <1>5 DEF Inv

LEMMA RequestExecuteStep ==
    ASSUME Inv, NEW r \in Run, RequestExecute(r)
    PROVE  Inv'
<1> DEFINE rec == NewRun("execute", 0, 0, "", 0)
<1>1. rec \in RunType /\ rec.at = "emitted" /\ rec.kind = "execute"
  <2>1. "emitted" \in Ats /\ "" \in Outs
    BY DEF Ats, Outs
  <2>2. QED
    BY <2>1, Zeros DEF NewRun, RunType
<1>2. Becomes(r, rec)
  BY <1>1, BecomesFacts DEF RequestExecute, Inv
<1>3. /\ UNCHANGED <<wi, Rows, progress, flag, dispatch, boot, calls, spent>>
      /\ current' = r /\ seg' = Idle /\ seg.op = "request"
  BY DEF RequestExecute, store, history, Rows
<1>4. TypeOK'
  <2>1. r \in 0..MaxRuns
    BY DEF Run
  <2>2. QED
    BY <1>2, <1>3, <2>1, SegFacts DEF Inv, TypeOK, Rows, Becomes
<1>5. \A q \in Run : q # r => run'[q] = run[q] /\ run[q].at \notin Exclusive
  BY <1>2, <1>3, Alone DEF Becomes
<1>6. Shaped(run'[r]) /\ Truthful(run'[r]) /\ run'[r].at \notin Exclusive
  BY <1>1, <1>2 DEF Becomes, Shaped, Truthful, ExecuteAts, ApproveAts, Recording,
                    Exclusive, Sending
<1>7. QED
  BY <1>3, <1>4, <1>5, <1>6, QuietStep

LEMMA DispatchSubmitStep ==
    ASSUME Inv, NEW r \in Run, DispatchSubmit(r)
    PROVE  Inv'
<1> DEFINE rec == NewRun("execute", 0, 0, "", r)
<1>0. r \in 0..MaxRuns
  BY DEF Run
<1>1. rec \in RunType /\ rec.at = "emitted" /\ rec.kind = "execute"
  <2>1. "emitted" \in Ats /\ "" \in Outs
    BY DEF Ats, Outs
  <2>2. QED
    BY <1>0, <2>1, Zeros DEF NewRun, RunType
<1>2. Becomes(r, rec)
  BY <1>1, BecomesFacts DEF DispatchSubmit, Inv
<1>3. /\ UNCHANGED <<wi, Rows, progress, flag, boot, calls, spent, seg>>
      /\ current' = r /\ dispatch' = [st |-> "waiting", run |-> r] /\ seg = Idle
  BY DEF DispatchSubmit, Turn, store, history, Rows
<1>4. TypeOK'
  BY <1>0, <1>2, <1>3 DEF Inv, TypeOK, Rows, Becomes
<1>5. \A q \in Run : q # r => run'[q] = run[q] /\ run[q].at \notin Exclusive
  BY <1>2, <1>3, Alone DEF Becomes
<1>6. Shaped(run'[r]) /\ Truthful(run'[r]) /\ run'[r].at \notin Exclusive
  BY <1>1, <1>2 DEF Becomes, Shaped, Truthful, ExecuteAts, ApproveAts, Recording,
                    Exclusive, Sending
<1>7. QED
  BY <1>3, <1>4, <1>5, <1>6, QuietStep

LEMMA DecideStep ==
    ASSUME Inv, NEW r \in Run, NEW a \in Apr, NEW decision \in {"approve", "deny"},
           Decide(r, a, decision)
    PROVE  Inv'
<1> DEFINE rec == NewRun("approve", 0, a, decision, r)
<1>0. r \in 0..MaxRuns /\ a \in 0..MaxApr
  BY DEF Run, Apr
<1>1. rec \in RunType /\ rec.at = "emitted" /\ rec.kind = "approve" /\ rec.apr = a
  <2>1. "emitted" \in Ats /\ "" \in Outs
    BY DEF Ats, Outs
  <2>2. QED
    BY <1>0, <2>1, Zeros DEF NewRun, RunType
<1>2. Becomes(r, rec)
  BY <1>1, BecomesFacts DEF Decide, Inv
<1>3. /\ UNCHANGED <<wi, Rows, progress, current, flag, dispatch, boot, calls, seg>>
      /\ approval[a] = "pending" /\ seg = Idle
  BY DEF Decide, Turn, UserTurn, store, history, Rows
<1>4. TypeOK'
  <2>1. spent' \in [Costs -> Nat]
    BY SpendFacts DEF Decide, Inv, Costs
  <2>2. QED
    BY <1>2, <1>3, <2>1 DEF Inv, TypeOK, Rows, Becomes
<1>5. \A q \in Run : q # r => run'[q] = run[q] /\ run[q].at \notin Exclusive
  BY <1>2, <1>3, Alone DEF Becomes
<1>6. Shaped(run'[r]) /\ Truthful(run'[r]) /\ run'[r].at \notin Exclusive
  BY <1>1, <1>2, <1>3 DEF Becomes, Shaped, Truthful, ExecuteAts, ApproveAts,
                          Recording, Exclusive, Sending
<1>7. QED
  BY <1>3, <1>4, <1>5, <1>6, QuietStep

LEMMA EnqueueStep ==
    ASSUME Inv, NEW r \in Run, Enqueue(r)
    PROVE  Inv'
<1>1. run[r].at = "emitted" /\ seg = Idle
  BY DEF Enqueue, Turn
<1>2. Moves(r, "queued")
  BY MovesFacts DEF Enqueue, Inv, Ats
<1>3. UNCHANGED <<wi, Rows, progress, current, flag, dispatch, seg, boot, calls, spent>>
  BY DEF Enqueue, store, history, Rows
<1>4. TypeOK'
  BY <1>2, <1>3 DEF Inv, TypeOK, Rows, Moves
<1>5. \A q \in Run : q # r => run'[q] = run[q] /\ run[q].at \notin Exclusive
  BY <1>1, <1>2, Alone DEF Moves
<1>6. Shaped(run'[r]) /\ Truthful(run'[r]) /\ run'[r].at \notin Exclusive
  BY <1>1, <1>2 DEF Inv, RunOK, Moves, Shaped, Truthful, ExecuteAts, ApproveAts,
                    Recording, Exclusive, Sending
<1>7. QED
  BY <1>3, <1>4, <1>5, <1>6, QuietStep
----------------------------------------------------------------------------
(* The execute handler.                                                    *)

LEMMA BeginExecuteStep ==
    ASSUME Inv, NEW r \in Run, BeginExecute(r)
    PROVE  Inv'
<1>0. r \in 0..MaxRuns
  BY DEF Run
<1>1. /\ run[r].at = "queued" /\ run[r].kind = "execute" /\ seg = Idle
      /\ seg' = [op |-> "run", id |-> r] /\ run[r] \in RunType
  BY DEF BeginExecute, Turn, IsExecute, Inv, TypeOK
<1>2. UNCHANGED <<Rows, progress, dispatch, boot, calls, spent>>
  BY DEF BeginExecute, store, history, Rows
<1>3. /\ wi' \in {wi, "running"} /\ current' \in {current, r, 0} /\ flag' \in {flag, FALSE}
  BY DEF BeginExecute
<1>4. Cursor(r) \in 0..Steps
  BY <1>1 DEF Cursor, Inv, TypeOK, RunType
<1>5. ASSUME NEW rec \in RunType, Becomes(r, rec), rec.kind = "execute",
             rec.at \in {"step", "report"}
      PROVE  Inv'
  <2>1. TypeOK'
    <3>1. wi' \in {"pending", "running", "waiting_approval", "completed", "failed",
                   "cancelled"} /\ flag' \in BOOLEAN /\ current' \in 0..MaxRuns
      BY <1>0, <1>3, Zeros DEF Inv, TypeOK
    <3>2. seg' \in Segs
      BY <1>1, SegFacts
    <3>3. QED
      BY <1>2, <1>5, <3>1, <3>2 DEF Inv, TypeOK, Rows, Becomes
  <2>2. \A q \in Run : q # r => run'[q] = run[q] /\ run[q].at \notin Exclusive
    BY <1>1, <1>5, Alone DEF Becomes
  <2>3. Shaped(run'[r]) /\ Truthful(run'[r]) /\ run'[r].at \notin Exclusive
    BY <1>5 DEF Becomes, Shaped, Truthful, ExecuteAts, ApproveAts, Recording,
                Exclusive, Sending
  <2>4. QED
    BY <1>2, <2>1, <2>2, <2>3, QuietStep
<1>6. CASE run' = [run EXCEPT ![r].at = "report", ![r].out = "cancelled"]
  <2> DEFINE rec == [run[r] EXCEPT !.at = "report", !.out = "cancelled"]
  <2>1. rec \in RunType /\ rec.at = "report" /\ rec.kind = "execute"
    BY <1>1 DEF RunType, Ats, Handling, Outs
  <2>2. run' = [run EXCEPT ![r] = rec]
    BY <1>6 DEF Inv, TypeOK
  <2>3. Becomes(r, rec)
    BY <2>1, <2>2, BecomesFacts DEF Inv
  <2>4. QED
    BY <1>5, <2>1, <2>3
<1>7. CASE run' = [run EXCEPT ![r].at = "step", ![r].step = Cursor(r)]
  <2> DEFINE rec == [run[r] EXCEPT !.at = "step", !.step = Cursor(r)]
  <2>1. rec \in RunType /\ rec.at = "step" /\ rec.kind = "execute"
    BY <1>1, <1>4 DEF RunType, Ats, Handling
  <2>2. run' = [run EXCEPT ![r] = rec]
    BY <1>7 DEF Inv, TypeOK
  <2>3. Becomes(r, rec)
    BY <2>1, <2>2, BecomesFacts DEF Inv
  <2>4. QED
    BY <1>5, <2>1, <2>3
<1>8. QED
  BY <1>6, <1>7 DEF BeginExecute

LEMMA PlanOverStep ==
    ASSUME Inv, NEW r \in Run, PlanOver(r)
    PROVE  Inv'
<1> DEFINE rec == [run[r] EXCEPT !.at = "close", !.out = "completed"]
<1>1. run[r].at = "step" /\ Mine(r) /\ run[r] \in RunType /\ run[r].kind = "execute"
  BY DEF PlanOver, Inv, TypeOK, RunOK, Shaped, ExecuteAts
<1>2. Becomes(r, rec)
  <2>1. rec \in RunType
    BY <1>1 DEF RunType, Ats, Handling, Outs
  <2>2. run' = [run EXCEPT ![r] = rec]
    BY DEF PlanOver, Inv, TypeOK
  <2>3. QED
    BY <2>1, <2>2, BecomesFacts DEF Inv
<1>3. UNCHANGED <<wi, Rows, progress, current, flag, dispatch, seg, boot, calls, spent>>
  BY DEF PlanOver, store, history, Rows
<1>4. TypeOK'
  BY <1>2, <1>3 DEF Inv, TypeOK, Rows, Becomes
<1>5. \A q \in Run : q # r => run'[q] = run[q] /\ run[q].at \notin Exclusive
  BY <1>1, <1>2, Alone DEF Becomes
<1>6. Shaped(run'[r]) /\ Truthful(run'[r]) /\ run'[r].at \notin Exclusive
  <2>1. rec.at = "close" /\ rec.out = "completed" /\ rec.kind = "execute"
    BY <1>1 DEF RunType
  <2>2. QED
    BY <1>2, <2>1 DEF Becomes, Shaped, Truthful, ExecuteAts, ApproveAts, Recording,
                      Exclusive, Sending
<1>7. QED
  BY <1>3, <1>4, <1>5, <1>6, QuietStep

LEMMA SkipStepStep ==
    ASSUME Inv, NEW r \in Run, SkipStep(r)
    PROVE  Inv'
<1> DEFINE rec == [run[r] EXCEPT !.step = run[r].step + 1]
<1>1. /\ run[r].at = "step" /\ Mine(r) /\ run[r] \in RunType /\ run[r].kind = "execute"
      /\ run[r].step + 1 \in 0..Steps
  <2>1. /\ run[r].at = "step" /\ Mine(r) /\ run[r] \in RunType /\ run[r].kind = "execute"
        /\ run[r].step < Steps
    BY DEF SkipStep, Inv, TypeOK, RunOK, Shaped, ExecuteAts
  <2>2. run[r].step \in 0..Steps
    BY <2>1 DEF RunType
  <2>3. QED
    BY <2>1, <2>2, StepFits
<1>2. Becomes(r, rec)
  <2>1. rec \in RunType
    BY <1>1 DEF RunType
  <2>2. run' = [run EXCEPT ![r] = rec]
    BY DEF SkipStep, Inv, TypeOK
  <2>3. QED
    BY <2>1, <2>2, BecomesFacts DEF Inv
<1>3. /\ UNCHANGED <<wi, Rows, current, flag, dispatch, seg, boot, calls, spent>>
      /\ progress' = run[r].step + 1
  BY DEF SkipStep, history, Rows
<1>4. TypeOK'
  BY <1>1, <1>2, <1>3 DEF Inv, TypeOK, Rows, Becomes
<1>5. \A q \in Run : q # r => run'[q] = run[q] /\ run[q].at \notin Exclusive
  BY <1>1, <1>2, Alone DEF Becomes
<1>6. Shaped(run'[r]) /\ Truthful(run'[r]) /\ run'[r].at \notin Exclusive
  <2>1. rec.at = "step" /\ rec.kind = "execute"
    BY <1>1 DEF RunType
  <2>2. QED
    BY <1>2, <2>1 DEF Becomes, Shaped, Truthful, ExecuteAts, ApproveAts, Recording,
                      Exclusive, Sending
<1>7. QED
  BY <1>3, <1>4, <1>5, <1>6, QuietStep

LEMMA CallStepStep ==
    ASSUME Inv, NEW r \in Run, CallStep(r)
    PROVE  Inv'
<1>1. /\ run[r].at = "step" /\ Mine(r) /\ run[r].kind = "execute"
      /\ run[r].step \in Step
  <2>1. /\ run[r].at = "step" /\ Mine(r) /\ run[r] \in RunType /\ run[r].kind = "execute"
        /\ run[r].step < Steps
    BY DEF CallStep, Inv, TypeOK, RunOK, Shaped, ExecuteAts
  <2>2. run[r].step \in 0..Steps
    BY <2>1 DEF RunType
  <2>3. QED
    BY <2>1, <2>2, StepFits
<1>2. Moves(r, "tool")
  BY MovesFacts DEF CallStep, Inv, Ats, Handling
<1>3. /\ UNCHANGED <<wi, Rows, progress, current, flag, dispatch, boot, spent>>
      /\ calls' = [calls EXCEPT ![run[r].step] = @ + 1] /\ seg' = Idle
  BY DEF CallStep, store, Rows
<1>4. TypeOK'
  BY <1>1, <1>2, <1>3, SegFacts DEF Inv, TypeOK, Rows, Moves
<1>5. \A q \in Run : q # r => run'[q] = run[q] /\ run[q].at \notin Exclusive
  BY <1>1, <1>2, Alone DEF Moves
<1>6. Shaped(run'[r]) /\ Truthful(run'[r]) /\ run'[r].at \notin Exclusive
  BY <1>1, <1>2 DEF Moves, Shaped, Truthful, ExecuteAts, ApproveAts, Recording,
                    Exclusive, Sending
<1>7. QED
  BY <1>3, <1>4, <1>5, <1>6, QuietStep

LEMMA RequestApprovalStep ==
    ASSUME Inv, NEW r \in Run, NEW a \in Apr, RequestApproval(r, a)
    PROVE  Inv'
<1> DEFINE i == run[r].step
           rec == [run[r] EXCEPT !.at = "register", !.apr = a]
<1>1. /\ run[r].at = "step" /\ Mine(r) /\ run[r] \in RunType /\ run[r].kind = "execute"
      /\ i \in Step /\ approval[a] = "absent"
  <2>1. /\ run[r].at = "step" /\ Mine(r) /\ run[r] \in RunType /\ run[r].kind = "execute"
        /\ i < Steps /\ approval[a] = "absent"
    BY DEF RequestApproval, NextApr, Inv, TypeOK, RunOK, Shaped, ExecuteAts
  <2>2. run[r].step \in 0..Steps
    BY <2>1 DEF RunType
  <2>3. QED
    BY <2>1, <2>2, StepFits
<1>2. Becomes(r, rec) /\ rec.at = "register" /\ rec.apr = a /\ rec.kind = "execute"
      /\ rec.step = i
  <2>1. rec \in RunType /\ rec.at = "register" /\ rec.apr = a /\ rec.kind = "execute"
        /\ rec.step = i
    <3>1. "register" \in Ats /\ a \in 0..MaxApr
      BY DEF Ats, Handling, Apr
    <3>2. QED
      BY <1>1, <3>1 DEF RunType
  <2>2. run' = [run EXCEPT ![r] = rec]
    BY DEF RequestApproval, Inv, TypeOK
  <2>3. QED
    BY <2>1, <2>2, BecomesFacts DEF Inv
<1>3. /\ UNCHANGED <<wi, resume, intent, progress, stepres, idem, requested, current,
                     flag, dispatch, seg, boot, used, calls, passed, spent>>
      /\ approval' = [approval EXCEPT ![a] = "pending"]
      /\ gate' = [gate EXCEPT ![a] = i]
  BY DEF RequestApproval
<1>4. /\ approval'[a] = "pending" /\ gate'[a] = i
      /\ \A b \in Apr : b # a => approval'[b] = approval[b] /\ gate'[b] = gate[b]
  BY <1>3 DEF Inv, TypeOK
<1>5. TypeOK'
  BY <1>1, <1>2, <1>3 DEF Inv, TypeOK, Becomes
<1>6. \A q \in Run : q # r => run'[q] = run[q] /\ run[q].at \notin Exclusive
  BY <1>1, <1>2, Alone DEF Becomes
<1>7. RunOK'
  <2>1. Shaped(run[r])' /\ Truthful(run[r])'
    BY <1>1, <1>2, <1>4 DEF Becomes, Shaped, Truthful, ExecuteAts, ApproveAts, Recording
  <2>2. ASSUME NEW q \in Run, q # r
        PROVE  Shaped(run[q])' /\ Truthful(run[q])'
    <3>1. Shaped(run[q]) /\ Truthful(run[q]) /\ run'[q] = run[q]
      BY <1>6, <2>2 DEF Inv, RunOK
    <3>2. run[q].at = "register" \/ run[q].kind = "approve" =>
              /\ run[q].apr \in Apr /\ run[q].apr # a
              /\ approval'[run[q].apr] = approval[run[q].apr]
              /\ gate'[run[q].apr] = gate[run[q].apr]
      BY <1>1, <1>4, <3>1 DEF Shaped
    <3>3. Shaped(run[q])'
      BY <3>1, <3>2 DEF Shaped
    <3>4. Truthful(run[q])'
      BY <1>3, <3>1, <3>2 DEF Truthful
    <3>5. QED
      BY <3>3, <3>4
  <2>3. QED
    BY <2>1, <2>2 DEF RunOK
<1>8. GateOK'
  BY <1>1, <1>3, <1>4 DEF Inv, GateOK
<1>9. RowsOK'
  <2>1. resume[a] = 0 /\ intent[a].from = 0
    BY <1>1 DEF Inv, GateOK
  <2>2. \A b \in Apr : resume'[b] > 0 \/ intent'[b].from > 0 => gate'[b] = gate[b]
    BY <1>3, <1>4, <2>1
  <2>3. QED
    BY <1>3, <2>2 DEF Inv, RowsOK
<1>10. PaidOK'
  <2>1. \A b \in Apr : used'[b] = 0 \/ (used'[b] = 1 /\ approval'[b] = "approved")
    BY <1>1, <1>3, <1>4 DEF Inv, PaidOK
  <2>2. \A q \in Run : run'[q].at # "call"
    BY <1>2, <1>6 DEF Becomes, Exclusive
  <2>3. QED
    BY <2>1, <2>2 DEF PaidOK
<1>11. OnceOK'
  BY <1>2, <1>3, <1>6 DEF Inv, OnceOK, Becomes, Exclusive, Sending
<1>12. QED
  BY <1>5, <1>7, <1>8, <1>9, <1>10, <1>11 DEF Inv

LEMMA RegisterStep ==
    ASSUME Inv, NEW r \in Run, Register(r)
    PROVE  Inv'
<1> DEFINE a == run[r].apr
           i == run[r].step
<1>1. run[r].at = "register" /\ Mine(r) /\ seg' = seg
  BY DEF Register, Go, Mine
<1>2. /\ i \in Step /\ i \in Nat /\ i + 1 \in 0..Steps /\ run[r].kind = "execute"
      /\ a \in Apr /\ approval[a] # "absent" /\ i = gate[a]
  <2>1. /\ i \in Step /\ run[r].kind = "execute"
        /\ a \in Apr /\ approval[a] # "absent" /\ i = gate[a]
    BY <1>1 DEF Inv, RunOK, Shaped, Truthful, ExecuteAts
  <2>2. QED
    BY <2>1, PlanApprovalAssumption DEF Step
<1>3. Moves(r, "pass")
  BY MovesFacts DEF Register, Go, Inv, Ats, Handling
<1>4. /\ UNCHANGED <<wi, approval, intent, progress, stepres, idem, requested, current,
                     flag, dispatch, seg, boot, gate, used, calls, passed, spent>>
      /\ resume' = [resume EXCEPT ![a] = i + 1]
  BY <1>1 DEF Register, NextResume, history
<1>5. TypeOK'
  BY <1>2, <1>3, <1>4 DEF Inv, TypeOK, Moves
<1>6. RunOK'
  <2>1. Shaped(run[r])' /\ Truthful(run[r])'
    BY <1>2, <1>3, <1>4 DEF Shaped, Truthful, Moves, ExecuteAts, ApproveAts, Recording
  <2>2. QED
    BY <1>3, <1>4, <2>1, OthersKept DEF Moves
<1>7. GateOK'
  BY <1>2, <1>4 DEF Inv, TypeOK, GateOK
<1>8. RowsOK'
  BY <1>2, <1>4 DEF Inv, TypeOK, RowsOK
<1>9. PaidOK' /\ OnceOK'
  BY <1>3, <1>4 DEF Inv, PaidOK, OnceOK, Moves, Mine, Sending
<1>10. QED
  BY <1>5, <1>6, <1>7, <1>8, <1>9 DEF Inv

LEMMA PassPendingStep ==
    ASSUME Inv, NEW r \in Run, PassPending(r)
    PROVE  Inv'
<1> DEFINE rec == [run[r] EXCEPT !.at = "close", !.out = "pending"]
<1>1. /\ run[r].at = "pass" /\ Mine(r) /\ run[r] \in RunType /\ run[r].kind = "execute"
      /\ run[r].step + 1 \in 0..Steps
  <2>1. /\ run[r].at = "pass" /\ Mine(r) /\ run[r] \in RunType /\ run[r].kind = "execute"
        /\ run[r].step \in Step
    BY DEF PassPending, Inv, TypeOK, RunOK, Shaped, ExecuteAts
  <2>2. QED
    BY <2>1, PlanApprovalAssumption DEF Step
<1>2. Becomes(r, rec)
  <2>1. rec \in RunType
    BY <1>1 DEF RunType, Ats, Handling, Outs
  <2>2. run' = [run EXCEPT ![r] = rec]
    BY DEF PassPending, Inv, TypeOK
  <2>3. QED
    BY <2>1, <2>2, BecomesFacts DEF Inv
<1>3. /\ UNCHANGED <<wi, Rows, current, flag, dispatch, seg, boot, calls, spent>>
      /\ progress' = run[r].step + 1
  BY DEF PassPending, history, Rows
<1>4. TypeOK'
  BY <1>1, <1>2, <1>3 DEF Inv, TypeOK, Rows, Becomes
<1>5. \A q \in Run : q # r => run'[q] = run[q] /\ run[q].at \notin Exclusive
  BY <1>1, <1>2, Alone DEF Becomes
<1>6. Shaped(run'[r]) /\ Truthful(run'[r]) /\ run'[r].at \notin Exclusive
  <2>1. rec.at = "close" /\ rec.out = "pending" /\ rec.kind = "execute"
    BY <1>1 DEF RunType
  <2>2. QED
    BY <1>2, <2>1 DEF Becomes, Shaped, Truthful, ExecuteAts, ApproveAts, Recording,
                      Exclusive, Sending
<1>7. QED
  BY <1>3, <1>4, <1>5, <1>6, QuietStep

\* A step after which more tools have succeeded than before, and no row has
\* changed: a recorded step is still a done one.
LEMMA DoneStep ==
    ASSUME Inv, TypeOK', passed \subseteq passed', NEW r \in Run,
           UNCHANGED <<approval, resume, intent, stepres, idem, requested, gate, used>>,
           \A q \in Run : q # r => run'[q] = run[q] /\ run[q].at \notin Exclusive,
           Shaped(run[r])', Truthful(run[r])', run'[r].at \notin Exclusive
    PROVE  Inv'
<1>1. RunOK'
  <2>1. ASSUME NEW q \in Run, q # r PROVE Shaped(run[q])' /\ Truthful(run[q])'
    <3>1. Shaped(run[q]) /\ Truthful(run[q]) /\ run'[q] = run[q]
      BY <2>1 DEF Inv, RunOK
    <3>2. Shaped(run[q])'
      BY <3>1 DEF Shaped
    <3>3. QED
      BY <3>1, <3>2 DEF Truthful
  <2>2. QED
    BY <2>1 DEF RunOK
<1>2. GateOK' /\ RowsOK'
  BY DEF Inv, GateOK, RowsOK
<1>3. PaidOK'
  BY DEF Inv, PaidOK, Exclusive
<1>4. OnceOK'
  BY DEF Inv, OnceOK, Exclusive
<1>5. QED
  BY <1>1, <1>2, <1>3, <1>4 DEF Inv

LEMMA StepReturnsStep ==
    ASSUME Inv, NEW r \in Run, StepReturns(r)
    PROVE  Inv'
<1>1. /\ run[r].at = "tool" /\ run[r].kind = "execute" /\ seg = Idle
      /\ seg' = [op |-> "run", id |-> r] /\ run[r] \in RunType /\ run[r].step \in Step
  BY DEF StepReturns, Turn, IsExecute, Inv, TypeOK, RunOK, Shaped
<1>2. UNCHANGED <<wi, approval, resume, intent, progress, stepres, idem, requested,
                  current, flag, dispatch, boot, gate, used, calls, spent>>
  BY DEF StepReturns, store
<1>3. passed' = passed \/ passed' = passed \union {run[r].step}
  BY DEF StepReturns
<1>4. ASSUME NEW rec \in RunType, run' = [run EXCEPT ![r] = rec], rec.kind = "execute",
             \/ rec.at = "close" /\ rec.out # ""
             \/ rec.at = "idem" /\ rec.step \in Step /\ rec.step \in passed'
      PROVE  Inv'
  <2>1. Becomes(r, rec)
    BY <1>4, BecomesFacts DEF Inv
  <2>2. TypeOK'
    BY <1>1, <1>2, <1>3, <2>1, SegFacts DEF Inv, TypeOK, Becomes
  <2>3. \A q \in Run : q # r => run'[q] = run[q] /\ run[q].at \notin Exclusive
    BY <1>1, <2>1, Alone DEF Becomes
  <2>4. Shaped(run[r])' /\ Truthful(run[r])' /\ run'[r].at \notin Exclusive
    BY <1>4, <2>1 DEF Becomes, Shaped, Truthful, ExecuteAts, ApproveAts, Recording,
                      Exclusive, Sending
  <2>5. QED
    BY <1>2, <1>3, <2>2, <2>3, <2>4, DoneStep
<1>5. ASSUME NEW out \in {"cancelled", "failed"},
             run' = [run EXCEPT ![r].at = "close", ![r].out = out]
      PROVE  Inv'
  <2> DEFINE rec == [run[r] EXCEPT !.at = "close", !.out = out]
  <2>1. rec \in RunType /\ rec.at = "close" /\ rec.out = out /\ rec.kind = "execute"
    BY <1>1 DEF RunType, Ats, Handling, Outs
  <2>2. run' = [run EXCEPT ![r] = rec]
    BY <1>5 DEF Inv, TypeOK
  <2>3. QED
    BY <1>4, <2>1, <2>2
<1>6. CASE /\ run' = [run EXCEPT ![r].at = "idem"]
           /\ passed' = passed \union {run[r].step}
  <2> DEFINE rec == [run[r] EXCEPT !.at = "idem"]
  <2>1. rec \in RunType /\ rec.at = "idem" /\ rec.step = run[r].step /\ rec.kind = "execute"
    BY <1>1 DEF RunType, Ats, Handling
  <2>2. run' = [run EXCEPT ![r] = rec]
    BY <1>6
  <2>3. QED
    <3>1. rec.step \in Step /\ rec.step \in passed'
      BY <1>1, <1>6, <2>1
    <3>2. QED
      BY <1>4, <2>1, <2>2, <3>1
<1>7. QED
  BY <1>5, <1>6 DEF StepReturns

LEMMA RecordIdemStep ==
    ASSUME Inv, NEW r \in Run, RecordIdem(r)
    PROVE  Inv'
<1>1. run[r].at = "idem" /\ Mine(r) /\ seg' = seg
  BY DEF RecordIdem, Go, Mine
<1>2. /\ run[r].step \in Step /\ run[r].step \in passed
      /\ run[r].corr = 0 \/ run[r].corr \in Run
  <2>1. run[r].step \in Step /\ run[r].step \in passed
    BY <1>1 DEF Inv, RunOK, Shaped, Truthful, Recording
  <2>2. run[r].corr \in 0..MaxRuns
    BY DEF Inv, TypeOK, RunType
  <2>3. QED
    BY <2>1, <2>2, PlanApprovalAssumption DEF Run
<1>3. Moves(r, "stepres")
  BY MovesFacts DEF RecordIdem, Go, Inv, Ats, Handling
<1>4. /\ UNCHANGED <<wi, approval, resume, intent, progress, stepres, requested, current,
                     flag, dispatch, seg, boot, gate, used, calls, passed, spent>>
      /\ idem' = IF run[r].corr = 0 THEN idem
                 ELSE idem \union {<<run[r].corr, run[r].step>>}
  BY <1>1 DEF RecordIdem, history
<1>5. TypeOK'
  BY <1>2, <1>3, <1>4 DEF Inv, TypeOK, Moves
<1>6. RunOK'
  <2>1. Shaped(run[r])' /\ Truthful(run[r])'
    BY <1>1, <1>3, <1>4 DEF Inv, RunOK, Shaped, Truthful, Moves, ExecuteAts,
                            ApproveAts, Recording
  <2>2. QED
    BY <1>3, <1>4, <2>1, OthersKept DEF Moves
<1>7. GateOK'
  BY <1>4 DEF Inv, GateOK
<1>8. RowsOK'
  BY <1>2, <1>4 DEF Inv, RowsOK
<1>9. PaidOK' /\ OnceOK'
  BY <1>3, <1>4 DEF Inv, PaidOK, OnceOK, Moves, Mine, Sending
<1>10. QED
  BY <1>5, <1>6, <1>7, <1>8, <1>9 DEF Inv

LEMMA RecordStepStep ==
    ASSUME Inv, NEW r \in Run, RecordStep(r)
    PROVE  Inv'
<1>1. run[r].at = "stepres" /\ Mine(r) /\ seg' = seg
  BY DEF RecordStep, Go, Mine
<1>2. run[r].step \in Step /\ run[r].step \in passed
  BY <1>1 DEF Inv, RunOK, Shaped, Truthful, Recording
<1>3. /\ UNCHANGED <<wi, approval, resume, intent, progress, idem, requested, current,
                     flag, dispatch, seg, boot, gate, used, calls, passed, spent>>
      /\ stepres' = stepres \union {run[r].step}
  BY <1>1 DEF RecordStep, history
<1>4. PICK at \in {"progress", "confirm", "intent"} :
          /\ Moves(r, at)
          /\ at = "progress" => run[r].kind = "execute"
          /\ at # "progress" => run[r].kind = "approve"
          /\ at = "intent" => requested[run[r].apr] = 0
  <2>1. run[r].kind \in {"execute", "approve"}
    BY <1>1 DEF Inv, RunOK, Shaped, TypeOK, RunType
  <2>2. CASE IsExecute(r)
    <3>1. run' = [run EXCEPT ![r].at = "progress"]
      BY <2>2 DEF RecordStep, Go
    <3>2. Moves(r, "progress")
      BY <3>1, MovesFacts DEF Inv, Ats, Handling
    <3>3. QED
      BY <2>2, <3>2 DEF IsExecute
  <2>3. CASE ~IsExecute(r) /\ Already(run[r].apr)
    <3>1. run' = [run EXCEPT ![r].at = "confirm"]
      BY <2>3 DEF RecordStep, Go
    <3>2. Moves(r, "confirm")
      BY <3>1, MovesFacts DEF Inv, Ats, Handling
    <3>3. QED
      BY <2>1, <2>3, <3>2 DEF IsExecute
  <2>4. CASE ~IsExecute(r) /\ ~Already(run[r].apr)
    <3>1. run' = [run EXCEPT ![r].at = "intent"]
      BY <2>4 DEF RecordStep, Go
    <3>2. Moves(r, "intent")
      BY <3>1, MovesFacts DEF Inv, Ats, Handling
    <3>3. run[r].kind = "approve" /\ run[r].apr \in Apr
      BY <1>1, <2>1, <2>4 DEF IsExecute, Inv, RunOK, Shaped
    <3>4. requested[run[r].apr] = 0
      BY <2>4, <3>3 DEF Already, Inv, TypeOK, OnceOK
    <3>5. QED
      BY <3>2, <3>3, <3>4
  <2>5. QED
    BY <2>2, <2>3, <2>4
<1>5. TypeOK'
  BY <1>2, <1>3, <1>4 DEF Inv, TypeOK, Moves
<1>6. RunOK'
  <2>1. Shaped(run[r])' /\ Truthful(run[r])'
    BY <1>1, <1>3, <1>4 DEF Inv, RunOK, Shaped, Truthful, Moves, ExecuteAts,
                            ApproveAts, Recording
  <2>2. QED
    BY <1>3, <1>4, <2>1, OthersKept DEF Moves
<1>7. GateOK'
  BY <1>3 DEF Inv, GateOK
<1>8. RowsOK'
  BY <1>2, <1>3 DEF Inv, RowsOK
<1>9. PaidOK'
  BY <1>3, <1>4 DEF Inv, PaidOK, Moves, Mine
<1>10. OnceOK'
  BY <1>1, <1>3, <1>4 DEF Inv, OnceOK, Moves, Mine, Sending
<1>11. QED
  BY <1>5, <1>6, <1>7, <1>8, <1>9, <1>10 DEF Inv

LEMMA ProgressStep ==
    ASSUME Inv, NEW r \in Run, Progress(r)
    PROVE  Inv'
<1> DEFINE rec == [run[r] EXCEPT !.at = "step", !.step = run[r].step + 1]
<1>1. /\ run[r].at = "progress" /\ Mine(r) /\ run[r] \in RunType
      /\ run[r].kind = "execute" /\ run[r].step + 1 \in 0..Steps
  <2>1. /\ run[r].at = "progress" /\ Mine(r) /\ run[r] \in RunType
        /\ run[r].kind = "execute" /\ run[r].step \in Step
    BY DEF Progress, Inv, TypeOK, RunOK, Shaped, ExecuteAts, Recording
  <2>2. QED
    BY <2>1, PlanApprovalAssumption DEF Step
<1>2. Becomes(r, rec)
  <2>1. rec \in RunType
    BY <1>1 DEF RunType, Ats, Handling
  <2>2. run' = [run EXCEPT ![r] = rec]
    BY DEF Progress, Inv, TypeOK
  <2>3. QED
    BY <2>1, <2>2, BecomesFacts DEF Inv
<1>3. /\ UNCHANGED <<wi, Rows, current, flag, dispatch, seg, boot, calls, spent>>
      /\ progress' = run[r].step + 1
  BY DEF Progress, history, Rows
<1>4. TypeOK'
  BY <1>1, <1>2, <1>3 DEF Inv, TypeOK, Rows, Becomes
<1>5. \A q \in Run : q # r => run'[q] = run[q] /\ run[q].at \notin Exclusive
  BY <1>1, <1>2, Alone DEF Becomes
<1>6. Shaped(run'[r]) /\ Truthful(run'[r]) /\ run'[r].at \notin Exclusive
  <2>1. rec.at = "step" /\ rec.kind = "execute"
    BY <1>1 DEF RunType
  <2>2. QED
    BY <1>2, <2>1 DEF Becomes, Shaped, Truthful, ExecuteAts, ApproveAts, Recording,
                      Exclusive, Sending
<1>7. QED
  BY <1>3, <1>4, <1>5, <1>6, QuietStep

LEMMA CloseStep ==
    ASSUME Inv, NEW r \in Run, Close(r)
    PROVE  Inv'
<1>1. run[r].at = "close" /\ Mine(r) /\ seg' = seg
  BY DEF Close, Go, Mine
<1>2. Moves(r, "report")
  BY MovesFacts DEF Close, Go, Inv, Ats, Handling
<1>3. /\ UNCHANGED <<Rows, progress, current, dispatch, seg, boot, calls, spent>>
      /\ wi' = StatusOf(run[r].out) /\ flag' \in {flag, FALSE}
  <2>1. flag \in BOOLEAN
    BY DEF Inv, TypeOK
  <2>2. UNCHANGED <<Rows, progress, current, dispatch, seg, boot, calls, spent>>
    BY <1>1 DEF Close, store, history, Rows
  <2>3. QED
    BY <2>1, <2>2 DEF Close
<1>4. TypeOK'
  <2>1. run[r].out \in Outs /\ run[r].out # ""
    BY <1>1 DEF Inv, TypeOK, RunType, RunOK, Shaped
  <2>2. wi' \in {"completed", "waiting_approval", "failed", "cancelled"}
    BY <1>3, <2>1 DEF StatusOf, Outs
  <2>3. QED
    BY <1>2, <1>3, <2>2 DEF Inv, TypeOK, Rows, Moves
<1>5. \A q \in Run : q # r => run'[q] = run[q] /\ run[q].at \notin Exclusive
  BY <1>1, <1>2, Alone DEF Moves
<1>6. Shaped(run'[r]) /\ Truthful(run'[r]) /\ run'[r].at \notin Exclusive
  BY <1>1, <1>2 DEF Inv, RunOK, Moves, Shaped, Truthful, ExecuteAts, ApproveAts,
                    Recording, Exclusive, Sending
<1>7. QED
  BY <1>3, <1>4, <1>5, <1>6, QuietStep

LEMMA ReportStep ==
    ASSUME Inv, NEW r \in Run, Report(r)
    PROVE  Inv'
<1> DEFINE rec == [run[r] EXCEPT !.at = "return", !.said = run[r].out]
<1>1. run[r].at = "report" /\ Mine(r) /\ run[r] \in RunType
  BY DEF Report, Inv, TypeOK
<1>2. Becomes(r, rec)
  <2>1. rec \in RunType
    BY <1>1 DEF RunType, Ats, Handling
  <2>2. run' = [run EXCEPT ![r] = rec]
    BY DEF Report, Inv, TypeOK
  <2>3. QED
    BY <2>1, <2>2, BecomesFacts DEF Inv
<1>3. UNCHANGED <<wi, Rows, progress, current, flag, seg, boot, calls, spent>>
  BY DEF Report, store, history, Rows
<1>4. dispatch' \in [st : {"idle", "claimed", "waiting", "error"}, run : 0..MaxRuns]
  BY Zeros DEF Report, Inv, TypeOK
<1>5. TypeOK'
  BY <1>2, <1>3, <1>4 DEF Inv, TypeOK, Rows, Becomes
<1>6. \A q \in Run : q # r => run'[q] = run[q] /\ run[q].at \notin Exclusive
  BY <1>1, <1>2, Alone DEF Becomes
<1>7. Shaped(run'[r]) /\ Truthful(run'[r]) /\ run'[r].at \notin Exclusive
  <2>1. rec.at = "return" /\ rec.kind = run[r].kind /\ rec.apr = run[r].apr
    BY <1>1 DEF RunType
  <2>2. Shaped(run[r]) /\ run[r].kind # "none" /\ run'[r] = rec
    BY <1>1, <1>2 DEF Inv, RunOK, Becomes, Shaped
  <2>3. QED
    BY <2>1, <2>2 DEF Shaped, Truthful, ExecuteAts, ApproveAts, Recording, Exclusive,
                      Sending
<1>8. QED
  BY <1>3, <1>5, <1>6, <1>7, QuietStep

LEMMA ReturnStep ==
    ASSUME Inv, NEW r \in Run, Return(r)
    PROVE  Inv'
<1>1. run[r].at = "return" /\ Mine(r) /\ seg' = Idle
  BY DEF Return
<1>2. Moves(r, "done")
  BY MovesFacts DEF Return, Inv, Ats, Ended
<1>3. UNCHANGED <<wi, Rows, progress, current, flag, dispatch, boot, calls, spent>>
  BY DEF Return, store, history, Rows
<1>4. TypeOK'
  BY <1>1, <1>2, <1>3, SegFacts DEF Inv, TypeOK, Rows, Moves
<1>5. \A q \in Run : q # r => run'[q] = run[q] /\ run[q].at \notin Exclusive
  BY <1>1, <1>2, Alone DEF Moves
<1>6. Shaped(run'[r]) /\ Truthful(run'[r]) /\ run'[r].at \notin Exclusive
  BY <1>1, <1>2 DEF Inv, RunOK, Moves, Shaped, Truthful, ExecuteAts, ApproveAts,
                    Recording, Exclusive, Sending
<1>7. QED
  BY <1>3, <1>4, <1>5, <1>6, QuietStep
----------------------------------------------------------------------------
(* The approve handler.                                                    *)

LEMMA WaitForLockStep ==
    ASSUME Inv, NEW r \in Run, WaitForLock(r)
    PROVE  Inv'
<1>1. run[r].at = "queued" /\ run[r].kind = "approve" /\ seg = Idle
  BY DEF WaitForLock, Turn, IsExecute, Inv, TypeOK, RunType, RunOK, Shaped
<1>2. Moves(r, "lock")
  BY MovesFacts DEF WaitForLock, Inv, Ats, Handling
<1>3. UNCHANGED <<wi, Rows, progress, current, flag, dispatch, seg, boot, calls, spent>>
  BY DEF WaitForLock, store, history, Rows
<1>4. TypeOK'
  BY <1>2, <1>3 DEF Inv, TypeOK, Rows, Moves
<1>5. \A q \in Run : q # r => run'[q] = run[q] /\ run[q].at \notin Exclusive
  BY <1>1, <1>2, Alone DEF Moves
<1>6. Shaped(run'[r]) /\ Truthful(run'[r]) /\ run'[r].at \notin Exclusive
  BY <1>1, <1>2 DEF Inv, RunOK, Moves, Shaped, Truthful, ExecuteAts, ApproveAts,
                    Recording, Exclusive, Sending
<1>7. QED
  BY <1>3, <1>4, <1>5, <1>6, QuietStep

\* The plan an approval resumes starts behind the step it gates.
LEMMA ResumedFacts ==
    ASSUME Inv, NEW a \in Apr, approval[a] # "absent", Resumed(a) > 0
    PROVE  Resumed(a) - 1 = gate[a] /\ gate[a] \in Step
<1>1. gate[a] \in Step /\ gate[a] \in Nat
  BY PlanApprovalAssumption DEF Inv, GateOK, Step
<1>2. resume[a] \in Nat /\ intent[a].from \in Nat
  BY PlanApprovalAssumption DEF Inv, TypeOK
<1>3. QED
  BY <1>1, <1>2 DEF Resumed, Inv, RowsOK

LEMMA AnsweredFacts ==
    ASSUME Inv, NEW r \in Run, run[r].apr \in Apr, approval[run[r].apr] # "absent",
           Answered(r)
    PROVE  gate[run[r].apr] \in passed
<1> DEFINE a == run[r].apr
<1>1. Resumed(a) > 0 /\ gate[a] \in Step /\ gate[a] \in Nat
  BY PlanApprovalAssumption DEF Answered, Inv, GateOK, Step
<1>2. CASE resume[a] > 0
  <2>1. resume[a] = gate[a] + 1
    BY <1>2 DEF Inv, RowsOK
  <2>2. Cached(r, gate[a])
    BY <1>1, <1>2, <2>1 DEF Answered
  <2>3. idem \subseteq Run \X Step
    BY DEF Inv, TypeOK
  <2>4. QED
    BY <1>1, <2>2, <2>3 DEF Cached, Inv, RowsOK
<1>3. CASE ~(resume[a] > 0)
  BY <1>1, <1>3 DEF Resumed, Inv, RowsOK
<1>4. QED
  BY <1>2, <1>3

LEMMA AcquireStep ==
    ASSUME Inv, NEW r \in Run, Acquire(r)
    PROVE  Inv'
<1> DEFINE a == run[r].apr
<1>1. /\ run[r].at = "lock" /\ seg = Idle /\ seg' = [op |-> "run", id |-> r]
      /\ run[r] \in RunType /\ run[r].kind = "approve" /\ a \in Apr
      /\ approval[a] # "absent"
  BY DEF Acquire, Turn, Go, Inv, TypeOK, RunOK, Shaped, ApproveAts
<1>2. UNCHANGED <<wi, resume, intent, progress, stepres, idem, requested, current, flag,
                  dispatch, boot, gate, used, calls, passed, spent>>
  BY DEF Acquire, history
<1>3. \A q \in Run : run[q].at \notin Exclusive
  BY <1>1, Alone DEF Mine, Idle
<1>4. CASE run' = [run EXCEPT ![r].at = "drop"] /\ UNCHANGED approval
  <2>1. Moves(r, "drop")
    BY <1>4, MovesFacts DEF Inv, Ats, Handling
  <2>2. TypeOK'
    BY <1>1, <1>2, <1>4, <2>1, SegFacts DEF Inv, TypeOK, Moves
  <2>3. Shaped(run'[r]) /\ Truthful(run'[r]) /\ run'[r].at \notin Exclusive
    BY <1>1, <2>1 DEF Moves, Shaped, Truthful, ExecuteAts, ApproveAts, Recording,
                      Exclusive, Sending
  <2>4. QED
    BY <1>2, <1>3, <1>4, <2>1, <2>2, <2>3, QuietStep DEF Moves, Rows
<1>5. CASE /\ run' = [run EXCEPT ![r].at = "idem", ![r].step = Resumed(a) - 1]
           /\ Answered(r) /\ UNCHANGED approval
  <2> DEFINE rec == [run[r] EXCEPT !.at = "idem", !.step = Resumed(a) - 1]
  <2>1. Resumed(a) - 1 = gate[a] /\ gate[a] \in Step /\ gate[a] \in passed
    BY <1>1, <1>5, ResumedFacts, AnsweredFacts DEF Answered
  <2>2. gate[a] \in 0..Steps
    BY <2>1, PlanApprovalAssumption DEF Step
  <2>3. /\ rec \in RunType /\ rec.at = "idem" /\ rec.step = gate[a]
        /\ rec.kind = "approve" /\ rec.apr = a
    BY <1>1, <2>1, <2>2 DEF RunType, Ats, Handling
  <2>4. Becomes(r, rec)
    <3>1. run' = [run EXCEPT ![r] = rec]
      BY <1>5 DEF Inv, TypeOK
    <3>2. QED
      BY <2>3, <3>1, BecomesFacts DEF Inv
  <2>5. TypeOK'
    BY <1>1, <1>2, <1>5, <2>4, SegFacts DEF Inv, TypeOK, Becomes
  <2>6. Shaped(run'[r]) /\ Truthful(run'[r]) /\ run'[r].at \notin Exclusive
    BY <1>1, <2>1, <2>3, <2>4 DEF Becomes, Shaped, Truthful, ExecuteAts, ApproveAts,
                                  Recording, Exclusive, Sending
  <2>7. QED
    BY <1>2, <1>3, <1>5, <2>4, <2>5, <2>6, QuietStep DEF Becomes, Rows
<1>6. CASE /\ run' = [run EXCEPT ![r].at = "call"]
           /\ approval[a] = "pending"
           /\ approval' = [approval EXCEPT ![a] = "approved"]
  <2>1. Moves(r, "call")
    BY <1>6, MovesFacts DEF Inv, Ats, Handling
  <2>2. TypeOK'
    BY <1>1, <1>2, <1>6, <2>1, SegFacts DEF Inv, TypeOK, Moves
  <2>3. approval'[a] = "approved" /\ \A b \in Apr : b # a => approval'[b] = approval[b]
    BY <1>1, <1>6 DEF Inv, TypeOK
  <2>4. RunOK'
    <3>1. Shaped(run[r])' /\ Truthful(run[r])'
      BY <1>1, <2>1, <2>3 DEF Moves, Shaped, Truthful, ExecuteAts, ApproveAts, Recording
    <3>2. ASSUME NEW q \in Run, q # r
          PROVE  Shaped(run[q])' /\ Truthful(run[q])'
      <4>1. Shaped(run[q]) /\ Truthful(run[q]) /\ run'[q] = run[q]
        BY <2>1, <3>2 DEF Inv, RunOK, Moves
      <4>2. Shaped(run[q])'
        BY <2>3, <4>1 DEF Shaped
      <4>3. Truthful(run[q])'
        BY <1>2, <4>1 DEF Truthful
      <4>4. QED
        BY <4>2, <4>3
    <3>3. QED
      BY <3>1, <3>2 DEF RunOK
  <2>5. GateOK'
    BY <1>1, <1>2, <2>3 DEF Inv, GateOK
  <2>6. RowsOK'
    BY <1>2 DEF Inv, RowsOK
  <2>7. PaidOK'
    BY <1>1, <1>2, <1>3, <1>6, <2>1, <2>3 DEF Inv, PaidOK, Moves, Mine, Exclusive
  <2>8. OnceOK'
    BY <1>2, <1>3, <2>1 DEF Inv, OnceOK, Moves, Exclusive, Sending
  <2>9. QED
    BY <2>2, <2>4, <2>5, <2>6, <2>7, <2>8 DEF Inv
<1>7. QED
  BY <1>4, <1>5, <1>6 DEF Acquire, Go, Consumable

LEMMA CallApprovedStep ==
    ASSUME Inv, NEW r \in Run, CallApproved(r)
    PROVE  Inv'
<1> DEFINE a == run[r].apr
<1>1. /\ run[r].at = "call" /\ Mine(r) /\ run[r].kind = "approve" /\ a \in Apr
      /\ approval[a] = "approved" /\ used[a] = 0 /\ gate[a] \in Step
  BY DEF CallApproved, Inv, RunOK, Shaped, ApproveAts, PaidOK, GateOK
<1>2. Moves(r, "tool")
  BY MovesFacts DEF CallApproved, Inv, Ats, Handling
<1>3. /\ UNCHANGED <<wi, approval, resume, intent, progress, stepres, idem, requested,
                     current, flag, dispatch, boot, gate, passed, spent>>
      /\ used' = [used EXCEPT ![a] = @ + 1] /\ seg' = Idle
      /\ calls' = [calls EXCEPT ![gate[a]] = @ + 1]
  BY DEF CallApproved, store
<1>4. TypeOK'
  BY <1>1, <1>2, <1>3, SegFacts DEF Inv, TypeOK, Moves
<1>5. \A q \in Run : q # r => run'[q] = run[q] /\ run[q].at \notin Exclusive
  BY <1>1, <1>2, Alone DEF Moves
<1>6. RunOK'
  <2>1. Shaped(run[r])' /\ Truthful(run[r])'
    BY <1>1, <1>2, <1>3 DEF Moves, Shaped, Truthful, ExecuteAts, ApproveAts, Recording
  <2>2. QED
    BY <1>3, <1>5, <2>1, OthersKept
<1>7. GateOK' /\ RowsOK'
  BY <1>3 DEF Inv, GateOK, RowsOK
<1>8. PaidOK'
  <2>1. used'[a] = 1 /\ \A b \in Apr : b # a => used'[b] = used[b]
    BY <1>1, <1>3 DEF Inv, TypeOK
  <2>2. QED
    BY <1>1, <1>2, <1>3, <1>5, <2>1 DEF Inv, PaidOK, Moves, Exclusive
<1>9. OnceOK'
  BY <1>2, <1>3, <1>5 DEF Inv, OnceOK, Moves, Exclusive, Sending
<1>10. QED
  BY <1>4, <1>6, <1>7, <1>8, <1>9 DEF Inv

LEMMA ApprovedReturnsStep ==
    ASSUME Inv, NEW r \in Run, ApprovedReturns(r)
    PROVE  Inv'
<1> DEFINE a == run[r].apr
<1>1. /\ run[r].at = "tool" /\ run[r].kind = "approve" /\ seg = Idle
      /\ seg' = [op |-> "run", id |-> r] /\ run[r] \in RunType
  BY DEF ApprovedReturns, Turn, IsExecute, Inv, TypeOK, RunType, RunOK, Shaped
<1>2. a \in Apr /\ approval[a] # "absent" /\ gate[a] \in Step
  BY <1>1 DEF Inv, RunOK, Shaped, GateOK
<1>3. UNCHANGED <<wi, approval, resume, intent, progress, stepres, idem, requested,
                  current, flag, dispatch, boot, gate, used, calls, spent>>
  BY DEF ApprovedReturns, store
<1>4. passed' = passed \/ passed' = passed \union {gate[a]}
  BY DEF ApprovedReturns
<1>5. ASSUME NEW rec \in RunType, run' = [run EXCEPT ![r] = rec],
             rec.kind = "approve", rec.apr = a,
             \/ rec.at \in {"return", "drop"}
             \/ rec.at = "idem" /\ rec.step = gate[a] /\ gate[a] \in passed'
      PROVE  Inv'
  <2>1. Becomes(r, rec)
    BY <1>5, BecomesFacts DEF Inv
  <2>2. TypeOK'
    BY <1>1, <1>2, <1>3, <1>4, <2>1, SegFacts DEF Inv, TypeOK, Becomes
  <2>3. \A q \in Run : q # r => run'[q] = run[q] /\ run[q].at \notin Exclusive
    BY <1>1, <2>1, Alone DEF Becomes
  <2>4. Shaped(run[r])' /\ Truthful(run[r])' /\ run'[r].at \notin Exclusive
    BY <1>2, <1>3, <1>5, <2>1 DEF Becomes, Shaped, Truthful, ExecuteAts, ApproveAts,
                                  Recording, Exclusive, Sending
  <2>5. QED
    BY <1>3, <1>4, <2>2, <2>3, <2>4, DoneStep
<1>6. ASSUME NEW at \in {"return", "drop"}, run' = [run EXCEPT ![r].at = at]
      PROVE  Inv'
  <2> DEFINE rec == [run[r] EXCEPT !.at = at]
  <2>1. rec \in RunType /\ rec.at = at /\ rec.kind = "approve" /\ rec.apr = a
    BY <1>1 DEF RunType, Ats, Handling
  <2>2. QED
    BY <1>5, <1>6, <2>1
<1>7. CASE /\ run' = [run EXCEPT ![r].at = "idem", ![r].step = Resumed(a) - 1]
           /\ Resumed(a) # 0 /\ passed' = passed \union {gate[a]}
  <2> DEFINE rec == [run[r] EXCEPT !.at = "idem", !.step = Resumed(a) - 1]
  <2>1. Resumed(a) > 0
    <3>1. resume[a] \in Nat /\ intent[a].from \in Nat
      BY <1>2, PlanApprovalAssumption DEF Inv, TypeOK
    <3>2. QED
      BY <1>7, <3>1 DEF Resumed
  <2>2. Resumed(a) - 1 = gate[a] /\ gate[a] \in 0..Steps
    BY <1>2, <2>1, ResumedFacts, PlanApprovalAssumption DEF Step
  <2>3. /\ rec \in RunType /\ rec.at = "idem" /\ rec.step = gate[a]
        /\ rec.kind = "approve" /\ rec.apr = a
    BY <1>1, <2>2 DEF RunType, Ats, Handling
  <2>4. run' = [run EXCEPT ![r] = rec]
    BY <1>7 DEF Inv, TypeOK
  <2>5. gate[a] \in passed'
    BY <1>7
  <2>6. QED
    BY <1>5, <2>3, <2>4, <2>5
<1>8. CASE run' = [run EXCEPT ![r].at = "return"] \/ run' = [run EXCEPT ![r].at = "drop"]
  BY <1>6, <1>8
<1>9. CASE Resumed(a) = 0
  BY <1>8, <1>9 DEF ApprovedReturns
<1>10. CASE Resumed(a) # 0
  BY <1>7, <1>8, <1>10 DEF ApprovedReturns
<1>11. QED
  BY <1>9, <1>10

\* What an approve handler knows while it records and sends on.
LEMMA RecordingFacts ==
    ASSUME Inv, NEW r \in Run, run[r].at \in {"intent", "take", "emit", "confirm"}
    PROVE  /\ run[r].kind = "approve" /\ run[r].apr \in Apr
           /\ approval[run[r].apr] # "absent"
           /\ run[r].step \in Step /\ run[r].step \in passed
           /\ run[r].step = gate[run[r].apr] /\ run[r].step + 1 \in 0..Steps
<1>1. /\ run[r].kind = "approve" /\ run[r].apr \in Apr
      /\ approval[run[r].apr] # "absent"
      /\ run[r].step \in Step /\ run[r].step \in passed
      /\ run[r].step = gate[run[r].apr]
  BY DEF Inv, RunOK, Shaped, Truthful, ApproveAts, Recording
<1>2. QED
  BY <1>1, PlanApprovalAssumption DEF Step

LEMMA SaveIntentStep ==
    ASSUME Inv, NEW r \in Run, SaveIntent(r)
    PROVE  Inv'
<1> DEFINE a == run[r].apr
<1>1. run[r].at = "intent" /\ Mine(r) /\ seg' = seg
  BY DEF SaveIntent, Go, Mine
<1>2. Moves(r, "take")
  BY MovesFacts DEF SaveIntent, Go, Inv, Ats, Handling
<1>3. /\ UNCHANGED <<wi, approval, resume, progress, stepres, idem, requested, current,
                     flag, dispatch, seg, boot, gate, used, calls, passed, spent>>
      /\ intent' = [intent EXCEPT ![a] = [from |-> run[r].step + 1, sent |-> FALSE]]
  BY <1>1 DEF SaveIntent, history
<1>4. TypeOK'
  BY <1>1, <1>2, <1>3, RecordingFacts DEF Inv, TypeOK, Moves
<1>5. RunOK'
  <2>1. Shaped(run[r])' /\ Truthful(run[r])'
    BY <1>1, <1>2, <1>3, RecordingFacts DEF Moves, Shaped, Truthful, ExecuteAts,
                                            ApproveAts, Recording
  <2>2. QED
    BY <1>2, <1>3, <2>1, OthersKept DEF Moves
<1>6. GateOK' /\ RowsOK'
  BY <1>1, <1>3, RecordingFacts DEF Inv, TypeOK, GateOK, RowsOK
<1>7. PaidOK'
  BY <1>2, <1>3 DEF Inv, PaidOK, Moves, Mine
<1>8. OnceOK'
  BY <1>1, <1>2, <1>3 DEF Inv, OnceOK, Moves, Mine, Sending
<1>9. QED
  BY <1>4, <1>5, <1>6, <1>7, <1>8 DEF Inv

LEMMA TakeResumeStep ==
    ASSUME Inv, NEW r \in Run, TakeResume(r)
    PROVE  Inv'
<1> DEFINE a == run[r].apr
<1>1. run[r].at \in {"take", "drop"} /\ Mine(r) /\ seg' = seg
  BY DEF TakeResume, Go, Mine
<1>2. /\ UNCHANGED <<wi, approval, intent, progress, stepres, idem, requested, current,
                     flag, dispatch, seg, boot, gate, used, calls, passed, spent>>
      /\ resume' = [resume EXCEPT ![a] = 0]
  BY <1>1 DEF TakeResume, history
<1>3. PICK at \in {"emit", "dropped"} :
          Moves(r, at) /\ (at = "emit" <=> run[r].at = "take")
  <2>1. CASE run[r].at = "take"
    <3>1. run' = [run EXCEPT ![r].at = "emit"]
      BY <2>1 DEF TakeResume, Go
    <3>2. QED
      BY <2>1, <3>1, MovesFacts DEF Inv, Ats, Handling
  <2>2. CASE run[r].at = "drop"
    <3>1. run' = [run EXCEPT ![r].at = "dropped"]
      BY <2>2 DEF TakeResume, Go
    <3>2. QED
      BY <2>2, <3>1, MovesFacts DEF Inv, Ats, Handling
  <2>3. QED
    BY <1>1, <2>1, <2>2
<1>4. TypeOK'
  BY <1>2, <1>3, Zeros DEF Inv, TypeOK, Moves
<1>5. RunOK'
  <2>1. Shaped(run[r]) /\ Truthful(run[r])
    BY DEF Inv, RunOK
  <2>2. Shaped(run[r])' /\ Truthful(run[r])'
    BY <1>1, <1>2, <1>3, <2>1 DEF Moves, Shaped, Truthful, ExecuteAts, ApproveAts, Recording
  <2>3. QED
    BY <1>2, <1>3, <2>2, OthersKept DEF Moves
<1>6. GateOK' /\ RowsOK'
  BY <1>2 DEF Inv, TypeOK, GateOK, RowsOK
<1>7. PaidOK'
  BY <1>2, <1>3 DEF Inv, PaidOK, Moves, Mine
<1>8. OnceOK'
  BY <1>1, <1>2, <1>3 DEF Inv, OnceOK, Moves, Mine, Sending
<1>9. QED
  BY <1>4, <1>5, <1>6, <1>7, <1>8 DEF Inv

LEMMA EmitResumeStep ==
    ASSUME Inv, NEW r \in Run, NEW n \in Run, EmitResume(r, n)
    PROVE  Inv'
<1> DEFINE a == run[r].apr
           rec == NewRun("execute", run[r].step + 1, 0, "", run[r].corr)
           old == [run[r] EXCEPT !.at = "confirm"]
<1>1. /\ run[r].at = "emit" /\ Mine(r) /\ run[r] \in RunType /\ run[n].at = "none"
      /\ n # r /\ requested[a] = 0 /\ n \in 0..MaxRuns
  <2>1. run[r].at = "emit" /\ Mine(r) /\ run[n].at = "none"
    BY DEF EmitResume, NextRun
  <2>2. requested[a] = 0
    BY <2>1 DEF Inv, OnceOK, Sending
  <2>3. run[r] \in RunType
    BY DEF Inv, TypeOK
  <2>4. n \in 0..MaxRuns
    BY DEF Run
  <2>5. n # r
    BY <2>1
  <2>6. QED
    BY <2>1, <2>2, <2>3, <2>4, <2>5
<1>2. rec \in RunType /\ rec.at = "emitted" /\ rec.kind = "execute"
  <2>1. "emitted" \in Ats /\ "" \in Outs
    BY DEF Ats, Outs
  <2>2. run[r].step + 1 \in 0..Steps /\ run[r].corr \in 0..MaxRuns
    BY <1>1, RecordingFacts DEF RunType
  <2>3. QED
    BY <2>1, <2>2, Zeros DEF NewRun, RunType
<1>3. /\ old \in RunType /\ old.at = "confirm" /\ old.kind = run[r].kind /\ old.apr = a
      /\ old.step = run[r].step
  BY <1>1 DEF RunType, Ats, Handling
<1>4. /\ run' \in [Run -> RunType] /\ run'[r] = old /\ run'[n] = rec
      /\ \A q \in Run : q # r /\ q # n => run'[q] = run[q]
  <2>1. run' = [[run EXCEPT ![r] = old] EXCEPT ![n] = rec]
    BY <1>1 DEF EmitResume, Inv, TypeOK
  <2>2. QED
    BY <1>1, <1>2, <1>3, <2>1 DEF Inv, TypeOK
<1>5. /\ UNCHANGED <<wi, approval, resume, intent, progress, stepres, idem, flag, dispatch,
                     seg, boot, gate, used, calls, passed, spent>>
      /\ requested' = [requested EXCEPT ![a] = @ + 1] /\ current' = n
  BY DEF EmitResume, history
<1>6. /\ run[r].kind = "approve" /\ a \in Apr /\ approval[a] # "absent"
      /\ run[r].step \in Step /\ run[r].step \in passed /\ run[r].step = gate[a]
  BY <1>1, RecordingFacts
<1>7. TypeOK'
  <2>1. requested' \in [Apr -> Nat]
    BY <1>5, <1>6 DEF Inv, TypeOK
  <2>2. QED
    BY <1>1, <1>4, <1>5, <2>1 DEF Inv, TypeOK
<1>8. RunOK'
  <2>1. Shaped(run[r])' /\ Truthful(run[r])'
    BY <1>3, <1>4, <1>5, <1>6 DEF Shaped, Truthful, ExecuteAts, ApproveAts, Recording
  <2>2. Shaped(run[n])' /\ Truthful(run[n])'
    BY <1>2, <1>4 DEF Shaped, Truthful, ExecuteAts, ApproveAts, Recording
  <2>3. ASSUME NEW q \in Run, q # r, q # n
        PROVE  Shaped(run[q])' /\ Truthful(run[q])'
    <3>1. Shaped(run[q]) /\ Truthful(run[q]) /\ run'[q] = run[q]
      BY <1>4, <2>3 DEF Inv, RunOK
    <3>2. QED
      BY <1>5, <3>1 DEF Shaped, Truthful
  <2>4. QED
    BY <2>1, <2>2, <2>3 DEF RunOK
<1>9. GateOK' /\ RowsOK'
  BY <1>5 DEF Inv, GateOK, RowsOK
<1>10. \A q \in Run : q # r => run[q].at \notin Exclusive
  BY <1>1, Alone
<1>11. PaidOK'
  BY <1>2, <1>3, <1>4, <1>5, <1>10 DEF Inv, PaidOK, Exclusive
<1>12. OnceOK'
  <2>1. \A b \in Apr : requested'[b] \in {0, 1}
    BY <1>1, <1>5 DEF Inv, TypeOK, OnceOK
  <2>2. QED
    BY <1>2, <1>3, <1>4, <1>10, <2>1 DEF OnceOK, Exclusive, Sending
<1>13. QED
  BY <1>7, <1>8, <1>9, <1>11, <1>12 DEF Inv

LEMMA ConfirmIntentStep ==
    ASSUME Inv, NEW r \in Run, ConfirmIntent(r)
    PROVE  Inv'
<1> DEFINE a == run[r].apr
<1>1. run[r].at = "confirm" /\ Mine(r) /\ seg' = seg
  BY DEF ConfirmIntent, Go, Mine
<1>2. Moves(r, "return")
  BY MovesFacts DEF ConfirmIntent, Go, Inv, Ats, Handling
<1>3. /\ UNCHANGED <<wi, approval, resume, progress, stepres, idem, requested, current,
                     flag, dispatch, seg, boot, gate, used, calls, passed, spent>>
      /\ intent' = [intent EXCEPT ![a] = [from |-> run[r].step + 1, sent |-> TRUE]]
  BY <1>1 DEF ConfirmIntent, history
<1>4. TypeOK'
  BY <1>1, <1>2, <1>3, RecordingFacts DEF Inv, TypeOK, Moves
<1>5. RunOK'
  <2>1. Shaped(run[r])' /\ Truthful(run[r])'
    BY <1>1, <1>2, <1>3, RecordingFacts DEF Moves, Shaped, Truthful, ExecuteAts,
                                            ApproveAts, Recording
  <2>2. QED
    BY <1>2, <1>3, <2>1, OthersKept DEF Moves
<1>6. GateOK' /\ RowsOK'
  BY <1>1, <1>3, RecordingFacts DEF Inv, TypeOK, GateOK, RowsOK
<1>7. PaidOK'
  BY <1>2, <1>3 DEF Inv, PaidOK, Moves, Mine
<1>8. OnceOK'
  BY <1>1, <1>2, <1>3 DEF Inv, OnceOK, Moves, Mine, Sending
<1>9. QED
  BY <1>4, <1>5, <1>6, <1>7, <1>8 DEF Inv

LEMMA DropIntentStep ==
    ASSUME Inv, NEW r \in Run, DropIntent(r)
    PROVE  Inv'
<1> DEFINE a == run[r].apr
<1>1. run[r].at = "dropped" /\ Mine(r) /\ seg' = seg
  BY DEF DropIntent, Go, Mine
<1>2. PICK at \in {"deny", "return"} : Moves(r, at)
  <2>1. PICK at \in {"deny", "return"} : run' = [run EXCEPT ![r].at = at]
    BY DEF DropIntent, Go
  <2>2. at \in Ats
    BY DEF Ats, Handling
  <2>3. QED
    BY <2>1, <2>2, MovesFacts DEF Inv
<1>3. /\ UNCHANGED <<wi, approval, resume, progress, stepres, idem, requested, current,
                     flag, dispatch, seg, boot, gate, used, calls, passed, spent>>
      /\ intent' = [intent EXCEPT ![a] = NoIntent]
  BY <1>1 DEF DropIntent, history
<1>4. TypeOK'
  BY <1>2, <1>3, Zeros DEF Inv, TypeOK, Moves, NoIntent
<1>5. RunOK'
  <2>1. Shaped(run[r]) /\ Truthful(run[r])
    BY DEF Inv, RunOK
  <2>2. Shaped(run[r])' /\ Truthful(run[r])'
    BY <1>1, <1>2, <1>3, <2>1 DEF Moves, Shaped, Truthful, ExecuteAts, ApproveAts, Recording
  <2>3. QED
    BY <1>2, <1>3, <2>2, OthersKept DEF Moves
<1>6. GateOK' /\ RowsOK'
  BY <1>3 DEF Inv, TypeOK, GateOK, RowsOK, NoIntent
<1>7. PaidOK'
  BY <1>2, <1>3 DEF Inv, PaidOK, Moves, Mine
<1>8. OnceOK'
  BY <1>1, <1>2, <1>3 DEF Inv, OnceOK, Moves, Mine, Sending
<1>9. QED
  BY <1>4, <1>5, <1>6, <1>7, <1>8 DEF Inv

\* The projector keeps a resolved approval and resolves a pending one.
LEMMA DeniedFacts ==
    ASSUME Inv, NEW a \in Apr, NEW status \in {"denied", "expired"}, Denied(a, status)
    PROVE  /\ approval' \in [Apr -> {"absent", "pending", "approved", "denied", "expired"}]
           /\ \A b \in Apr : /\ (approval'[b] = "absent") = (approval[b] = "absent")
                             /\ (approval'[b] = "approved") = (approval[b] = "approved")
BY DEF Inv, TypeOK, Denied

LEMMA DenyStep ==
    ASSUME Inv, NEW r \in Run, Deny(r)
    PROVE  Inv'
<1> DEFINE a == run[r].apr
<1>1. run[r].at = "deny" /\ Mine(r) /\ seg' = seg /\ run[r].kind = "approve" /\ a \in Apr
  BY DEF Deny, Go, Mine, Inv, RunOK, Shaped, ApproveAts
<1>2. Moves(r, "return")
  BY MovesFacts DEF Deny, Go, Inv, Ats, Handling
<1>3. UNCHANGED <<wi, resume, intent, progress, stepres, idem, requested, current, flag,
                  dispatch, seg, boot, gate, used, calls, passed, spent>>
  BY <1>1 DEF Deny, history
<1>4. /\ approval' \in [Apr -> {"absent", "pending", "approved", "denied", "expired"}]
      /\ \A b \in Apr : /\ (approval'[b] = "absent") = (approval[b] = "absent")
                        /\ (approval'[b] = "approved") = (approval[b] = "approved")
  BY <1>1, DeniedFacts DEF Deny
<1>5. TypeOK'
  BY <1>2, <1>3, <1>4 DEF Inv, TypeOK, Moves
<1>6. RunOK'
  <2>1. ASSUME NEW q \in Run
        PROVE  Shaped(run[q])' /\ Truthful(run[q])'
    <3>1. Shaped(run[q]) /\ Truthful(run[q])
      BY DEF Inv, RunOK
    <3>2. CASE q = r
      BY <1>1, <1>2, <1>4, <3>1, <3>2 DEF Moves, Shaped, Truthful, ExecuteAts,
                                          ApproveAts, Recording
    <3>3. CASE q # r
      <4>1. run'[q] = run[q]
        BY <1>2, <3>3 DEF Moves
      <4>2. Shaped(run[q])'
        BY <1>4, <3>1, <4>1 DEF Shaped
      <4>3. Truthful(run[q])'
        BY <1>3, <3>1, <4>1 DEF Truthful
      <4>4. QED
        BY <4>2, <4>3
    <3>4. QED
      BY <3>2, <3>3
  <2>2. QED
    BY <2>1 DEF RunOK
<1>7. GateOK' /\ RowsOK'
  BY <1>3, <1>4 DEF Inv, GateOK, RowsOK
<1>8. \A q \in Run : q # r => run'[q] = run[q] /\ run[q].at \notin Exclusive
  BY <1>1, <1>2, Alone DEF Moves
<1>9. PaidOK'
  BY <1>2, <1>3, <1>4, <1>8 DEF Inv, PaidOK, Moves, Exclusive
<1>10. OnceOK'
  BY <1>2, <1>3, <1>8 DEF Inv, OnceOK, Moves, Exclusive, Sending
<1>11. QED
  BY <1>5, <1>6, <1>7, <1>9, <1>10 DEF Inv
----------------------------------------------------------------------------
(* Timeouts, the expiry sweep, cancellation, death and restart.            *)

\* A handler that is tried again starts from the queue with what its event
\* said, and a dead-lettered one is over.
LEMMA AgainFacts ==
    ASSUME NEW rec \in RunType
    PROVE  /\ Again(rec) \in RunType /\ Again(rec).at \in {"queued", "failed"}
           /\ Again(rec).kind = rec.kind
           /\ rec.kind # "execute" => Again(rec).apr = rec.apr
<1>1. CASE rec.retry < MaxRetries
  <2> DEFINE apr == IF rec.kind = "execute" THEN 0 ELSE rec.apr
             new == [kind |-> rec.kind, at |-> "queued", from |-> rec.from, step |-> 0,
                     apr |-> apr, decision |-> rec.decision, out |-> "",
                     said |-> rec.said, retry |-> rec.retry + 1, corr |-> rec.corr]
  <2>1. Again(rec) = new
    BY <1>1 DEF Again, Restart, RunType
  <2>2. rec.retry + 1 \in 0..MaxRetries
    <3>1. rec.retry \in 0..MaxRetries
      BY DEF RunType
    <3>2. QED
      BY <1>1, <3>1, PlanApprovalAssumption
  <2>3. apr \in 0..MaxApr /\ "queued" \in Ats /\ "" \in Outs
    BY Zeros DEF RunType, Ats, Outs
  <2>4. new \in RunType
    BY <2>2, <2>3, Zeros DEF RunType
  <2>5. new.at = "queued" /\ new.kind = rec.kind /\ new.apr = apr
    OBVIOUS
  <2>6. rec.kind # "execute" => apr = rec.apr
    OBVIOUS
  <2> HIDE DEF new, apr
  <2>7. QED
    BY <2>1, <2>4, <2>5, <2>6
<1>2. CASE ~(rec.retry < MaxRetries)
  <2>1. "failed" \in Ats
    BY DEF Ats, Ended
  <2>2. Again(rec) = [rec EXCEPT !.at = "failed"]
    BY <1>2 DEF Again
  <2>3. QED
    BY <2>1, <2>2 DEF RunType
<1>3. QED
  BY <1>1, <1>2

\* Neither point is one at which a run has to know anything.
LEMMA AgainShaped ==
    ASSUME Inv, NEW r \in Run, run[r].at # "none"
    PROVE  /\ Shaped(Again(run[r])) /\ Truthful(Again(run[r]))
           /\ Again(run[r]).at \notin Exclusive
<1>1. run[r] \in RunType /\ Shaped(run[r])
  BY DEF Inv, TypeOK, RunOK
<1>2. /\ Again(run[r]).at \in {"queued", "failed"} /\ Again(run[r]).kind = run[r].kind
      /\ run[r].kind # "execute" => Again(run[r]).apr = run[r].apr
  BY <1>1, AgainFacts
<1>3. QED
  BY <1>1, <1>2 DEF Shaped, Truthful, ExecuteAts, ApproveAts, Recording, Exclusive, Sending

LEMMA HandlerTimesOutStep ==
    ASSUME Inv, NEW r \in Run, HandlerTimesOut(r)
    PROVE  Inv'
<1> DEFINE rec == Again(run[r])
<1>1. run[r].at \in {"tool", "lock"} /\ seg = Idle /\ run[r] \in RunType
  BY DEF HandlerTimesOut, Turn, Inv, TypeOK
<1>2. Becomes(r, rec)
  <2>1. run' = [run EXCEPT ![r] = rec]
    BY DEF HandlerTimesOut, Inv, TypeOK
  <2>2. rec \in RunType
    BY <1>1, AgainFacts
  <2>3. QED
    BY <2>1, <2>2, BecomesFacts DEF Inv
<1>3. /\ UNCHANGED <<Rows, progress, current, flag, dispatch, seg, boot, calls>>
      /\ wi' \in {wi, "failed"}
  BY DEF HandlerTimesOut, store, history, Rows
<1>4. TypeOK'
  <2>1. spent' \in [Costs -> Nat]
    BY SpendFacts DEF HandlerTimesOut, Inv, Costs
  <2>2. QED
    BY <1>2, <1>3, <2>1 DEF Inv, TypeOK, Rows, Becomes
<1>5. \A q \in Run : q # r => run'[q] = run[q] /\ run[q].at \notin Exclusive
  BY <1>1, <1>2, Alone DEF Becomes
<1>6. Shaped(run'[r]) /\ Truthful(run'[r]) /\ run'[r].at \notin Exclusive
  BY <1>1, <1>2, AgainShaped DEF Becomes
<1>7. QED
  BY <1>3, <1>4, <1>5, <1>6, QuietStep

LEMMA ExpireStep ==
    ASSUME Inv, NEW a \in Apr, Expire(a)
    PROVE  Inv'
<1>1. seg = Idle /\ seg' = [op |-> "expire", id |-> a] /\ resume' = [resume EXCEPT ![a] = 0]
  BY DEF Expire, Turn
<1>2. UNCHANGED <<wi, approval, intent, progress, stepres, idem, requested, run, current,
                  flag, dispatch, boot, gate, used, calls, passed, spent>>
  BY DEF Expire, history
<1>3. TypeOK'
  BY <1>1, <1>2, SegFacts, Zeros DEF Inv, TypeOK
<1>4. RunOK'
  BY <1>2 DEF Inv, RunOK, Shaped, Truthful
<1>5. GateOK' /\ RowsOK'
  BY <1>1, <1>2 DEF Inv, TypeOK, GateOK, RowsOK
<1>6. \A q \in Run : run[q].at \notin Exclusive
  BY <1>1, Alone DEF Mine, Idle
<1>7. PaidOK' /\ OnceOK'
  BY <1>2, <1>6 DEF Inv, PaidOK, OnceOK, Exclusive
<1>8. QED
  BY <1>3, <1>4, <1>5, <1>7 DEF Inv

LEMMA ExpireDeniesStep ==
    ASSUME Inv, ExpireDenies
    PROVE  Inv'
<1>1. seg.op = "expire" /\ seg' = Idle
  BY DEF ExpireDenies
<1>2. UNCHANGED <<wi, resume, intent, progress, stepres, idem, requested, run, current,
                  flag, dispatch, boot, gate, used, calls, passed, spent>>
  BY DEF ExpireDenies, history
<1>3. /\ approval' \in [Apr -> {"absent", "pending", "approved", "denied", "expired"}]
      /\ \A b \in Apr : /\ (approval'[b] = "absent") = (approval[b] = "absent")
                        /\ (approval'[b] = "approved") = (approval[b] = "approved")
  BY DEF ExpireDenies, Denied, Inv, TypeOK
<1>4. TypeOK'
  BY <1>1, <1>2, <1>3, SegFacts DEF Inv, TypeOK
<1>5. RunOK'
  BY <1>2, <1>3 DEF Inv, RunOK, Shaped, Truthful
<1>6. GateOK' /\ RowsOK'
  BY <1>2, <1>3 DEF Inv, GateOK, RowsOK
<1>7. \A q \in Run : run[q].at \notin Exclusive
  BY <1>1, Alone DEF Mine
<1>8. PaidOK' /\ OnceOK'
  BY <1>2, <1>3, <1>7 DEF Inv, PaidOK, OnceOK, Exclusive
<1>9. QED
  BY <1>4, <1>5, <1>6, <1>8 DEF Inv

LEMMA CancelRunStep ==
    ASSUME Inv, NEW r \in Run, CancelRun(r)
    PROVE  Inv'
<1>1. seg.op = "cancel" /\ run[r].at \in {"queued", "tool"} /\ run[r].kind = "execute"
  BY DEF CancelRun, Tracked, IsExecute
<1>2. Moves(r, "cancelled")
  BY MovesFacts DEF CancelRun, Inv, Ats, Ended
<1>3. UNCHANGED <<wi, Rows, progress, current, flag, dispatch, seg, boot, calls, spent>>
  BY DEF CancelRun, store, history, Rows
<1>4. TypeOK'
  BY <1>2, <1>3 DEF Inv, TypeOK, Rows, Moves
<1>5. \A q \in Run : q # r => run'[q] = run[q] /\ run[q].at \notin Exclusive
  BY <1>1, <1>2, Alone DEF Moves
<1>6. Shaped(run'[r]) /\ Truthful(run'[r]) /\ run'[r].at \notin Exclusive
  BY <1>1, <1>2 DEF Moves, Shaped, Truthful, ExecuteAts, ApproveAts, Recording,
                    Exclusive, Sending
<1>7. QED
  BY <1>3, <1>4, <1>5, <1>6, QuietStep

LEMMA CancelClearsStep ==
    ASSUME Inv, CancelClears
    PROVE  Inv'
<1>1. /\ seg.op = "cancel" /\ seg' = [op |-> "status", id |-> 0]
      /\ resume' = [a \in Apr |-> 0] /\ intent' = [a \in Apr |-> NoIntent]
      /\ progress' = 0 /\ stepres' = {} /\ idem' = {}
  BY DEF CancelClears
<1>2. UNCHANGED <<wi, approval, requested, run, current, flag, dispatch, boot, gate,
                  used, calls, passed, spent>>
  BY DEF CancelClears, history
<1>3. TypeOK'
  BY <1>1, <1>2, SegFacts, Zeros DEF Inv, TypeOK, NoIntent
<1>4. RunOK'
  BY <1>2 DEF Inv, RunOK, Shaped, Truthful
<1>5. GateOK' /\ RowsOK'
  BY <1>1, <1>2 DEF Inv, GateOK, RowsOK, NoIntent
<1>6. \A q \in Run : run[q].at \notin Exclusive
  BY <1>1, Alone DEF Mine
<1>7. PaidOK' /\ OnceOK'
  BY <1>2, <1>6 DEF Inv, PaidOK, OnceOK, Exclusive
<1>8. QED
  BY <1>3, <1>4, <1>5, <1>7 DEF Inv

LEMMA CancelStampsStep ==
    ASSUME Inv, CancelStamps
    PROVE  Inv'
<1>1. seg.op = "status" /\ seg' = Idle /\ wi' = "cancelled"
  BY DEF CancelStamps
<1>2. UNCHANGED <<Rows, run, progress, current, flag, dispatch, boot, calls, spent>>
  BY DEF CancelStamps, store, history, Rows
<1>3. TypeOK'
  BY <1>1, <1>2, SegFacts DEF Inv, TypeOK, Rows
<1>4. \A q \in Run : run[q].at \notin Exclusive
  BY <1>1, Alone DEF Mine
<1>5. QED
  BY <1>2, <1>3, <1>4, StillStep

LEMMA CrashStep ==
    ASSUME Inv, Crash
    PROVE  Inv'
<1>1. /\ run' = [r \in Run |-> Interrupted(run[r])] /\ flag' = FALSE /\ boot' = TRUE
      /\ dispatch' = [st |-> "idle", run |-> 0] /\ seg' = Idle
      /\ UNCHANGED <<wi, Rows, progress, current, calls>>
  BY DEF Crash, store, history, Rows
<1>2. ASSUME NEW r \in Run
      PROVE  /\ run'[r] \in RunType
             /\ Shaped(run'[r]) /\ Truthful(run'[r]) /\ run'[r].at \notin Exclusive
  <2>1. run'[r] = Interrupted(run[r]) /\ run[r] \in RunType
    BY <1>1 DEF Inv, TypeOK
  <2>2. Shaped(run[r]) /\ Truthful(run[r])
    BY DEF Inv, RunOK
  <2>3. CASE run[r].at = "emitted"
    <3>1. run'[r] = [run[r] EXCEPT !.at = "lost"]
      BY <2>1, <2>3 DEF Interrupted, Handling
    <3>2. "lost" \in Ats
      BY DEF Ats, Ended
    <3>3. /\ run'[r] \in RunType /\ run'[r].at = "lost" /\ run'[r].kind = run[r].kind
          /\ run'[r].apr = run[r].apr
      BY <2>1, <3>1, <3>2 DEF RunType
    <3>4. QED
      BY <2>2, <2>3, <3>3 DEF Shaped, Truthful, ExecuteAts, ApproveAts, Recording,
                              Exclusive, Sending
  <2>4. CASE run[r].at \in Handling
    <3>1. run'[r] = Again(run[r]) /\ run[r].at # "none"
      BY <2>1, <2>4 DEF Interrupted, Handling
    <3>2. QED
      BY <2>1, <3>1, AgainFacts, AgainShaped
  <2>5. CASE run[r].at # "emitted" /\ run[r].at \notin Handling
    <3>1. run'[r] = run[r]
      BY <2>1, <2>5 DEF Interrupted
    <3>2. run[r].at \notin Exclusive
      BY <2>5 DEF Handling, Exclusive, Sending
    <3>3. QED
      BY <2>1, <2>2, <3>1, <3>2
  <2>6. QED
    BY <2>3, <2>4, <2>5
<1>3. TypeOK'
  <2>1. spent' \in [Costs -> Nat]
    BY SpendFacts DEF Crash, Inv, Costs
  <2>2. run' \in [Run -> RunType]
    BY <1>1, <1>2
  <2>3. dispatch' \in [st : {"idle", "claimed", "waiting", "error"}, run : 0..MaxRuns]
    BY <1>1, Zeros
  <2>4. QED
    BY <1>1, <2>1, <2>2, <2>3, SegFacts DEF Inv, TypeOK, Rows
<1>4. RunOK'
  BY <1>1, <1>2 DEF RunOK, Shaped, Truthful, Rows
<1>5. GateOK' /\ RowsOK'
  BY <1>1 DEF Inv, GateOK, RowsOK, Rows
<1>6. PaidOK' /\ OnceOK'
  BY <1>1, <1>2 DEF Inv, PaidOK, OnceOK, Exclusive, Rows
<1>7. QED
  BY <1>3, <1>4, <1>5, <1>6 DEF Inv
----------------------------------------------------------------------------
(* The invariant.                                                          *)

LEMMA InitInv == Init => Inv
<1> SUFFICES ASSUME Init PROVE Inv
  OBVIOUS
<1>1. NoRun \in RunType /\ NoRun.at = "none"
  <2>1. "none" \in Ats /\ "" \in Outs
    BY DEF Ats, Outs
  <2>2. QED
    BY <2>1, Zeros DEF NoRun, RunType
<1>2. TypeOK
  <2>1. Steps \in Step \union {Steps}
    OBVIOUS
  <2>2. NoIntent \in [from : 0..Steps, sent : BOOLEAN]
    BY Zeros DEF NoIntent
  <2>3. [st |-> "idle", run |-> 0] \in
            [st : {"idle", "claimed", "waiting", "error"}, run : 0..MaxRuns]
    BY Zeros
  <2>4. QED
    BY <1>1, <2>1, <2>2, <2>3, Zeros, SegFacts DEF Init, TypeOK
<1>3. RunOK
  <2>1. ASSUME NEW r \in Run
        PROVE  run[r].at = "none" /\ run[r].kind = "none"
    BY DEF Init, NoRun
  <2>2. QED
    BY <2>1 DEF RunOK, Shaped, Truthful, ExecuteAts, ApproveAts, Recording
<1>4. GateOK /\ RowsOK
  BY DEF Init, GateOK, RowsOK, NoIntent
<1>5. PaidOK /\ OnceOK
  BY DEF Init, PaidOK, OnceOK, NoRun, Sending
<1>6. QED
  BY <1>2, <1>3, <1>4, <1>5 DEF Inv

LEMMA RunStepInv ==
    ASSUME Inv, NEW r \in Run, RunStep(r)
    PROVE  Inv'
<1>1. CASE Enqueue(r) \/ RecordIdem(r) \/ RecordStep(r) \/ Return(r)
  BY <1>1, EnqueueStep, RecordIdemStep, RecordStepStep, ReturnStep
<1>2. CASE ExecuteStep(r)
  <2>1. CASE BeginExecute(r) \/ PlanOver(r) \/ SkipStep(r) \/ CallStep(r)
    BY <2>1, BeginExecuteStep, PlanOverStep, SkipStepStep, CallStepStep
  <2>2. CASE \E a \in Apr : RequestApproval(r, a)
    BY <2>2, RequestApprovalStep
  <2>3. CASE Register(r) \/ PassPending(r) \/ StepReturns(r) \/ Progress(r)
    BY <2>3, RegisterStep, PassPendingStep, StepReturnsStep, ProgressStep
  <2>4. CASE Close(r) \/ Report(r)
    BY <2>4, CloseStep, ReportStep
  <2>5. QED
    BY <1>2, <2>1, <2>2, <2>3, <2>4 DEF ExecuteStep
<1>3. CASE ApproveStep(r)
  <2>1. CASE WaitForLock(r) \/ Acquire(r) \/ CallApproved(r) \/ ApprovedReturns(r)
    BY <2>1, WaitForLockStep, AcquireStep, CallApprovedStep, ApprovedReturnsStep
  <2>2. CASE SaveIntent(r) \/ TakeResume(r) \/ ConfirmIntent(r)
    BY <2>2, SaveIntentStep, TakeResumeStep, ConfirmIntentStep
  <2>3. CASE \E q \in Run : EmitResume(r, q)
    BY <2>3, EmitResumeStep
  <2>4. CASE DropIntent(r) \/ Deny(r)
    BY <2>4, DropIntentStep, DenyStep
  <2>5. QED
    BY <1>3, <2>1, <2>2, <2>3, <2>4 DEF ApproveStep
<1>4. QED
  BY <1>1, <1>2, <1>3 DEF RunStep

LEMMA NextInv == Inv /\ [Next]_vars => Inv'
<1> SUFFICES ASSUME Inv, [Next]_vars PROVE Inv'
  OBVIOUS
<1>1. CASE \E r \in Run : RunStep(r)
  BY <1>1, RunStepInv
<1>2. CASE Callback
  <2>1. ASSUME NEW r \in Run, RequestExecute(r) \/ DispatchSubmit(r) \/ CancelRun(r)
        PROVE  Inv'
    BY <2>1, RequestExecuteStep, DispatchSubmitStep, CancelRunStep
  <2>2. CASE ExpireDenies \/ CancelClears \/ CancelStamps \/ RecoverWork
    BY <2>2, ExpireDeniesStep, CancelClearsStep, CancelStampsStep, RecoverWorkStep
  <2>3. QED
    BY <1>2, <2>1, <2>2 DEF Callback
<1>3. CASE Environment
  <2>1. CASE Execute \/ DispatchClaim \/ DispatchFails \/ Cancel
    BY <2>1, StillActions
  <2>2. ASSUME NEW r \in Run, NEW a \in Apr,
               Decide(r, a, "approve") \/ Decide(r, a, "deny")
        PROVE  Inv'
    BY <2>2, DecideStep
  <2>3. ASSUME NEW r \in Run, HandlerTimesOut(r)
        PROVE  Inv'
    BY <2>3, HandlerTimesOutStep
  <2>4. ASSUME NEW a \in Apr, Expire(a)
        PROVE  Inv'
    BY <2>4, ExpireStep
  <2>5. CASE Crash
    BY <2>5, CrashStep
  <2>6. QED
    BY <1>3, <2>1, <2>2, <2>3, <2>4, <2>5 DEF Environment
<1>4. CASE UNCHANGED vars
  BY <1>4 DEF vars, store, history, Inv, TypeOK, RunOK, Shaped, Truthful, GateOK, RowsOK,
              PaidOK, OnceOK, Mine
<1>5. QED
  BY <1>1, <1>2, <1>3, <1>4 DEF Next

LEMMA InvCorrect == Spec => []Inv
BY InitInv, NextInv, PTL DEF Spec
----------------------------------------------------------------------------
(* What follows from it.                                                   *)

\* Every row, run and callback of the approval protocol always has the shape
\* the next step of its handler reads.
THEOREM TypeCorrect == Spec => []TypeOK
<1>1. Inv => TypeOK
  BY DEF Inv
<1>2. QED
  BY <1>1, InvCorrect, PTL

\* However often a user approves, the handler times out or the process dies, at
\* most one ExecuteRequested is logged on behalf of an approval: the intent row,
\* the log and the lock together make the resume dispatch idempotent.
THEOREM OnceCorrect == Spec => []ResumeOnce
<1>1. Inv => ResumeOnce
  BY DEF Inv, OnceOK, ResumeOnce
<1>2. QED
  BY <1>1, InvCorrect, PTL

\* A step result is on file only when the tool of that step succeeded, so what
\* the plan runner skips on a replay was really done.
THEOREM RecordedCorrect == Spec => []RecordedIsTrue
<1>1. Inv => RecordedIsTrue
  BY DEF Inv, RowsOK, RecordedIsTrue
<1>2. QED
  BY <1>1, InvCorrect, PTL

\* The resume row and the dispatch intent of an approval lead to the step right
\* after the one it gates: no approval jumps over another gate.
THEOREM AfterGateCorrect == Spec => []ResumesAfterGate
<1>1. Inv => ResumesAfterGate
  BY DEF Inv, RowsOK, ResumesAfterGate, Resumed
<1>2. QED
  BY <1>1, InvCorrect, PTL
----------------------------------------------------------------------------
(* The protocol keeps the promise of Approval.                             *)

LEMMA InitPromise == Init => Promise!Init
BY DEF Init, Promise!Init

\* Most steps do not touch an approval.
LEMMA RunStepPromise ==
    ASSUME Inv, NEW r \in Run, RunStep(r)
    PROVE  Promise!Next \/ UNCHANGED <<approval, used>>
<1>1. CASE \/ Enqueue(r) \/ RecordIdem(r) \/ RecordStep(r) \/ Return(r)
           \/ BeginExecute(r) \/ PlanOver(r) \/ SkipStep(r) \/ CallStep(r)
           \/ Register(r) \/ PassPending(r) \/ StepReturns(r) \/ Progress(r)
           \/ Close(r) \/ Report(r)
  BY <1>1 DEF Enqueue, RecordIdem, RecordStep, Return, BeginExecute, PlanOver, SkipStep,
              CallStep, Register, PassPending, StepReturns, Progress, Close, Report,
              store, history
<1>2. CASE \/ WaitForLock(r) \/ ApprovedReturns(r) \/ SaveIntent(r) \/ TakeResume(r)
           \/ ConfirmIntent(r) \/ DropIntent(r) \/ \E q \in Run : EmitResume(r, q)
  BY <1>2 DEF WaitForLock, ApprovedReturns, SaveIntent, TakeResume, ConfirmIntent,
              DropIntent, EmitResume, store, history
<1>3. ASSUME NEW a \in Apr, RequestApproval(r, a)
      PROVE  Promise!Next
  <2>1. Promise!Request(a)
    BY <1>3 DEF RequestApproval, NextApr, Promise!Request
  <2>2. QED
    BY <2>1 DEF Promise!Next
<1>4. CASE Acquire(r)
  <2> DEFINE a == run[r].apr
  <2>1. a \in Apr
    <3>1. run[r].at = "lock"
      BY <1>4 DEF Acquire
    <3>2. QED
      BY <3>1 DEF Inv, RunOK, Shaped, ApproveAts
  <2>2. used' = used
    BY <1>4 DEF Acquire, history
  <2>3. CASE approval[a] = "pending" /\ approval' = [approval EXCEPT ![a] = "approved"]
    <3>1. Promise!Resolve(a, "approved")
      BY <2>2, <2>3 DEF Promise!Resolve
    <3>2. QED
      BY <2>1, <3>1 DEF Promise!Next, Promise!Resolutions
  <2>4. QED
    BY <1>4, <2>2, <2>3 DEF Acquire, Consumable
<1>5. CASE CallApproved(r)
  <2> DEFINE a == run[r].apr
  <2>1. a \in Apr /\ approval[a] = "approved" /\ used[a] = 0
    <3>1. run[r].at = "call"
      BY <1>5 DEF CallApproved
    <3>2. QED
      BY <3>1 DEF Inv, RunOK, Shaped, ApproveAts, PaidOK
  <2>2. used' = [used EXCEPT ![a] = 1] /\ UNCHANGED approval
    BY <1>5, <2>1 DEF CallApproved, store
  <2>3. Promise!Use(a)
    BY <2>1, <2>2 DEF Promise!Use
  <2>4. QED
    BY <2>1, <2>3 DEF Promise!Next
<1>6. CASE Deny(r)
  <2> DEFINE a == run[r].apr
  <2>1. a \in Apr /\ Denied(a, "denied") /\ used' = used
    <3>1. run[r].at = "deny"
      BY <1>6 DEF Deny
    <3>2. QED
      BY <1>6, <3>1 DEF Deny, history, Inv, RunOK, Shaped, ApproveAts
  <2>2. CASE approval[a] = "pending"
    <3>1. Promise!Resolve(a, "denied")
      BY <2>1, <2>2 DEF Denied, Promise!Resolve
    <3>2. QED
      BY <2>1, <3>1 DEF Promise!Next, Promise!Resolutions
  <2>3. CASE approval[a] # "pending"
    BY <2>1, <2>3 DEF Denied, Inv, TypeOK
  <2>4. QED
    BY <2>2, <2>3
<1>7. QED
  BY <1>1, <1>2, <1>3, <1>4, <1>5, <1>6 DEF RunStep, ExecuteStep, ApproveStep

LEMMA StepPromise == Inv /\ [Next]_vars => [Promise!Next]_(Promise!vars)
<1> SUFFICES ASSUME Inv, [Next]_vars
             PROVE  Promise!Next \/ UNCHANGED <<approval, used>>
  BY DEF Promise!vars
<1>1. CASE \E r \in Run : RunStep(r)
  BY <1>1, RunStepPromise
<1>2. CASE ExpireDenies
  <2>1. Denied(seg.id, "expired") /\ used' = used
    BY <1>2 DEF ExpireDenies, history
  <2>2. CASE seg.id \in Apr /\ approval[seg.id] = "pending"
    <3>1. Promise!Resolve(seg.id, "expired")
      BY <2>1, <2>2 DEF Denied, Promise!Resolve
    <3>2. QED
      BY <2>2, <3>1 DEF Promise!Next, Promise!Resolutions
  <2>3. CASE ~(seg.id \in Apr /\ approval[seg.id] = "pending")
    BY <2>1, <2>3 DEF Denied, Inv, TypeOK
  <2>4. QED
    BY <2>2, <2>3
<1>3. CASE Callback /\ ~ExpireDenies
  BY <1>3 DEF Callback, RequestExecute, DispatchSubmit, CancelRun, CancelClears,
              CancelStamps, RecoverWork, store, history
<1>4. CASE Environment
  BY <1>4 DEF Environment, Execute, DispatchClaim, DispatchFails, Decide,
              HandlerTimesOut, Expire, Cancel, Crash, store, history
<1>5. CASE UNCHANGED vars
  BY <1>5 DEF vars, store, history
<1>6. QED
  BY <1>1, <1>2, <1>3, <1>4, <1>5 DEF Next

\* The handlers, the API and the sweep implement what governance promises: an
\* approval is requested, resolved once and for good, and its tool is called at
\* most once and only after the grant, wherever the process dies in between.
THEOREM PromiseKept == Spec => ApprovalPromise
BY InitPromise, StepPromise, InvCorrect, PTL DEF Spec, ApprovalPromise, Promise!Spec
----------------------------------------------------------------------------
(***************************************************************************)
(* A cancelled item stays cancelled, through any number of deaths, as long *)
(* as no background dispatch outlives its timeout and a failed one is told *)
(* so before the next request of a user.                                   *)
(***************************************************************************)

\* Where a handler is between two of its awaits, and where an execute handler
\* is that has seen no cancel.
Within  == Handling \ {"lock", "tool"}
Working == {"step", "register", "pass", "idem", "stepres", "progress"}

\* A handler between two awaits has the loop to itself; one that saw no cancel
\* meets none before it closes the item; and what it is about to report is what
\* it wrote.
Steady(r) ==
    /\ run[r].at \in Within => Mine(r)
    /\ run[r].at \in Working /\ IsExecute(r) => wi # "cancelled"
    /\ run[r].at = "close" => (run[r].out = "cancelled" <=> wi = "cancelled")
    /\ run[r].at = "report" => wi = StatusOf(run[r].out)

\* The flag is up only for an item that is, or is being, cancelled, and no
\* failed dispatch is waiting to be told so by then.  A process that boots has
\* no callback, dispatch or flag yet.
Flagged ==
    /\ flag => wi = "cancelled" \/ seg.op \in {"cancel", "status"}
    /\ dispatch.st = "error" => wi # "cancelled" /\ seg.op \notin {"cancel", "status"}
    /\ boot => seg = Idle /\ dispatch.st = "idle" /\ ~flag

CancelInv == Flagged /\ \A r \in Run : Steady(r)

\* Next to a handler that has the loop, or is given it, no other is within.
LEMMA OthersWait ==
    ASSUME CancelInv, NEW r \in Run, seg = Idle \/ Mine(r) \/ seg.op # "run"
    PROVE  \A q \in Run : q # r => run[q].at \notin Within
BY DEF CancelInv, Steady, Mine, Idle

LEMMA NobodyWithin ==
    ASSUME CancelInv, seg.op # "run"
    PROVE  \A q \in Run : run[q].at \notin Within
BY DEF CancelInv, Steady, Mine

LEMMA OneSteady ==
    ASSUME Flagged', NEW r \in Run, Steady(r)',
           \A q \in Run : q # r => run'[q].at \notin Within
    PROVE  CancelInv'
BY DEF CancelInv, Steady, Within, Working, Handling

LEMMA AllSteady ==
    ASSUME Flagged', \A q \in Run : run'[q].at \notin Within
    PROVE  CancelInv'
BY DEF CancelInv, Steady, Within, Working, Handling

\* A handler that moves on, to a step of its own or not, keeps its kind.
LEMMA KindKept ==
    ASSUME run \in [Run -> RunType], NEW r \in Run, NEW at, NEW i,
           \/ run' = [run EXCEPT ![r].at = at]
           \/ run' = [run EXCEPT ![r].at = at, ![r].step = i]
    PROVE  run'[r].kind = run[r].kind
<1>1. run[r] \in RunType
  OBVIOUS
<1>2. CASE run' = [run EXCEPT ![r].at = at]
  BY <1>1, <1>2 DEF RunType
<1>3. CASE run' = [run EXCEPT ![r].at = at, ![r].step = i]
  BY <1>1, <1>3 DEF RunType
<1> QED BY <1>2, <1>3

LEMMA InitCancel == Init => CancelInv
<1> SUFFICES ASSUME Init PROVE CancelInv
  OBVIOUS
<1>1. \A r \in Run : run[r].at = "none"
  BY DEF Init, NoRun
<1> QED BY <1>1 DEF Init, CancelInv, Flagged, Steady, Within, Working, Handling, Idle

LEMMA ExecuteStepCancel ==
    ASSUME Inv, CancelInv, NEW r \in Run, ExecuteStep(r)
    PROVE  CancelInv'
<1>1. run \in [Run -> RunType] /\ run[r] \in RunType /\ wi # "" /\ Steady(r) /\ Flagged
  BY DEF Inv, TypeOK, CancelInv
<1>2. \A q \in Run : q # r => run'[q] = run[q]
  BY <1>1 DEF ExecuteStep, BeginExecute, PlanOver, SkipStep, CallStep, RequestApproval,
              Register, PassPending, StepReturns, Progress, Close, Report, Go
<1>3. seg = Idle \/ Mine(r)
  BY DEF ExecuteStep, BeginExecute, PlanOver, SkipStep, CallStep, RequestApproval,
         Register, PassPending, StepReturns, Progress, Close, Report, Turn
<1>4. \A q \in Run : q # r => run'[q].at \notin Within
  BY <1>2, <1>3, OthersWait
<1>5. Flagged' /\ Steady(r)'
  <2>1. CASE BeginExecute(r)
    <3>1. CASE CancelCheck
      <4>1. wi = "cancelled" /\ UNCHANGED <<wi, dispatch, boot>> /\ ~flag'
            /\ seg' = [op |-> "run", id |-> r]
            /\ ~boot
        BY <1>1, <2>1, <3>1 DEF BeginExecute, CancelSeen, CancelCheck, Flagged, Turn, Idle
      <4>2. run'[r].at = "report" /\ run'[r].out = "cancelled"
        BY <1>1, <2>1, <3>1 DEF BeginExecute, CancelSeen, RunType
      <4> QED BY <1>1, <4>1, <4>2 DEF Flagged, Steady, Mine, Idle, Working, StatusOf
    <3>2. CASE ~CancelCheck
      <4>1. wi' = "running" /\ UNCHANGED <<dispatch, boot>> /\ ~flag' /\ ~boot
            /\ seg' = [op |-> "run", id |-> r]
        BY <1>1, <2>1, <3>2 DEF BeginExecute, CancelSeen, CancelCheck, Turn
      <4>2. run'[r].at = "step"
        BY <1>1, <2>1, <3>2 DEF BeginExecute, CancelSeen, RunType
      <4> QED BY <1>1, <4>1, <4>2 DEF Flagged, Steady, Mine
    <3> QED BY <3>1, <3>2
  <2>2. CASE PlanOver(r)
    BY <1>1, <2>2 DEF PlanOver, Flagged, Steady, Mine, Idle, Working, RunType, IsExecute, Inv,
                      RunOK, Shaped, ExecuteAts
  <2>3. CASE SkipStep(r)
    BY <1>1, <2>3 DEF SkipStep, Flagged, Steady, Mine, Idle, Working, RunType, IsExecute
  <2>4. CASE CallStep(r)
    BY <1>1, <2>4 DEF CallStep, Flagged, Steady, Mine, Idle, Within, Working, RunType
  <2>5. ASSUME NEW a \in Apr, RequestApproval(r, a) PROVE Flagged' /\ Steady(r)'
    BY <1>1, <2>5 DEF RequestApproval, Flagged, Steady, Mine, Idle, Working, RunType, IsExecute
  <2>6. CASE Register(r)
    BY <1>1, <2>6 DEF Register, Go, Flagged, Steady, Mine, Idle, Working, RunType, IsExecute
  <2>7. CASE PassPending(r)
    BY <1>1, <2>7 DEF PassPending, Flagged, Steady, Mine, Idle, Working, RunType, IsExecute, Inv,
                      RunOK, Shaped, ExecuteAts
  <2>8. CASE StepReturns(r)
    <3>1. UNCHANGED <<wi, flag, dispatch, boot>> /\ seg' = [op |-> "run", id |-> r]
          /\ seg = Idle /\ ~boot
      BY <2>8 DEF StepReturns, Turn
    <3>2. CancelCheck <=> wi = "cancelled"
      BY <1>1, <3>1 DEF CancelCheck, Flagged, Idle
    <3>3. \/ run'[r].at = "close" /\ (run'[r].out = "cancelled" <=> CancelCheck)
          \/ run'[r].at = "idem" /\ ~CancelCheck
      <4>1. CASE CancelCheck
        <5>1. run' = [run EXCEPT ![r].at = "close", ![r].out = "cancelled"]
          BY <2>8, <4>1 DEF StepReturns
        <5> QED BY <1>1, <4>1, <5>1 DEF RunType
      <4>2. CASE ~CancelCheck
        <5>1. \/ run' = [run EXCEPT ![r].at = "close", ![r].out = "failed"]
              \/ run' = [run EXCEPT ![r].at = "idem"]
          BY <2>8, <4>2 DEF StepReturns
        <5> QED BY <1>1, <4>2, <5>1 DEF RunType
      <4> QED BY <4>1, <4>2
    <3> QED BY <1>1, <3>1, <3>2, <3>3 DEF Flagged, Steady, Mine, Idle, Working, Idle
  <2>9. CASE Progress(r)
    BY <1>1, <2>9 DEF Progress, Flagged, Steady, Mine, Idle, Working, RunType, IsExecute
  <2>10. CASE Close(r)
    BY <1>1, <2>10 DEF Close, Go, Flagged, Steady, Mine, Idle, Working, RunType, IsExecute,
                       StatusOf, Outs, Inv, RunOK, Shaped
  <2>11. CASE Report(r)
    BY <1>1, <2>11 DEF Report, Flagged, Steady, Mine, Idle, Working, RunType, IsExecute, StatusOf,
                       Inv, TypeOK
  <2> QED BY <2>1, <2>2, <2>3, <2>4, <2>5, <2>6, <2>7, <2>8, <2>9, <2>10, <2>11
          DEF ExecuteStep
<1> QED BY <1>4, <1>5, OneSteady

LEMMA ApproveStepCancel ==
    ASSUME Inv, CancelInv, NEW r \in Run,
           ApproveStep(r) \/ Enqueue(r) \/ RecordIdem(r) \/ RecordStep(r) \/ Return(r)
    PROVE  CancelInv'
<1>1. run \in [Run -> RunType] /\ run[r] \in RunType /\ Steady(r) /\ Flagged
  BY DEF Inv, TypeOK, CancelInv
<1>2. ASSUME NEW q \in Run, EmitResume(r, q) PROVE CancelInv'
  <2>1. Mine(r) /\ run[r].at = "emit" /\ run[q].at = "none" /\ UNCHANGED <<wi, flag, seg, dispatch, boot>>
    BY <1>2 DEF EmitResume, NextRun
  <2>2. PICK rec : rec.at = "emitted"
                   /\ run' = [run EXCEPT ![r].at = "confirm", ![q] = rec]
    BY <1>2 DEF EmitResume, NewRun
  <2>3. run'[r].at = "confirm" /\ run'[q].at = "emitted" /\ \A p \in Run \ {r, q} : run'[p] = run[p]
    BY <1>1, <2>1, <2>2 DEF RunType
  <2>4. \A p \in Run : p # r => run'[p].at \notin Within
    BY <2>1, <2>3, OthersWait DEF Within, Handling
  <2>5. Flagged' /\ Steady(r)'
    BY <1>1, <2>1, <2>3 DEF Flagged, Steady, Mine, Working
  <2> QED BY <2>4, <2>5, OneSteady
<1>3. ASSUME \A q \in Run : ~EmitResume(r, q) PROVE CancelInv'
  <2>1. \A q \in Run : q # r => run'[q] = run[q]
    BY <1>1, <1>3 DEF ApproveStep, Enqueue, RecordIdem, RecordStep, Return, WaitForLock, Acquire,
                CallApproved, ApprovedReturns, SaveIntent, TakeResume, ConfirmIntent,
                DropIntent, Deny, Go
  <2>2. seg = Idle \/ Mine(r)
    BY <1>3 DEF ApproveStep, Enqueue, RecordIdem, RecordStep, Return, WaitForLock, Acquire,
                CallApproved, ApprovedReturns, SaveIntent, TakeResume, ConfirmIntent,
                DropIntent, Deny, Turn
  <2>3. \A q \in Run : q # r => run'[q].at \notin Within
    BY <2>1, <2>2, OthersWait
  <2>4. UNCHANGED <<wi, flag, dispatch, boot>>
    BY <1>3 DEF ApproveStep, Enqueue, RecordIdem, RecordStep, Return, WaitForLock, Acquire,
                CallApproved, ApprovedReturns, SaveIntent, TakeResume, ConfirmIntent,
                DropIntent, Deny
  <2>5. seg' = [op |-> "run", id |-> r] \/ (seg' = Idle /\ seg.op = "run") \/ seg' = seg
    BY <1>3 DEF ApproveStep, Enqueue, RecordIdem, RecordStep, Return, WaitForLock, Acquire,
                CallApproved, ApprovedReturns, SaveIntent, TakeResume, ConfirmIntent,
                DropIntent, Deny, Mine, Go
  <2>6. Flagged'
    <3>1. ~boot
      BY <1>1, <1>3, <2>2 DEF Flagged, Mine, Idle, ApproveStep, Enqueue, RecordIdem, RecordStep, Return,
             WaitForLock, Acquire, CallApproved, ApprovedReturns, SaveIntent, TakeResume,
             ConfirmIntent, DropIntent, Deny, Turn
    <3> QED BY <1>1, <2>2, <2>4, <2>5, <3>1 DEF Flagged, Mine, Idle
  <2>7. run'[r].kind = run[r].kind
    <3>1. CASE Enqueue(r) \/ RecordIdem(r) \/ RecordStep(r) \/ Return(r)
      <4>1. PICK at : run' = [run EXCEPT ![r].at = at]
        BY <3>1 DEF Enqueue, RecordIdem, RecordStep, Return, Go
      <4> QED BY <1>1, <4>1 DEF RunType
    <3>2. CASE WaitForLock(r) \/ CallApproved(r)
      <4>1. PICK at : run' = [run EXCEPT ![r].at = at]
        BY <3>2 DEF WaitForLock, CallApproved
      <4> QED BY <1>1, <4>1 DEF RunType
    <3>3. CASE Acquire(r)
      <4>1. \/ \E at : run' = [run EXCEPT ![r].at = at]
            \/ \E i : run' = [run EXCEPT ![r].at = "idem", ![r].step = i]
        BY <3>3 DEF Acquire, Go
      <4> QED BY <1>1, <4>1, KindKept
    <3>4. CASE ApprovedReturns(r)
      <4>1. \/ \E at : run' = [run EXCEPT ![r].at = at]
            \/ \E i : run' = [run EXCEPT ![r].at = "idem", ![r].step = i]
        BY <3>4 DEF ApprovedReturns
      <4> QED BY <1>1, <4>1, KindKept
    <3>5. CASE SaveIntent(r) \/ TakeResume(r) \/ ConfirmIntent(r) \/ DropIntent(r) \/ Deny(r)
      <4>1. PICK at : Go(r, at)
        BY <3>5 DEF SaveIntent, TakeResume, ConfirmIntent, DropIntent, Deny
      <4> QED BY <1>1, <4>1 DEF Go, RunType
    <3> QED BY <1>3, <3>1, <3>2, <3>3, <3>4, <3>5 DEF ApproveStep
  <2>8. \/ run'[r].at \notin Within
        \/ /\ Mine(r)' /\ run'[r].at \notin {"close", "report"}
           /\ run'[r].at \in Working => ~IsExecute(r) \/ run[r].at \in Working
    <3>1. CASE Enqueue(r) \/ WaitForLock(r) \/ Return(r) \/ CallApproved(r)
      <4>1. PICK at \in {"queued", "lock", "done", "tool"} : run' = [run EXCEPT ![r].at = at]
        BY <3>1 DEF Enqueue, WaitForLock, Return, CallApproved
      <4>2. run'[r].at = at
        BY <1>1, <4>1 DEF RunType
      <4> QED BY <4>2 DEF Within, Handling
    <3>2. CASE RecordIdem(r)
      BY <1>1, <3>2 DEF RecordIdem, Go, Mine, Working
    <3>3. CASE RecordStep(r)
      BY <1>1, <3>3 DEF RecordStep, Go, Mine, Working
    <3>4. CASE Acquire(r)
      <4>1. run[r].at = "lock" /\ ~IsExecute(r)
        BY <1>1, <3>4 DEF Acquire, IsExecute, Inv, RunOK, Shaped, ApproveAts
      <4>2. seg' = [op |-> "run", id |-> r] /\ run'[r].at \in {"drop", "idem", "call"}
        <5>1. seg' = [op |-> "run", id |-> r]
          BY <3>4 DEF Acquire, Go
        <5>2. \/ \E at \in {"drop", "call"} : run' = [run EXCEPT ![r].at = at]
              \/ \E i : run' = [run EXCEPT ![r].at = "idem", ![r].step = i]
          BY <3>4 DEF Acquire, Go
        <5> QED BY <1>1, <5>1, <5>2 DEF RunType
      <4> QED BY <4>1, <4>2 DEF Mine, Working
    <3>5. CASE ApprovedReturns(r)
      <4>1. ~IsExecute(r) /\ seg' = [op |-> "run", id |-> r]
        BY <3>5 DEF ApprovedReturns
      <4>2. run'[r].at \in {"return", "idem", "drop"}
        BY <1>1, <3>5 DEF ApprovedReturns, RunType
      <4> QED BY <4>1, <4>2 DEF Mine, Working
    <3>6. CASE SaveIntent(r) \/ TakeResume(r) \/ ConfirmIntent(r) \/ DropIntent(r) \/ Deny(r)
      <4>1. PICK at \in {"take", "emit", "dropped", "return", "deny"} : Go(r, at)
        BY <3>6 DEF SaveIntent, TakeResume, ConfirmIntent, DropIntent, Deny
      <4>2. run'[r].at = at /\ Mine(r)'
        BY <1>1, <4>1 DEF Go, Mine, RunType
      <4> QED BY <4>2 DEF Working
    <3> QED BY <1>3, <3>1, <3>2, <3>3, <3>4, <3>5, <3>6 DEF ApproveStep
  <2>9. Steady(r)'
    BY <1>1, <2>4, <2>7, <2>8 DEF Steady, Within, Working, Handling, IsExecute
  <2> QED BY <2>3, <2>6, <2>9, OneSteady
<1> QED BY <1>2, <1>3
LEMMA CallbackCancel ==
    ASSUME Inv, CancelInv, Callback
    PROVE  CancelInv'
<1>1. run \in [Run -> RunType] /\ Flagged
  BY DEF Inv, TypeOK, CancelInv
<1>3. ASSUME NEW r \in Run, RequestExecute(r) \/ DispatchSubmit(r) \/ CancelRun(r)
      PROVE  CancelInv'
  <2>1. \A q \in Run : run'[q] = run[q] \/ run'[q].at \in {"emitted", "cancelled"}
    <3>1. CASE RequestExecute(r)
      BY <1>1, <3>1 DEF RequestExecute, NewRun
    <3>2. CASE DispatchSubmit(r)
      BY <1>1, <3>2 DEF DispatchSubmit, NewRun
    <3>3. CASE CancelRun(r)
      BY <1>1, <3>3 DEF CancelRun, RunType
    <3> QED BY <1>3, <3>1, <3>2, <3>3
  <2>2. seg.op # "run" /\ ~boot
    <3>1. CASE RequestExecute(r)
      <4>1. seg.op = "request"
        BY <3>1 DEF RequestExecute
      <4> QED BY <1>1, <4>1 DEF Flagged, Idle
    <3>2. CASE DispatchSubmit(r)
      BY <3>2 DEF DispatchSubmit, Turn, Idle
    <3>3. CASE CancelRun(r)
      BY <1>1, <3>3 DEF CancelRun, Flagged, Idle
    <3> QED BY <1>3, <3>1, <3>2, <3>3
  <2>3. \A q \in Run : run'[q].at \notin Within
    BY <1>1, <2>1, <2>2, NobodyWithin DEF Within, Handling
  <2>4. Flagged'
    <3>1. CASE RequestExecute(r)
      BY <1>1, <2>2, <3>1 DEF RequestExecute, Flagged, Idle
    <3>2. CASE DispatchSubmit(r)
      BY <1>1, <2>2, <3>2 DEF DispatchSubmit, Flagged, Turn, Idle
    <3>3. CASE CancelRun(r)
      BY <1>1, <2>2, <3>3 DEF CancelRun, Flagged
    <3> QED BY <1>3, <3>1, <3>2, <3>3
  <2> QED BY <2>3, <2>4, AllSteady
<1>4. CASE ExpireDenies \/ CancelClears \/ CancelStamps
  <2>1. seg.op # "run" /\ run' = run
    BY <1>4 DEF ExpireDenies, CancelClears, CancelStamps
  <2>2. Flagged'
    BY <1>1, <1>4 DEF ExpireDenies, CancelClears, CancelStamps, Flagged, Idle
  <2> QED BY <2>1, <2>2, NobodyWithin, AllSteady
<1>5. CASE RecoverWork
  <2>1. seg = Idle /\ seg' = seg /\ run' = run
    BY <1>1, <1>5 DEF RecoverWork, Flagged
  <2>2. Flagged'
    BY <1>1, <1>5 DEF RecoverWork, Flagged
  <2>3. \A q \in Run : run'[q].at \notin Within
    BY <2>1, NobodyWithin DEF Idle
  <2> QED BY <2>2, <2>3, AllSteady
<1> QED BY <1>3, <1>4, <1>5 DEF Callback

LEMMA EnvironmentCancel ==
    ASSUME Inv, CancelInv, MaxStale = 0, PromptLoop, Environment
    PROVE  CancelInv'
<1>1. run \in [Run -> RunType] /\ Flagged
  BY DEF Inv, TypeOK, CancelInv
<1>2. CASE Crash
  <2>1. \A q \in Run : run'[q].at \notin Within
    <3> SUFFICES ASSUME NEW q \in Run PROVE Interrupted(run[q]).at \notin Within
      BY <1>2 DEF Crash
    <3>1. run[q] \in RunType
      BY <1>1
    <3>2. CASE run[q].at = "emitted"
      BY <3>1, <3>2 DEF Interrupted, RunType, Within, Handling
    <3>3. CASE run[q].at \in Handling
      BY <3>1, <3>3, AgainFacts DEF Interrupted, Within, Handling
    <3>4. CASE run[q].at \notin Handling \union {"emitted"}
      BY <3>1, <3>4 DEF Interrupted, Within
    <3> QED BY <3>2, <3>3, <3>4
  <2>2. Flagged'
    BY <1>2 DEF Crash, Flagged, Idle
  <2> QED BY <2>1, <2>2, AllSteady
<1>3. CASE Execute \/ DispatchClaim \/ Cancel \/ DispatchFails
  <2>1. seg = Idle /\ run' = run
    BY <1>3 DEF Execute, DispatchClaim, Cancel, DispatchFails, UserTurn, Turn
  <2>2. spent["stale"] \in Nat
    BY DEF Inv, TypeOK, Costs
  <2>3. Flagged'
    BY <1>1, <1>3, <2>2 DEF Execute, DispatchClaim, Cancel, DispatchFails, UserTurn, Turn, Flagged,
                          Idle
  <2>4. \A q \in Run : run'[q].at \notin Within
    BY <2>1, NobodyWithin DEF Idle
  <2> QED BY <2>3, <2>4, AllSteady
<1>4. ASSUME NEW r \in Run, NEW a \in Apr, Decide(r, a, "approve") \/ Decide(r, a, "deny")
      PROVE  CancelInv'
  <2>1. seg = Idle /\ ~boot /\ UNCHANGED <<wi, flag, dispatch, seg, boot>>
    BY <1>4 DEF Decide, UserTurn, Turn
  <2>2. PICK rec : rec.at = "emitted" /\ run' = [run EXCEPT ![r] = rec]
    BY <1>4 DEF Decide, NewRun
  <2>3. \A q \in Run : run'[q].at \notin Within
    BY <1>1, <2>1, <2>2, NobodyWithin DEF Idle, Within, Handling
  <2>4. Flagged'
    BY <1>1, <2>1 DEF Flagged
  <2> QED BY <2>3, <2>4, AllSteady
<1>5. ASSUME NEW r \in Run, HandlerTimesOut(r) PROVE CancelInv'
  <2>1. seg = Idle /\ ~boot /\ UNCHANGED <<flag, dispatch, seg, boot>>
        /\ (wi' = wi \/ (wi = "running" /\ wi' = "failed"))
    BY <1>5 DEF HandlerTimesOut, Turn
  <2>2. run' = [run EXCEPT ![r] = Again(run[r])] /\ run[r] \in RunType
    BY <1>1, <1>5 DEF HandlerTimesOut
  <2>3. \A q \in Run : run'[q].at \notin Within
    BY <1>1, <2>1, <2>2, AgainFacts, NobodyWithin DEF Idle, Within, Handling
  <2>4. Flagged'
    BY <1>1, <2>1 DEF Flagged, Idle
  <2> QED BY <2>3, <2>4, AllSteady
<1>6. ASSUME NEW a \in Apr, Expire(a) PROVE CancelInv'
  <2>1. seg = Idle /\ ~boot /\ UNCHANGED <<wi, flag, dispatch, run, boot>> /\ seg'.op = "expire"
    BY <1>6 DEF Expire, Turn
  <2>2. \A q \in Run : run'[q].at \notin Within
    BY <2>1, NobodyWithin DEF Idle
  <2>3. Flagged'
    BY <1>1, <2>1 DEF Flagged, Idle
  <2> QED BY <2>2, <2>3, AllSteady
<1> QED BY <1>2, <1>3, <1>4, <1>5, <1>6 DEF Environment

LEMMA StutterCancel ==
    ASSUME CancelInv, UNCHANGED <<wi, run, flag, dispatch, seg, boot>>
    PROVE  CancelInv'
<1>1. Flagged'
  BY DEF CancelInv, Flagged
<1>2. ASSUME NEW r \in Run PROVE Steady(r)'
  <2>1. Steady(r)
    BY DEF CancelInv
  <2> QED BY <2>1 DEF Steady, Mine, IsExecute
<1> QED BY <1>1, <1>2 DEF CancelInv

LEMMA NextCancel ==
    ASSUME Inv, CancelInv, MaxStale = 0, PromptLoop, [Next]_vars
    PROVE  CancelInv'
<1>1. ASSUME NEW r \in Run, RunStep(r) PROVE CancelInv'
  BY <1>1, ExecuteStepCancel, ApproveStepCancel DEF RunStep
<1>2. CASE UNCHANGED vars
  <2>1. UNCHANGED <<wi, run, flag, dispatch, seg, boot>>
    BY <1>2 DEF vars
  <2> QED BY <2>1, StutterCancel
<1> QED BY <1>1, <1>2, CallbackCancel, EnvironmentCancel DEF Next

LEMMA CancelCorrect == ASSUME MaxStale = 0, PromptLoop PROVE Spec => []CancelInv
<1>1. Inv /\ CancelInv /\ [Next]_vars => CancelInv'
  BY NextCancel
<1> QED BY <1>1, InitCancel, InvCorrect, PTL DEF Spec

\* No handler, dispatch, expiry, retry, death or restart takes an item out of
\* the status cancelled, as long as no dispatch outlives its timeout and the
\* loop tells a failed one before it takes the next request.
THEOREM CancelledCorrect == ASSUME MaxStale = 0, PromptLoop PROVE Spec => CancelledIsFinal
<1>1. ASSUME Inv, CancelInv, [Next]_vars, wi = "cancelled"
      PROVE  wi' = "cancelled"
  <2>1. Flagged /\ \A r \in Run : Steady(r)
    BY <1>1 DEF CancelInv
  <2>2. ASSUME NEW r \in Run, RunStep(r) PROVE wi' = "cancelled"
    <3>1. CASE BeginExecute(r)
      BY <1>1, <3>1 DEF BeginExecute, CancelSeen, CancelCheck
    <3>2. CASE Close(r)
      BY <1>1, <2>1, <3>2 DEF Close, Steady, StatusOf
    <3> QED BY <1>1, <2>2, <3>1, <3>2 DEF RunStep, ExecuteStep, ApproveStep, Enqueue, RecordIdem,
             RecordStep, Return, PlanOver, SkipStep, CallStep, RequestApproval, Register,
             PassPending, StepReturns, Progress, Report, WaitForLock, Acquire, CallApproved,
             ApprovedReturns, SaveIntent, TakeResume, EmitResume, ConfirmIntent, DropIntent, Deny
  <2>3. CASE Callback
    BY <1>1, <2>3 DEF Callback, RequestExecute, DispatchSubmit, CancelRun, ExpireDenies,
                      CancelClears, CancelStamps, RecoverWork, Recovered
  <2>4. CASE Environment
    <3>1. spent["stale"] \in Nat
      BY <1>1 DEF Inv, TypeOK, Costs
    <3> QED BY <1>1, <2>1, <2>4, <3>1 DEF Environment, Execute, DispatchClaim, DispatchFails, Decide,
                        HandlerTimesOut, Expire, Cancel, Crash, Flagged
  <2> QED BY <1>1, <2>2, <2>3, <2>4 DEF Next, vars
<1> QED BY <1>1, CancelCorrect, InvCorrect, PTL DEF Spec, CancelledIsFinal
----------------------------------------------------------------------------
(***************************************************************************)
(* Without a death of the process, the steps of a plan are taken in order. *)
(* One handler or one approval at a time may still move the plan on, and   *)
(* the status of the item tells whether there is one.                      *)
(***************************************************************************)

\* An execute handler that may still move the plan on, and an approval that may
\* still do so.
Live(r)  == IsExecute(r) /\ run[r].at \in {"emitted", "queued", "tool", "close"} \union Working
Waits(a) == Resumed(a) > 0 /\ requested[a] = 0
Known(r) == IsExecute(r) /\ run[r].at # "none"
Nobody   == (\A r \in Run : ~Live(r)) /\ (\A a \in Apr : ~Waits(a))

\* A handler that leaves the plan to the approval it has asked for.
Stopped(r) == run[r].at = "close" /\ run[r].out = "pending"
Stops(r)   == run[r].at = "pass" \/ Stopped(r)

\* One of them at a time has the plan.
OneHolder ==
    /\ \A r, q \in Run : Live(r) /\ Live(q) => r = q
    /\ \A a, b \in Apr : Waits(a) /\ Waits(b) => a = b
    /\ \A r \in Run, a \in Apr : Live(r) /\ Waits(a) => run[r].apr = a /\ Stops(r)

\* The status of the item, and what is under way, tell whether somebody has it.
Holding ==
    /\ \A r \in Run : Live(r) => current \in {0, r}
    /\ \A r \in Run : current = r => Known(r)
    /\ \A a \in Apr : Waits(a) => wi = "waiting_approval" \/ \E r \in Run : Live(r)
    /\ wi \in {"pending", "failed"} => Nobody /\ dispatch.st # "claimed"
    /\ dispatch.st = "claimed" => Nobody /\ wi \in {"running", "cancelled"} /\ current = 0
    /\ dispatch.st = "error" => Nobody /\ wi = "failed"
    /\ seg.op = "request" => Nobody /\ wi = "running" /\ current = 0
                                    /\ dispatch.st \notin {"claimed", "error"}
    /\ seg.op = "status" => progress = 0
    /\ seg.op = "status" \/ wi = "cancelled" => \A a \in Apr : ~Waits(a)

\* An approve handler that records a step has the approval's row before it, one
\* that confirms the intent has the request behind it, and none closes the item.
Recall(r) ==
    ~IsExecute(r) =>
        /\ run[r].at \in {"idem", "stepres", "intent"} => Resumed(run[r].apr) > 0
        /\ run[r].at \in {"take", "emit"} => intent[run[r].apr].from > 0
        /\ run[r].at = "confirm" => requested[run[r].apr] > 0
        /\ run[r].at # "close"
Recalls ==
    /\ \A a \in Apr : intent[a].sent => requested[a] > 0
    /\ \A r \in Run : Recall(r)

\* All steps before i are done.
Before(i) == \A j \in Step : j < i => j \in passed

\* Whoever has the plan stands behind done steps only.  The progress row alone
\* may be ahead, by the step that waits for its approval.
Behind(r) ==
    Live(r) =>
        /\ Before(run[r].from)
        /\ run[r].at \in Working \union {"tool"} => Before(run[r].step)
        /\ run[r].at = "pass" => run[r].step = gate[run[r].apr]
        /\ run[r].at = "close" /\ run[r].out = "completed" => passed = Step
        /\ Before(progress) \/ Stopped(r)
Gates ==
    \A a \in Apr : /\ approval[a] # "absent" => Before(gate[a])
                   /\ Waits(a) => Before(progress) \/ progress = gate[a] + 1
Ordered ==
    /\ \A r \in Run : Behind(r)
    /\ Gates
    /\ \/ Before(progress)
       \/ wi = "waiting_approval"
       \/ \E r \in Run : Live(r) /\ Stopped(r)
    /\ wi = "completed" => passed = Step

OrderInv == ~boot /\ OneHolder /\ Holding /\ Recalls /\ Ordered
\* The steps of a plan are numbers.
LEMMA BeforeNext ==
    ASSUME NEW i \in 0..Steps, Before(i), i \in passed
    PROVE  Before(i + 1)
BY PlanApprovalAssumption DEF Before, Step

LEMMA BeforeZero == Before(0)
BY PlanApprovalAssumption DEF Before, Step

LEMMA BeforeAll ==
    ASSUME TypeOK, NEW i \in 0..Steps, Before(i), i >= Steps
    PROVE  passed = Step
<1>1. \A j \in Step : j \in passed
  BY PlanApprovalAssumption DEF Before, Step
<1> QED BY <1>1 DEF TypeOK

\* A handler at work on the plan leaves it to no approval but the one it has
\* asked for, and nobody else has it.
LEMMA LiveAlone ==
    ASSUME OneHolder, Holding, NEW r \in Run, Live(r)
    PROVE  /\ \A q \in Run : q # r => ~Live(q)
           /\ \A a \in Apr : Waits(a) => run[r].apr = a /\ Stops(r)
           /\ wi \notin {"pending", "failed"}
           /\ dispatch.st \notin {"claimed", "error"} /\ seg.op # "request"
           /\ current \in {0, r}
<1>1. ~Nobody
  BY DEF Nobody
<1> QED BY <1>1 DEF OneHolder, Holding

\* A step beside the plan: who has it keeps it or gives it up.
LEMMA Beside ==
    ASSUME OrderInv, ~boot', UNCHANGED <<wi, current, dispatch, progress, gate>>,
           passed \subseteq passed', passed' \subseteq Step,
           \A q \in Run : Live(q)' => Live(q) /\ run'[q] = run[q],
           \A q \in Run : Live(q) /\ Stops(q) => Live(q)',
           \A q \in Run : Known(q) => Known(q)',
           \A a \in Apr : Waits(a)' => Waits(a),
           \A a \in Apr : approval'[a] # "absent" => approval[a] # "absent",
           seg'.op # "request", seg'.op = "status" => seg.op = "status",
           Recalls'
    PROVE  OrderInv'
<1>1. OneHolder /\ Holding /\ Ordered
  BY DEF OrderInv
<1>2. Nobody => Nobody'
  BY DEF Nobody
<1>3. \A q \in Run : Live(q)' => (Stops(q)' <=> Stops(q)) /\ (Stopped(q)' <=> Stopped(q))
  BY DEF Stops, Stopped
<1>4. OneHolder'
  BY <1>1, <1>3 DEF OneHolder
<1>5. Holding'
  <2>1. \A a \in Apr : Waits(a)' => wi = "waiting_approval" \/ \E r \in Run : Live(r)'
    BY <1>1 DEF Holding, OneHolder
  <2> QED BY <1>1, <1>2, <2>1 DEF Holding
<1>6. Ordered'
  <2>1. \A i : Before(i) => Before(i)'
    BY DEF Before
  <2>2. Before(progress) => Before(progress)'
    BY DEF Before
  <2>3. ASSUME NEW q \in Run PROVE Behind(q)'
    <3> SUFFICES ASSUME Live(q)' PROVE Behind(q)'
      BY DEF Behind
    <3>1. Live(q) /\ run'[q] = run[q] /\ Behind(q)
      BY <1>1 DEF Ordered
    <3>2. passed = Step => passed' = Step
      OBVIOUS
    <3>3. /\ Before(run[q].from) => Before(run[q].from)'
          /\ Before(run[q].step) => Before(run[q].step)'
      BY <3>1 DEF Before
    <3> QED BY <2>2, <3>1, <3>2, <3>3, <1>3 DEF Behind
  <2>4. Gates'
    <3>1. \A a \in Apr : Before(gate[a]) => Before(gate[a])'
      BY DEF Before
    <3> QED BY <1>1, <2>2, <3>1 DEF Ordered, Gates
  <2>5. \A r \in Run : Live(r) /\ Stopped(r) => Live(r)' /\ Stopped(r)'
    BY <1>3 DEF Stops
  <2> QED BY <1>1, <2>2, <2>3, <2>4, <2>5 DEF Ordered
<1> QED BY <1>4, <1>5, <1>6 DEF OrderInv

\* A step of the one handler that has the plan.
LEMMA Onward ==
    ASSUME OrderInv, ~boot', NEW r \in Run, Live(r), Known(r)',
           \A q \in Run : q # r => run'[q] = run[q],
           \A a \in Apr : Waits(a)' => Live(r)' /\ run'[r].apr = a /\ Stops(r)',
           current' \in {0, r, current}, wi' \in {wi, "running"}, dispatch' = dispatch,
           seg'.op \in {"idle", "run"}, wi' = "cancelled" => \A a \in Apr : ~Waits(a)',
           passed \subseteq passed', passed' \subseteq Step, Recalls', Behind(r)', Gates',
           ~Live(r)' => Before(progress)'
    PROVE  OrderInv'
<1>1. OneHolder /\ Holding /\ Ordered
  BY DEF OrderInv
<1>2. /\ \A q \in Run : q # r => ~Live(q)
      /\ wi \notin {"pending", "failed"} /\ dispatch.st \notin {"claimed", "error"}
      /\ current \in {0, r}
  BY <1>1, LiveAlone
<1>3. \A q \in Run : q # r => ~Live(q)'
  BY <1>2 DEF Live, IsExecute
<1>4. OneHolder'
  BY <1>3 DEF OneHolder
<1>5. Holding'
  <2>1. \A q \in Run : current' = q => Known(q)'
    <3>1. 0 \notin Run
      BY PlanApprovalAssumption DEF Run
    <3> QED BY <1>1, <1>2, <3>1 DEF Holding, Known, IsExecute
  <2>2. \A q \in Run : Live(q)' => current' \in {0, q}
    BY <1>2, <1>3
  <2>3. \A a \in Apr : Waits(a)' => \E q \in Run : Live(q)'
    OBVIOUS
  <2>4. wi' \notin {"pending", "failed"} /\ dispatch'.st \notin {"claimed", "error"}
        /\ seg'.op \notin {"request", "status"}
    BY <1>2
  <2> QED BY <2>1, <2>2, <2>3, <2>4 DEF Holding
<1>6. Ordered'
  <2>1. \A q \in Run : Behind(q)'
    BY <1>3 DEF Behind
  <2>2. Before(progress)' \/ \E q \in Run : Live(q)' /\ Stopped(q)'
    BY DEF Behind
  <2>3. wi' = "completed" => passed' = Step
    BY <1>1 DEF Ordered
  <2> QED BY <2>1, <2>2, <2>3 DEF Ordered
<1> QED BY <1>4, <1>5, <1>6 DEF OrderInv

\* A new handler is given the plan when nobody has it.
LEMMA Handed ==
    ASSUME OrderInv, ~boot', NEW r \in Run, IsExecute(r)', run'[r].at = "emitted",
           \A q \in Run : q # r => ~Live(q)', \A a \in Apr : ~Waits(a)',
           current' = r, wi' \notin {"pending", "failed"},
           dispatch'.st \notin {"claimed", "error"}, seg'.op \in {"idle", "run"},
           wi' = wi, UNCHANGED <<progress, passed>>, Recalls', Gates',
           Before(run'[r].from), Before(progress)
    PROVE  OrderInv'
<1>1. Live(r)'
  BY DEF Live
<1>2. OneHolder'
  BY DEF OneHolder
<1>3. Holding'
  <2>1. \A q \in Run : Live(q)' => q = r
    OBVIOUS
  <2>2. \A q \in Run : current' = q => Known(q)'
    BY DEF Known
  <2>3. seg'.op \notin {"request", "status"} /\ dispatch'.st \notin {"claimed", "error"}
    OBVIOUS
  <2> QED BY <2>1, <2>2, <2>3 DEF Holding
<1>4. Before(progress)' /\ Before(run[r].from)'
  BY DEF Before
<1>5. Behind(r)'
  BY <1>4 DEF Behind, Working
<1>6. \A q \in Run : Behind(q)'
  BY <1>5 DEF Behind
<1>7. Ordered'
  BY <1>4, <1>6 DEF Ordered, OrderInv
<1> QED BY <1>2, <1>3, <1>7 DEF OrderInv
----------------------------------------------------------------------------
(* Steps beside the plan.                                                  *)

LEMMA InitOrder == Init => OrderInv
<1> SUFFICES ASSUME Init PROVE OrderInv
  OBVIOUS
<1>1. \A r \in Run : run[r].at = "none" /\ run[r].kind = "none"
  BY DEF Init, NoRun
<1>2. \A r \in Run : ~Live(r)
  BY <1>1 DEF Live, IsExecute
<1>3. \A a \in Apr : resume[a] = 0 /\ intent[a].from = 0 /\ ~intent[a].sent
                     /\ approval[a] = "absent"
  BY DEF Init, NoIntent
<1>4. \A a \in Apr : ~Waits(a)
  BY <1>3 DEF Waits, Resumed
<1>5. Holding
  BY <1>2, <1>4, PlanApprovalAssumption DEF Init, Holding, Nobody, Idle, Run
<1>6. OneHolder /\ Recalls
  BY <1>1, <1>2, <1>3, <1>4 DEF OneHolder, Recalls, Recall
<1>7. Ordered
  BY <1>2, <1>3, <1>4, BeforeZero DEF Init, Ordered, Behind, Gates
<1> QED BY <1>5, <1>6, <1>7 DEF Init, OrderInv

\* The rows a handler reads are changed by itself or while no other is within.
LEMMA RecallsKept ==
    ASSUME NEW r \in Run, \A q \in Run : q # r => run'[q].at \notin Within,
           Recall(r)', \A a \in Apr : intent'[a].sent => requested'[a] > 0
    PROVE  Recalls'
BY DEF Recalls, Recall, Within, Handling

LEMMA RecallsStill ==
    ASSUME \A q \in Run : run'[q].at \notin Within,
           \A a \in Apr : intent'[a].sent => requested'[a] > 0
    PROVE  Recalls'
BY DEF Recalls, Recall, Within, Handling

\* An approve handler that moves on beside the plan.
LEMMA ApproveBeside ==
    ASSUME Inv, Inv', CancelInv, CancelInv', OrderInv, NEW r \in Run, ~IsExecute(r), ~IsExecute(r)',
           \A q \in Run : q # r => run'[q] = run[q], seg = Idle \/ Mine(r),
           UNCHANGED <<wi, current, dispatch, progress, gate, requested>>,
           passed \subseteq passed', seg'.op \in {"idle", "run"}, ~boot',
           \A a \in Apr : approval'[a] # "absent" => approval[a] # "absent",
           \A a \in Apr : Waits(a)' => Waits(a),
           \A a \in Apr : intent'[a].sent => requested[a] > 0,
           Recall(r)'
    PROVE  OrderInv'
<1>1. \A q \in Run : q # r => run'[q].at \notin Within
  BY OthersWait
<1>3. Recalls'
  BY <1>1, RecallsKept
<1>4. \A q \in Run : (Live(q)' <=> Live(q)) /\ (Live(q) => run'[q] = run[q])
                     /\ (Known(q) => Known(q)')
  BY DEF Live, Known, IsExecute
<1>5. passed' \subseteq Step
  BY DEF Inv, TypeOK
<1> QED BY <1>3, <1>4, <1>5, Beside
\* What an approve handler has at hand.
LEMMA ApproveFacts ==
    ASSUME Inv, OrderInv, NEW r \in Run, ~IsExecute(r), run[r].at # "none"
    PROVE  /\ run \in [Run -> RunType] /\ run[r] \in RunType
           /\ run[r].kind = "approve" /\ run[r].apr \in Apr /\ approval[run[r].apr] # "absent"
           /\ Recall(r) /\ passed \subseteq Step
           /\ \A a \in Apr : intent[a].sent => requested[a] > 0
           /\ \A a \in Apr : resume[a] \in 0..Steps /\ intent[a].from \in 0..Steps
           /\ ~boot
BY DEF Inv, TypeOK, RunOK, Shaped, RunType, IsExecute, OrderInv, Recalls

LEMMA ApproveMoves ==
    ASSUME Inv, Inv', CancelInv, CancelInv', OrderInv, NEW r \in Run, ~IsExecute(r),
           \/ Enqueue(r) \/ WaitForLock(r) \/ Acquire(r) \/ CallApproved(r) \/ ApprovedReturns(r)
           \/ RecordIdem(r) \/ RecordStep(r) \/ Deny(r)
    PROVE  OrderInv'
<1> DEFINE a == run[r].apr
<1>0. run[r].at # "none"
  BY DEF Enqueue, WaitForLock, Acquire, CallApproved, ApprovedReturns, RecordIdem, RecordStep, Deny
<1>1. /\ run \in [Run -> RunType] /\ run[r] \in RunType /\ a \in Apr /\ Recall(r) /\ passed \subseteq Step
      /\ \A b \in Apr : intent[b].sent => requested[b] > 0
      /\ ~boot
  BY <1>0, ApproveFacts
<1>2. /\ UNCHANGED <<wi, current, dispatch, progress, gate, requested, resume, intent, boot>>
      /\ seg = Idle \/ Mine(r)
  BY DEF Enqueue, WaitForLock, Acquire, CallApproved, ApprovedReturns, RecordIdem, RecordStep, Deny,
         store, history, Turn
<1>3. \/ \E at : run' = [run EXCEPT ![r].at = at]
      \/ \E at, i : run' = [run EXCEPT ![r].at = at, ![r].step = i]
  BY DEF Enqueue, WaitForLock, Acquire, CallApproved, ApprovedReturns, RecordIdem, RecordStep, Deny, Go
<1>4. /\ \A q \in Run : q # r => run'[q] = run[q]
      /\ run'[r].kind = run[r].kind /\ run'[r].apr = a
  BY <1>1, <1>3 DEF RunType
<1>5. passed \subseteq passed' /\ seg'.op \in {"idle", "run"}
  BY <1>2 DEF Enqueue, WaitForLock, Acquire, CallApproved, ApprovedReturns, RecordIdem, RecordStep,
         Deny, Go, history, Idle, Mine
<1>6. \A b \in Apr : approval'[b] # "absent" => approval[b] # "absent"
  <2>1. CASE Acquire(r)
    <3>1. approval' = approval \/ (approval[a] = "pending" /\ approval' = [approval EXCEPT ![a] = "approved"])
      BY <2>1 DEF Acquire, Consumable
    <3> QED BY <1>1, <3>1 DEF Inv, TypeOK
  <2>2. CASE Deny(r)
    <3>1. Denied(a, "denied")
      BY <2>2 DEF Deny
    <3> QED BY <1>1, <3>1, DeniedFacts
  <2>3. CASE ~Acquire(r) /\ ~Deny(r)
    <3>1. approval' = approval
      BY <2>3 DEF Enqueue, WaitForLock, CallApproved, ApprovedReturns, RecordIdem, RecordStep, store
    <3> QED BY <3>1
  <2> QED BY <2>1, <2>2, <2>3
<1>7. \A b \in Apr : Waits(b)' => Waits(b)
  BY <1>2 DEF Waits, Resumed
<1>8. ~IsExecute(r)'
  BY <1>4 DEF IsExecute
<1>9. Recall(r)'
  <2>1. Resumed(a)' = Resumed(a) /\ requested' = requested
    BY <1>2, <1>4 DEF Resumed
  <2>2. CASE Enqueue(r) \/ WaitForLock(r) \/ CallApproved(r) \/ Deny(r)
    <3>1. PICK at \in {"queued", "lock", "tool", "return"} : run' = [run EXCEPT ![r].at = at]
      BY <2>2 DEF Enqueue, WaitForLock, CallApproved, Deny, Go
    <3>2. run'[r].at = at
      BY <1>1, <3>1 DEF RunType
    <3> QED BY <3>2 DEF Recall
  <2>3. CASE Acquire(r)
    <3>1. \/ \E at \in {"drop", "call"} : run' = [run EXCEPT ![r].at = at]
          \/ Resumed(a) > 0 /\ \E i : run' = [run EXCEPT ![r].at = "idem", ![r].step = i]
      BY <2>3 DEF Acquire, Go, Answered
    <3>2. run'[r].at \in {"drop", "call"} \/ (run'[r].at = "idem" /\ Resumed(a) > 0)
      BY <1>1, <3>1 DEF RunType
    <3> QED BY <1>4, <2>1, <3>2 DEF Recall
  <2>4. CASE ApprovedReturns(r)
    <3>1. \/ \E at \in {"drop", "return"} : run' = [run EXCEPT ![r].at = at]
          \/ Resumed(a) # 0 /\ \E i : run' = [run EXCEPT ![r].at = "idem", ![r].step = i]
      BY <2>4 DEF ApprovedReturns
    <3>2. run'[r].at \in {"drop", "return"} \/ (run'[r].at = "idem" /\ Resumed(a) # 0)
      BY <1>1, <3>1 DEF RunType
    <3>3. Resumed(a) # 0 => Resumed(a) > 0
      BY <1>1 DEF Inv, TypeOK, Resumed
    <3> QED BY <1>4, <2>1, <3>2, <3>3 DEF Recall
  <2>5. CASE RecordIdem(r)
    <3>1. run[r].at = "idem" /\ run'[r].at = "stepres"
      BY <1>1, <2>5 DEF RecordIdem, Go, RunType
    <3> QED BY <1>1, <1>4, <2>1, <3>1 DEF Recall
  <2>6. CASE RecordStep(r)
    <3>1. run[r].at = "stepres" /\ \/ run'[r].at = "intent"
                                   \/ run'[r].at = "confirm" /\ Already(a)
      BY <1>1, <2>6 DEF RecordStep, Go, RunType
    <3>2. Already(a) => requested[a] > 0
      BY <1>1 DEF Already
    <3> QED BY <1>1, <1>4, <2>1, <3>1, <3>2 DEF Recall
  <2> QED BY <2>2, <2>3, <2>4, <2>5, <2>6
<1>10. \A b \in Apr : intent'[b].sent => requested[b] > 0
  BY <1>1, <1>2
<1> QED BY <1>1, <1>2, <1>4, <1>5, <1>6, <1>7, <1>8, <1>9, <1>10, ApproveBeside

LEMMA ApproveRows ==
    ASSUME Inv, Inv', CancelInv, CancelInv', OrderInv, NEW r \in Run,
           SaveIntent(r) \/ TakeResume(r) \/ ConfirmIntent(r) \/ DropIntent(r)
    PROVE  OrderInv'
<1> DEFINE a == run[r].apr
<1>0. run[r].at \in ApproveAts
  BY DEF SaveIntent, TakeResume, ConfirmIntent, DropIntent, ApproveAts
<1>1. ~IsExecute(r) /\ run[r].at # "none"
  BY <1>0 DEF Inv, RunOK, Shaped, IsExecute, ApproveAts
<1>2. /\ run \in [Run -> RunType] /\ run[r] \in RunType /\ a \in Apr /\ Recall(r) /\ passed \subseteq Step
      /\ \A b \in Apr : intent[b].sent => requested[b] > 0
      /\ \A b \in Apr : resume[b] \in 0..Steps /\ intent[b].from \in 0..Steps
      /\ ~boot
  BY <1>1, ApproveFacts
<1>3. /\ UNCHANGED <<wi, current, dispatch, progress, gate, requested, approval, boot, passed>>
      /\ Mine(r)
  BY DEF SaveIntent, TakeResume, ConfirmIntent, DropIntent, history
<1>4. PICK at : Go(r, at) /\ \/ SaveIntent(r) /\ at = "take"
                             \/ TakeResume(r) /\ run[r].at = "take" /\ at = "emit"
                             \/ TakeResume(r) /\ run[r].at = "drop" /\ at = "dropped"
                             \/ ConfirmIntent(r) /\ at = "return"
                             \/ DropIntent(r) /\ at \in {"deny", "return"}
  BY DEF SaveIntent, TakeResume, ConfirmIntent, DropIntent
<1>5. /\ run' = [run EXCEPT ![r].at = at] /\ seg'.op = "run"
  BY <1>4 DEF Go
<1>6. /\ \A q \in Run : q # r => run'[q] = run[q]
      /\ run'[r].kind = run[r].kind /\ run'[r].apr = a /\ run'[r].at = at
  BY <1>2, <1>5 DEF RunType
<1>7. ~IsExecute(r)'
  BY <1>1, <1>6 DEF IsExecute
<1>8. (\A b \in Apr : Waits(b)' => Waits(b)) /\ Recall(r)'
      /\ \A b \in Apr : intent'[b].sent => requested[b] > 0
  <2>1. CASE SaveIntent(r) /\ at = "take"
    <3>1. /\ run[r].at = "intent" /\ resume' = resume
          /\ intent' = [intent EXCEPT ![a] = [from |-> run[r].step + 1, sent |-> FALSE]]
      BY <2>1 DEF SaveIntent
    <3>2. Resumed(a) > 0 /\ requested[a] = 0
      BY <1>1, <1>2, <3>1 DEF Recall, Inv, OnceOK, Sending
    <3>3. run[r].step \in Nat
      <4>1. run[r].step \in 0..Steps
        BY <1>2 DEF RunType
      <4> QED BY <4>1
    <3>4. \A b \in Apr : b # a => intent'[b] = intent[b]
      BY <3>1
    <3>5. intent'[a].from = run[r].step + 1 /\ ~intent'[a].sent
      BY <1>2, <3>1 DEF Inv, TypeOK
    <3>6. \A b \in Apr : Waits(b)' => Waits(b)
      BY <1>3, <3>1, <3>2, <3>4 DEF Waits, Resumed
    <3>7. Recall(r)'
      BY <1>6, <2>1, <3>3, <3>5 DEF Recall
    <3> QED BY <1>2, <3>4, <3>5, <3>6, <3>7
  <2>2. CASE TakeResume(r)
    <3>1. resume' = [resume EXCEPT ![a] = 0] /\ intent' = intent
      BY <2>2 DEF TakeResume
    <3>2. \A b \in Apr : resume'[b] = IF b = a THEN 0 ELSE resume[b]
      BY <1>2, <3>1 DEF Inv, TypeOK
    <3>3. run[r].at = "take" => intent[a].from > 0
      BY <1>1, <1>2 DEF Recall
    <3>4. (run[r].at = "take" /\ at = "emit") \/ at = "dropped"
      BY <1>1, <1>4, <2>2 DEF SaveIntent, ConfirmIntent, DropIntent, TakeResume
    <3>5. \A b \in Apr : Waits(b)' => Waits(b)
      <4> SUFFICES ASSUME NEW b \in Apr, Waits(b)' PROVE Waits(b)
        OBVIOUS
      <4>1. CASE b = a
        <5>1. intent[a].from > 0 /\ requested[a] = 0
          BY <1>3, <3>1, <3>2, <4>1 DEF Waits, Resumed
        <5> QED BY <1>2, <4>1, <5>1 DEF Waits, Resumed
      <4>2. CASE b # a
        BY <1>3, <3>1, <3>2, <4>2 DEF Waits, Resumed
      <4> QED BY <4>1, <4>2
    <3>6. Recall(r)'
      BY <1>6, <3>1, <3>3, <3>4 DEF Recall
    <3> QED BY <1>2, <3>1, <3>5, <3>6
  <2>3. CASE ConfirmIntent(r) /\ at = "return"
    <3>1. /\ run[r].at = "confirm" /\ resume' = resume
          /\ intent' = [intent EXCEPT ![a] = [from |-> run[r].step + 1, sent |-> TRUE]]
      BY <2>3 DEF ConfirmIntent
    <3>2. requested[a] > 0
      BY <1>1, <1>2, <3>1 DEF Recall
    <3>3. \A b \in Apr : b # a => intent'[b] = intent[b]
      BY <3>1
    <3>4. \A b \in Apr : Waits(b)' => Waits(b)
      BY <1>3, <3>1, <3>2, <3>3 DEF Waits, Resumed
    <3>5. Recall(r)'
      BY <1>6, <2>3 DEF Recall
    <3> QED BY <1>2, <3>2, <3>3, <3>4, <3>5
  <2>4. CASE DropIntent(r) /\ at \in {"deny", "return"}
    <3>1. resume' = resume /\ intent' = [intent EXCEPT ![a] = NoIntent]
      BY <2>4 DEF DropIntent
    <3>2. \A b \in Apr : b # a => intent'[b] = intent[b]
      BY <3>1
    <3>3. intent'[a].from = 0 /\ ~intent'[a].sent
      BY <1>2, <3>1 DEF Inv, TypeOK, NoIntent
    <3>4. \A b \in Apr : Waits(b)' => Waits(b)
      BY <1>2, <1>3, <3>1, <3>2, <3>3 DEF Waits, Resumed
    <3>5. Recall(r)'
      BY <1>6, <2>4 DEF Recall
    <3> QED BY <1>2, <3>2, <3>3, <3>4, <3>5
  <2> QED BY <1>4, <2>1, <2>2, <2>3, <2>4
<1> QED BY <1>1, <1>2, <1>3, <1>5, <1>6, <1>7, <1>8, ApproveBeside
\* The end of a handler, its report, and the sweep of stale approvals.
LEMMA EndsBeside ==
    ASSUME Inv, Inv', CancelInv, CancelInv', OrderInv, NEW r \in Run, Report(r) \/ Return(r)
    PROVE  OrderInv'
<1>1. run \in [Run -> RunType] /\ run[r] \in RunType /\ Mine(r) /\ passed \subseteq Step
  BY DEF Report, Return, Inv, TypeOK
<1>2. /\ UNCHANGED <<wi, current, progress, gate, requested, resume, intent, approval, passed, boot>>
      /\ run[r].at \in {"report", "return"}
  BY DEF Report, Return, store, history
<1>3. /\ \A q \in Run : q # r => run'[q] = run[q]
      /\ run'[r].kind = run[r].kind /\ run'[r].at \in {"return", "done"}
  <2>1. CASE Report(r)
    BY <1>1, <2>1 DEF Report, RunType
  <2>2. CASE Return(r)
    BY <1>1, <2>2 DEF Return, RunType
  <2> QED BY <2>1, <2>2
<1>4. seg'.op \in {"idle", "run"} /\ ~boot'
  BY <1>1, <1>2 DEF Report, Return, Idle, Mine, OrderInv
<1>5. Recalls'
  <2>1. Recall(r)'
    BY <1>3 DEF Recall
  <2>2. \A q \in Run : q # r => run'[q].at \notin Within
    BY <1>1, <1>3, OthersWait
  <2> QED BY <1>2, <2>1, <2>2, RecallsKept DEF OrderInv, Recalls
<1>6. \A q \in Run : (Live(q)' <=> Live(q)) /\ (Live(q) => run'[q] = run[q])
                     /\ (Known(q) => Known(q)')
  BY <1>2, <1>3 DEF Live, Known, Working, IsExecute
<1>7. \A a \in Apr : Waits(a)' <=> Waits(a)
  BY <1>2 DEF Waits, Resumed
<1>8. CASE Return(r)
  <2>1. dispatch' = dispatch
    BY <1>8 DEF Return
  <2> QED BY <1>1, <1>2, <1>4, <1>5, <1>6, <1>7, <2>1, Beside
<1>9. CASE Report(r)
  <2>1. CASE dispatch' = dispatch
    BY <1>1, <1>2, <1>4, <1>5, <1>6, <1>7, <2>1, Beside
  <2>2. CASE dispatch' # dispatch
    <3>1. dispatch'.st = "idle" \/ (dispatch'.st = "error" /\ run[r].out = "failed")
      BY <1>9, <2>2 DEF Report, Inv, TypeOK
    <3>2. run[r].out = "failed" => wi = "failed"
      BY <1>9 DEF Report, CancelInv, Steady, StatusOf
    <3>3. OneHolder /\ Holding /\ Ordered
      BY DEF OrderInv
    <3>4. OneHolder'
      <4>1. \A q \in Run : Live(q) => run'[q] = run[q] /\ (Stops(q)' <=> Stops(q))
        BY <1>6 DEF Stops, Stopped
      <4> QED BY <1>6, <1>7, <3>3, <4>1 DEF OneHolder
    <3>5. Holding'
      <4>1. Nobody' <=> Nobody
        BY <1>6, <1>7 DEF Nobody
      <4>2. dispatch'.st # "claimed" /\ (dispatch'.st = "error" => Nobody /\ wi = "failed")
        BY <3>1, <3>2, <3>3 DEF Holding
      <4>3. \A q \in Run : current = q => Known(q)'
        BY <1>6, <3>3 DEF Holding
      <4> QED BY <1>2, <1>4, <1>6, <1>7, <3>3, <4>1, <4>2, <4>3 DEF Holding
    <3>6. Ordered'
      <4>1. \A i : Before(i)' <=> Before(i)
        BY <1>2 DEF Before
      <4>2. ASSUME NEW q \in Run PROVE Behind(q)' /\ ((Live(q) /\ Stopped(q)) => (Live(q) /\ Stopped(q))')
        <5>1. Behind(q)
          BY <3>3 DEF Ordered
        <5> QED BY <1>2, <1>6, <5>1 DEF Behind, Before, Stopped
      <4>3. Gates'
        BY <1>2, <1>7, <3>3 DEF Ordered, Gates, Before
      <4> QED BY <1>2, <3>3, <4>2, <4>3 DEF Ordered, Before
    <3> QED BY <1>4, <1>5, <3>4, <3>5, <3>6 DEF OrderInv
  <2> QED BY <2>1, <2>2
<1> QED BY <1>8, <1>9

LEMMA SweepBeside ==
    ASSUME Inv, Inv', CancelInv, CancelInv', OrderInv,
           ExpireDenies \/ \E a \in Apr : Expire(a)
    PROVE  OrderInv'
<1>1. /\ UNCHANGED <<wi, current, dispatch, progress, gate, requested, intent, passed, boot, run>>
      /\ seg.op # "run" /\ seg'.op \in {"idle", "expire"}
  BY DEF ExpireDenies, Expire, Turn, Idle, history
<1>2. \A a \in Apr : resume'[a] = 0 \/ resume'[a] = resume[a]
  BY DEF ExpireDenies, Expire, Inv, TypeOK
<1>3. \A a \in Apr : intent[a].from \in Nat
  <2>1. \A a \in Apr : intent[a].from \in 0..Steps
    BY DEF Inv, TypeOK
  <2> QED BY <2>1
<1>4. \A a \in Apr : Waits(a)' => Waits(a)
  BY <1>1, <1>2, <1>3 DEF Waits, Resumed
<1>5. \A a \in Apr : approval'[a] # "absent" => approval[a] # "absent"
  BY DEF ExpireDenies, Expire, Denied, Inv, TypeOK
<1>6. \A q \in Run : run'[q].at \notin Within
  BY <1>1, NobodyWithin
<1>7. Recalls'
  BY <1>1, <1>6, RecallsStill DEF OrderInv, Recalls
<1>8. \A q \in Run : (Live(q)' <=> Live(q)) /\ run'[q] = run[q] /\ (Known(q) => Known(q)')
  BY <1>1 DEF Live, Known, IsExecute
<1>9. ~boot' /\ passed' \subseteq Step
  BY <1>1 DEF OrderInv, Inv, TypeOK
<1> QED BY <1>1, <1>4, <1>5, <1>7, <1>8, <1>9, Beside

\* A click, and a timeout of an approve handler or of its lock.
LEMMA ApproveComes ==
    ASSUME Inv, Inv', CancelInv, CancelInv', OrderInv, NEW r \in Run,
           \/ \E a \in Apr : Decide(r, a, "approve") \/ Decide(r, a, "deny")
           \/ ~IsExecute(r) /\ HandlerTimesOut(r)
    PROVE  OrderInv'
<1>1. run \in [Run -> RunType] /\ run[r] \in RunType /\ passed \subseteq Step /\ ~boot
  BY DEF Inv, TypeOK, OrderInv
<1>2. /\ UNCHANGED <<current, dispatch, progress, gate, requested, intent, resume, approval, passed,
                     boot, seg>>
      /\ seg = Idle
  BY DEF Decide, HandlerTimesOut, Turn, UserTurn, store, history
<1>3. /\ \A q \in Run : q # r => run'[q] = run[q]
      /\ ~Known(r) /\ run'[r].kind # "execute" /\ run'[r].at \in {"emitted", "queued", "failed"}
  <2>1. ASSUME NEW a \in Apr, Decide(r, a, "approve") \/ Decide(r, a, "deny")
        PROVE  /\ \A q \in Run : q # r => run'[q] = run[q]
               /\ ~Known(r) /\ run'[r].kind # "execute" /\ run'[r].at \in {"emitted", "queued", "failed"}
    <3>1. run[r].at = "none"
      BY <2>1 DEF Decide, NextRun
    <3>2. ~Known(r)
      BY <3>1 DEF Known
    <3>3. PICK rec : rec.at = "emitted" /\ rec.kind = "approve" /\ run' = [run EXCEPT ![r] = rec]
      BY <2>1 DEF Decide, NewRun
    <3> QED BY <1>1, <3>2, <3>3
  <2>2. CASE ~IsExecute(r) /\ HandlerTimesOut(r)
    <3>1. run' = [run EXCEPT ![r] = Again(run[r])]
      BY <2>2 DEF HandlerTimesOut
    <3> QED BY <1>1, <2>2, <3>1, AgainFacts DEF Known, IsExecute
  <2> QED BY <2>1, <2>2
<1>4. wi' = wi
  <2>1. current = r => Known(r)
    BY DEF OrderInv, Holding
  <2> QED BY <1>3, <2>1 DEF Decide, HandlerTimesOut
<1>5. Recalls'
  <2>1. Recall(r)'
    BY <1>3 DEF Recall
  <2>2. \A q \in Run : q # r => run'[q].at \notin Within
    BY <1>2, <1>3, OthersWait
  <2> QED BY <1>2, <2>1, <2>2, RecallsKept DEF OrderInv, Recalls
<1>6. \A q \in Run : (Live(q)' <=> Live(q)) /\ (Live(q) => run'[q] = run[q])
                     /\ (Known(q) => Known(q)')
  BY <1>3 DEF Live, Known, Working, IsExecute
<1>7. \A a \in Apr : Waits(a)' <=> Waits(a)
  BY <1>2 DEF Waits, Resumed
<1>8. seg'.op = "idle"
  BY <1>2 DEF Idle
<1> QED BY <1>1, <1>2, <1>4, <1>5, <1>6, <1>7, <1>8, Beside
----------------------------------------------------------------------------
(* Steps of the execute handler that has the plan.                         *)

LEMMA ExecuteFacts ==
    ASSUME Inv, OrderInv, NEW r \in Run
    PROVE  /\ run \in [Run -> RunType] /\ run[r] \in RunType /\ passed \subseteq Step
           /\ run[r].step \in 0..Steps /\ run[r].from \in 0..Steps /\ progress \in 0..Steps
           /\ ~boot /\ Behind(r)
           /\ \A a \in Apr : intent[a].sent => requested[a] > 0
BY DEF Inv, TypeOK, RunType, OrderInv, Ordered, Recalls

\* A handler that has left the plan to nobody moves on.
LEMMA Forward ==
    ASSUME Inv, Inv', CancelInv, CancelInv', OrderInv, NEW r \in Run, Live(r), ~Stops(r),
           seg = Idle \/ Mine(r), \A q \in Run : q # r => run'[q] = run[q], Known(r)',
           UNCHANGED <<resume, intent, requested, gate, approval, dispatch, boot>>,
           current' \in {0, r, current}, wi' \in {wi, "running"}, passed \subseteq passed',
           seg'.op \in {"idle", "run"}, Behind(r)', ~Live(r)' => Before(progress)'
    PROVE  OrderInv'
<1>1. OneHolder /\ Holding /\ Ordered /\ ~boot
  BY DEF OrderInv
<1>2. \A a \in Apr : ~Waits(a)'
  <2>1. \A a \in Apr : ~Waits(a)
    BY <1>1, LiveAlone
  <2> QED BY <2>1 DEF Waits, Resumed
<1>3. \A q \in Run : q # r => run'[q].at \notin Within
  BY OthersWait
<1>4. Recall(r)'
  BY DEF Known, Recall
<1>5. Recalls'
  BY <1>3, <1>4, RecallsKept DEF OrderInv, Recalls
<1>6. Gates'
  BY <1>1, <1>2 DEF Ordered, Gates, Before
<1>7. passed' \subseteq Step
  BY DEF Inv, TypeOK
<1> QED BY <1>1, <1>2, <1>5, <1>6, <1>7, Onward

LEMMA ForwardSteps ==
    ASSUME Inv, Inv', CancelInv, CancelInv', OrderInv, NEW r \in Run, IsExecute(r),
           \/ Enqueue(r) \/ PlanOver(r) \/ SkipStep(r) \/ CallStep(r) \/ StepReturns(r)
           \/ RecordIdem(r) \/ RecordStep(r) \/ Progress(r)
    PROVE  OrderInv'
<1>1. /\ run \in [Run -> RunType] /\ run[r] \in RunType /\ passed \subseteq Step
      /\ run[r].step \in 0..Steps /\ run[r].from \in 0..Steps /\ progress \in 0..Steps
      /\ ~boot /\ Behind(r)
  BY ExecuteFacts
<1>2. /\ UNCHANGED <<resume, intent, requested, gate, approval, dispatch, boot, current, wi>>
      /\ seg = Idle \/ Mine(r)
  BY DEF Enqueue, PlanOver, SkipStep, CallStep, StepReturns, RecordIdem, RecordStep, Progress,
         store, history, Turn
<1>3. /\ seg'.op \in {"idle", "run"} /\ passed \subseteq passed'
      /\ run[r].at \in {"emitted", "tool", "step", "idem", "stepres", "progress"}
  BY <1>2 DEF Enqueue, PlanOver, SkipStep, CallStep, StepReturns, RecordIdem, RecordStep, Progress,
         Go, history, Idle, Mine
<1>4. Live(r) /\ ~Stops(r)
  BY <1>3 DEF Live, Working, Stops, Stopped
<1>5. /\ Before(run[r].from) /\ Before(progress)
      /\ run[r].at \in Working \union {"tool"} => Before(run[r].step)
  BY <1>1, <1>4 DEF Behind, Stops
<1>6. /\ \A q \in Run : q # r => run'[q] = run[q]
      /\ run'[r].kind = run[r].kind /\ run'[r].from = run[r].from
  <2>1. CASE Enqueue(r) \/ CallStep(r) \/ RecordIdem(r) \/ RecordStep(r)
    <3>1. PICK at : run' = [run EXCEPT ![r].at = at]
      BY <2>1 DEF Enqueue, CallStep, RecordIdem, RecordStep, Go
    <3> QED BY <1>1, <3>1 DEF RunType
  <2>2. CASE SkipStep(r)
    BY <1>1, <2>2 DEF SkipStep, RunType
  <2>5. CASE Progress(r)
    BY <1>1, <2>5 DEF Progress, RunType
  <2>3. CASE PlanOver(r)
    BY <1>1, <2>3 DEF PlanOver, RunType
  <2>4. CASE StepReturns(r)
    <3>1. CASE CancelCheck
      <4>1. run' = [run EXCEPT ![r].at = "close", ![r].out = "cancelled"]
        BY <2>4, <3>1 DEF StepReturns
      <4> QED BY <1>1, <4>1 DEF RunType
    <3>2. CASE run' = [run EXCEPT ![r].at = "idem"]
      BY <1>1, <3>2 DEF RunType
    <3>3. CASE run' = [run EXCEPT ![r].at = "close", ![r].out = "failed"]
      BY <1>1, <3>3 DEF RunType
    <3> QED BY <2>4, <3>1, <3>2, <3>3 DEF StepReturns
  <2> QED BY <2>1, <2>2, <2>3, <2>4, <2>5
<1>7. Before(run[r].from) /\ Before(progress)
  BY <1>5
<1>8. /\ run'[r].at \in {"queued", "close", "step", "tool", "idem", "stepres", "progress"}
      /\ run'[r].at \in Working \union {"tool"} => Before(run'[r].step)
      /\ run'[r].at = "close" /\ run'[r].out = "completed" => passed = Step
      /\ Before(progress') /\ ~(run'[r].at = "close" /\ run'[r].out = "pending")
  <2>1. CASE Enqueue(r)
    <3>1. run'[r].at = "queued" /\ progress' = progress
      BY <1>1, <2>1 DEF Enqueue, RunType, store
    <3> QED BY <1>7, <3>1 DEF Working
  <2>2. CASE PlanOver(r)
    <3>1. /\ run[r].at = "step" /\ run[r].step >= Steps /\ progress' = progress
          /\ run'[r].at = "close" /\ run'[r].out = "completed"
      BY <1>1, <2>2 DEF PlanOver, RunType, store
    <3>2. Before(run[r].step)
      BY <1>5, <3>1 DEF Working
    <3>3. passed = Step
      BY <1>1, <3>1, <3>2, BeforeAll DEF Inv
    <3> QED BY <1>7, <3>1, <3>3 DEF Working
  <2>3. CASE SkipStep(r)
    <3>1. /\ run[r].at = "step" /\ run[r].step < Steps /\ Cached(r, run[r].step)
          /\ progress' = run[r].step + 1
          /\ run'[r].at = "step" /\ run'[r].step = run[r].step + 1
      BY <1>1, <2>3 DEF SkipStep, RunType
    <3>2. run[r].step \in passed
      <4>1. run[r].step \in Step
        BY <1>1, <3>1, StepFits
      <4>2. idem \subseteq Run \X Step
        BY DEF Inv, TypeOK
      <4>3. run[r].corr \in Run \/ run[r].step \in stepres
        BY <3>1, <4>2 DEF Cached
      <4> QED BY <3>1, <4>1, <4>3 DEF Cached, Inv, RowsOK
    <3>3. Before(run[r].step + 1)
      BY <1>1, <1>5, <3>1, <3>2, BeforeNext DEF Working
    <3> QED BY <3>1, <3>3
  <2>4. CASE CallStep(r)
    <3>1. /\ run[r].at = "step" /\ progress' = progress
          /\ run'[r].at = "tool" /\ run'[r].step = run[r].step
      BY <1>1, <2>4 DEF CallStep, RunType, store
    <3> QED BY <1>5, <3>1 DEF Working
  <2>5. CASE StepReturns(r)
    <3>1. run[r].at = "tool" /\ progress' = progress
      BY <2>5 DEF StepReturns, store
    <3>2. \/ run'[r].at = "idem" /\ run'[r].step = run[r].step
          \/ run'[r].at = "close" /\ run'[r].out \in {"cancelled", "failed"}
      <4>1. CASE CancelCheck
        <5>1. run' = [run EXCEPT ![r].at = "close", ![r].out = "cancelled"]
          BY <2>5, <4>1 DEF StepReturns
        <5> QED BY <1>1, <5>1 DEF RunType
      <4>2. CASE ~CancelCheck /\ run' = [run EXCEPT ![r].at = "idem"]
        BY <1>1, <4>2 DEF RunType
      <4>3. CASE ~CancelCheck /\ run' = [run EXCEPT ![r].at = "close", ![r].out = "failed"]
        BY <1>1, <4>3 DEF RunType
      <4> QED BY <2>5, <4>1, <4>2, <4>3 DEF StepReturns
    <3> QED BY <1>5, <3>1, <3>2 DEF Working
  <2>6. CASE RecordIdem(r)
    <3>1. /\ run[r].at = "idem" /\ progress' = progress
          /\ run'[r].at = "stepres" /\ run'[r].step = run[r].step
      BY <1>1, <2>6 DEF RecordIdem, Go, RunType
    <3> QED BY <1>5, <3>1 DEF Working
  <2>7. CASE RecordStep(r)
    <3>1. /\ run[r].at = "stepres" /\ progress' = progress
          /\ run'[r].at = "progress" /\ run'[r].step = run[r].step
      BY <1>1, <2>7 DEF RecordStep, Go, RunType
    <3> QED BY <1>5, <3>1 DEF Working
  <2>8. CASE Progress(r)
    <3>1. /\ run[r].at = "progress" /\ progress' = run[r].step + 1
          /\ run'[r].at = "step" /\ run'[r].step = run[r].step + 1
      BY <1>1, <2>8 DEF Progress, RunType
    <3>2. run[r].step \in passed
      BY <3>1 DEF Inv, RunOK, Truthful, Recording
    <3>3. Before(run[r].step + 1)
      BY <1>1, <1>5, <3>1, <3>2, BeforeNext DEF Working
    <3> QED BY <3>1, <3>3
  <2> QED BY <2>1, <2>2, <2>3, <2>4, <2>5, <2>6, <2>7, <2>8
<1>9. \A i : Before(i) => \A j \in Step : j < i => j \in passed'
  BY <1>3 DEF Before
<1>10. Behind(r)'
  <2>1. passed = Step => passed' = Step
    BY <1>3 DEF Inv, TypeOK
  <2> QED BY <1>6, <1>7, <1>8, <1>9, <2>1 DEF Behind, Before
<1>11. Known(r)' /\ Live(r)'
  BY <1>6, <1>8 DEF Known, Live, IsExecute, Working
<1> QED BY <1>2, <1>3, <1>4, <1>6, <1>10, <1>11, Forward

LEMMA BeginOrder ==
    ASSUME Inv, Inv', CancelInv, CancelInv', OrderInv, NEW r \in Run, BeginExecute(r)
    PROVE  OrderInv'
<1>1. /\ run \in [Run -> RunType] /\ run[r] \in RunType
      /\ run[r].step \in 0..Steps /\ run[r].from \in 0..Steps /\ progress \in 0..Steps
      /\ ~boot /\ Behind(r)
  BY ExecuteFacts
<1>2. /\ UNCHANGED <<resume, intent, requested, gate, approval, dispatch, boot, progress, passed>>
      /\ seg = Idle /\ seg'.op = "run" /\ run[r].at = "queued" /\ IsExecute(r)
  BY DEF BeginExecute, store, history, Turn
<1>3. Live(r) /\ ~Stops(r)
  BY <1>2 DEF Live, Stops, Stopped
<1>4. Before(run[r].from) /\ Before(progress)
  BY <1>1, <1>3 DEF Behind, Stops
<1>5. current' \in {0, r, current} /\ wi' \in {wi, "running"}
  BY DEF BeginExecute
<1>6. /\ \A q \in Run : q # r => run'[q] = run[q]
      /\ run'[r].kind = run[r].kind /\ run'[r].from = run[r].from
      /\ \/ run'[r].at = "report"
         \/ run'[r].at = "step" /\ run'[r].step = Cursor(r)
  <2>1. CASE CancelSeen(r)
    <3>1. run' = [run EXCEPT ![r].at = "report", ![r].out = "cancelled"]
      BY <2>1 DEF BeginExecute
    <3> QED BY <1>1, <3>1 DEF RunType
  <2>2. CASE ~CancelSeen(r)
    <3>1. run' = [run EXCEPT ![r].at = "step", ![r].step = Cursor(r)]
      BY <2>2 DEF BeginExecute
    <3> QED BY <1>1, <3>1 DEF RunType
  <2> QED BY <2>1, <2>2
<1>7. Before(Cursor(r))
  BY <1>4 DEF Cursor
<1>8. \A i : Before(i) => \A j \in Step : j < i => j \in passed'
  BY <1>2 DEF Before
<1>9. Behind(r)' /\ Before(progress)'
  BY <1>2, <1>4, <1>6, <1>7, <1>8 DEF Behind, Before, Live, Working
<1>10. Known(r)'
  BY <1>2, <1>6 DEF Known, IsExecute
<1> QED BY <1>2, <1>3, <1>5, <1>6, <1>9, <1>10, Forward
----------------------------------------------------------------------------
(* The handler stops at a step that waits for its approval.                *)

LEMMA StopOrder ==
    ASSUME Inv, Inv', CancelInv, CancelInv', OrderInv, NEW r \in Run,
           Register(r) \/ PassPending(r) \/ \E a \in Apr : RequestApproval(r, a)
    PROVE  OrderInv'
<1>0. /\ run[r].at \in {"step", "register", "pass"} /\ Mine(r)
      /\ UNCHANGED <<wi, current, dispatch, boot, requested, intent, passed>>
  BY DEF Register, PassPending, RequestApproval, history
<1>1. /\ run \in [Run -> RunType] /\ run[r] \in RunType /\ passed \subseteq Step
      /\ run[r].step \in 0..Steps /\ run[r].from \in 0..Steps /\ progress \in 0..Steps
      /\ ~boot /\ Behind(r)
      /\ \A a \in Apr : intent[a].sent => requested[a] > 0
  BY ExecuteFacts
<1>2. IsExecute(r) /\ wi # "cancelled"
  BY <1>0 DEF Inv, RunOK, Shaped, IsExecute, ExecuteAts, CancelInv, Steady, Working
<1>3. Live(r)
  BY <1>0, <1>2 DEF Live, Working
<1>4. /\ Before(run[r].from) /\ Before(run[r].step) /\ Before(progress)
      /\ run[r].at = "pass" => run[r].step = gate[run[r].apr]
      /\ OneHolder /\ Holding /\ Gates
  BY <1>0, <1>1, <1>3 DEF Behind, Working, Stopped, OrderInv, Ordered
<1>5. \A a \in Apr : Waits(a) => run[r].apr = a /\ Stops(r)
  BY <1>3, <1>4, LiveAlone
<1>6. \A q \in Run : q # r => run[q].at \notin Within
  BY <1>0, OthersWait
<1>7. \A i : Before(i)' <=> Before(i)
  BY <1>0 DEF Before
<1>8. seg'.op = "run"
  BY <1>0 DEF Register, PassPending, RequestApproval, Go, Mine
<1>9. CASE Register(r)
  <2> DEFINE a == run[r].apr
  <2>1. /\ run' = [run EXCEPT ![r].at = "pass"] /\ run[r].at = "register"
        /\ resume' = [resume EXCEPT ![a] = NextResume(run[r].step)]
        /\ UNCHANGED <<progress, gate, approval>>
    BY <1>9 DEF Register, Go, history
  <2>2. /\ \A q \in Run : q # r => run'[q] = run[q]
        /\ run'[r].kind = run[r].kind /\ run'[r].at = "pass" /\ run'[r].apr = a
        /\ run'[r].step = run[r].step /\ run'[r].from = run[r].from
    BY <1>1, <2>1 DEF RunType
  <2>3. Live(r)' /\ Known(r)' /\ Stops(r)'
    BY <1>2, <2>2 DEF Live, Known, Stops, IsExecute, Working
  <2>4. run[r].step = gate[a]
    BY <2>1 DEF Inv, RunOK, Truthful
  <2>5. \A b \in Apr : ~Waits(b)
    BY <1>5, <2>1 DEF Stops, Stopped
  <2>6. \A b \in Apr : Waits(b)' => a = b
    <3>1. \A b \in Apr : b # a => resume'[b] = resume[b]
      BY <2>1
    <3> QED BY <1>0, <2>5, <3>1 DEF Waits, Resumed
  <2>7. Behind(r)'
    BY <1>4, <1>7, <2>1, <2>2, <2>4 DEF Behind, Before
  <2>8. Gates'
    BY <1>4, <2>1, <1>0 DEF Gates, Before
  <2>9. Recalls'
    <3>1. Recall(r)'
      BY <1>2, <2>2 DEF Recall, IsExecute
    <3> QED BY <1>0, <1>1, <1>6, <2>2, <3>1, RecallsKept
  <2> QED BY <1>0, <1>1, <1>2, <1>3, <1>8, <2>2, <2>3, <2>6, <2>7, <2>8, <2>9, Onward
<1>10. CASE PassPending(r)
  <2>1. /\ run' = [run EXCEPT ![r].at = "close", ![r].out = "pending"] /\ run[r].at = "pass"
        /\ progress' = run[r].step + 1 /\ UNCHANGED <<resume, gate, approval>>
    BY <1>10 DEF PassPending, history
  <2>2. /\ \A q \in Run : q # r => run'[q] = run[q]
        /\ run'[r].kind = run[r].kind /\ run'[r].at = "close" /\ run'[r].apr = run[r].apr
        /\ run'[r].out = "pending" /\ run'[r].from = run[r].from
    BY <1>1, <2>1 DEF RunType
  <2>3. Live(r)' /\ Known(r)' /\ Stopped(r)' /\ Stops(r)'
    BY <1>2, <2>2 DEF Live, Known, Stops, Stopped, IsExecute, Working
  <2>4. \A b \in Apr : Waits(b)' <=> Waits(b)
    BY <1>0, <2>1 DEF Waits, Resumed
  <2>5. Behind(r)'
    BY <1>4, <1>7, <2>2, <2>3 DEF Behind, Before, Working
  <2>6. Gates'
    <3>1. ASSUME NEW b \in Apr, Waits(b)' PROVE progress' = gate'[b] + 1
      BY <1>4, <1>5, <2>1, <2>4, <3>1
    <3> QED BY <1>4, <2>1, <1>0, <3>1 DEF Gates, Before
  <2>7. Recalls'
    <3>1. Recall(r)'
      BY <1>2, <2>2 DEF Recall, IsExecute
    <3> QED BY <1>0, <1>1, <1>6, <2>2, <3>1, RecallsKept
  <2> QED BY <1>0, <1>1, <1>2, <1>3, <1>5, <1>8, <2>2, <2>3, <2>4, <2>5, <2>6, <2>7, Onward
<1>11. ASSUME NEW a \in Apr, RequestApproval(r, a) PROVE OrderInv'
  <2>1. /\ run' = [run EXCEPT ![r].at = "register", ![r].apr = a] /\ run[r].at = "step"
        /\ approval' = [approval EXCEPT ![a] = "pending"]
        /\ gate' = [gate EXCEPT ![a] = run[r].step]
        /\ UNCHANGED <<resume, progress>>
    BY <1>11 DEF RequestApproval
  <2>2. /\ \A q \in Run : q # r => run'[q] = run[q]
        /\ run'[r].kind = run[r].kind /\ run'[r].at = "register" /\ run'[r].from = run[r].from
        /\ run'[r].step = run[r].step
    BY <1>1, <2>1 DEF RunType
  <2>3. Live(r)' /\ Known(r)'
    BY <1>2, <2>2 DEF Live, Known, IsExecute, Working
  <2>4. \A b \in Apr : ~Waits(b)
    BY <1>5, <2>1 DEF Stops, Stopped
  <2>5. \A b \in Apr : ~Waits(b)'
    BY <1>0, <2>1, <2>4 DEF Waits, Resumed
  <2>6. Behind(r)'
    BY <1>4, <1>7, <2>1, <2>2 DEF Behind, Before, Working
  <2>7. Gates'
    <3>1. /\ gate'[a] = run[r].step
          /\ \A b \in Apr : b # a => gate'[b] = gate[b] /\ approval'[b] = approval[b]
      BY <2>1 DEF Inv, TypeOK
    <3>2. Before(gate'[a])
      BY <1>4, <3>1
    <3>3. \A b \in Apr : approval'[b] # "absent" => Before(gate'[b])
      BY <1>4, <3>1, <3>2 DEF Gates
    <3> QED BY <1>0, <2>5, <3>3 DEF Gates, Before
  <2>8. Recalls'
    <3>1. Recall(r)'
      BY <1>2, <2>2 DEF Recall, IsExecute
    <3> QED BY <1>0, <1>1, <1>6, <2>2, <3>1, RecallsKept
  <2> QED BY <1>0, <1>1, <1>2, <1>3, <1>8, <2>2, <2>3, <2>5, <2>6, <2>7, <2>8, Onward
<1> QED BY <1>9, <1>10, <1>11
----------------------------------------------------------------------------
(* Nobody has the plan, or the approval alone.                             *)

\* Nobody has the plan any more, or nobody had it yet.
LEMMA Freed ==
    ASSUME ~boot', Nobody', Recalls', \A q \in Run : current' = q => Known(q)',
           wi' \in {"pending", "failed"} => dispatch'.st # "claimed",
           dispatch'.st = "claimed" => wi' \in {"running", "cancelled"} /\ current' = 0,
           dispatch'.st = "error" => wi' = "failed",
           seg'.op = "request" => wi' = "running" /\ current' = 0
                                     /\ dispatch'.st \notin {"claimed", "error"},
           seg'.op # "status",
           \A a \in Apr : approval'[a] # "absent" => Before(gate[a])',
           Before(progress)', wi' = "completed" => passed' = Step
    PROVE  OrderInv'
<1>1. OneHolder' /\ Holding'
  BY DEF OneHolder, Holding, Nobody
<1>2. Ordered'
  BY DEF Ordered, Behind, Gates, Nobody
<1> QED BY <1>1, <1>2 DEF OrderInv

LEMMA CloseOrder ==
    ASSUME Inv, Inv', CancelInv, CancelInv', OrderInv, NEW r \in Run, Close(r)
    PROVE  OrderInv'
<1>0. /\ run[r].at = "close" /\ Mine(r)
      /\ UNCHANGED <<current, dispatch, boot, requested, intent, resume, approval, gate,
                     progress, passed>>
      /\ wi' = StatusOf(run[r].out) /\ run' = [run EXCEPT ![r].at = "report"] /\ seg'.op = "run"
  BY DEF Close, Go, store, history
<1>1. /\ run \in [Run -> RunType] /\ run[r] \in RunType /\ ~boot /\ Behind(r)
      /\ \A a \in Apr : intent[a].sent => requested[a] > 0
  BY ExecuteFacts
<1>2. IsExecute(r)
  BY <1>0 DEF OrderInv, Recalls, Recall
<1>3. Live(r)
  BY <1>0, <1>2 DEF Live
<1>4. OneHolder /\ Holding /\ Ordered /\ Gates
  BY DEF OrderInv, Ordered
<1>5. /\ \A q \in Run : q # r => ~Live(q)
      /\ \A a \in Apr : Waits(a) => Stopped(r)
      /\ dispatch.st \notin {"claimed", "error"}
  BY <1>0, <1>3, <1>4, LiveAlone DEF Stops
<1>6. /\ \A q \in Run : q # r => run'[q] = run[q]
      /\ run'[r].kind = run[r].kind /\ run'[r].at = "report"
  BY <1>0, <1>1 DEF RunType
<1>7. \A q \in Run : ~Live(q)'
  BY <1>5, <1>6 DEF Live, IsExecute, Working
<1>8. \A a \in Apr : Waits(a)' <=> Waits(a)
  BY <1>0 DEF Waits, Resumed
<1>9. Recalls'
  <2>1. \A q \in Run : q # r => run'[q].at \notin Within
    BY <1>0, <1>6, OthersWait
  <2>2. Recall(r)'
    BY <1>6 DEF Recall
  <2> QED BY <1>0, <1>1, <2>1, <2>2, RecallsKept
<1>10. \A q \in Run : current' = q => Known(q)'
  BY <1>0, <1>4, <1>6 DEF Holding, Known, IsExecute
<1>11. run[r].out \in {"completed", "pending", "failed", "cancelled"}
  BY <1>0, <1>1 DEF Inv, RunOK, Shaped, RunType, Outs
<1>12. /\ wi' \in {"completed", "waiting_approval", "failed", "cancelled"}
       /\ wi' = "completed" <=> run[r].out = "completed"
       /\ wi' = "waiting_approval" <=> run[r].out = "pending"
  BY <1>0, <1>11 DEF StatusOf
<1>13. /\ wi' = "completed" => passed' = Step
       /\ ~Stopped(r) => Before(progress)
  BY <1>0, <1>1, <1>3, <1>12 DEF Behind
<1>14. CASE run[r].out = "pending"
  <2>1. wi' = "waiting_approval"
    BY <1>12, <1>14
  <2>2. OneHolder'
    BY <1>4, <1>7, <1>8 DEF OneHolder
  <2>3. Holding'
    BY <1>0, <1>5, <1>7, <1>10, <2>1 DEF Holding
  <2>4. Ordered'
    <3>1. Gates'
      BY <1>0, <1>4, <1>8 DEF Gates, Before
    <3> QED BY <1>7, <2>1, <3>1 DEF Ordered, Behind
  <2> QED BY <1>0, <1>1, <1>9, <2>2, <2>3, <2>4 DEF OrderInv
<1>15. CASE run[r].out # "pending"
  <2>1. ~Stopped(r) /\ Nobody'
    BY <1>5, <1>7, <1>8, <1>15 DEF Stopped, Nobody
  <2>2. Before(progress)'
    BY <1>0, <1>13, <2>1 DEF Before
  <2>3. \A a \in Apr : approval'[a] # "absent" => Before(gate[a])'
    BY <1>0, <1>4 DEF Gates, Before
  <2> QED BY <1>0, <1>1, <1>5, <1>9, <1>10, <1>12, <1>13, <2>1, <2>2, <2>3, Freed
<1> QED BY <1>14, <1>15

\* A user's request, the claim and the failure of a dispatch.
LEMMA RequestOrder ==
    ASSUME Inv, Inv', CancelInv, CancelInv', OrderInv, MaxStale = 0, PromptLoop,
           Execute \/ DispatchClaim \/ DispatchFails
    PROVE  OrderInv'
<1>0. /\ UNCHANGED <<run, boot, requested, intent, resume, approval, gate, progress, passed>>
      /\ seg = Idle /\ ~boot
  BY DEF Execute, DispatchClaim, DispatchFails, UserTurn, Turn, store, history
<1>1. OneHolder /\ Holding /\ Ordered /\ Gates /\ Recalls
  BY DEF OrderInv, Ordered
<1>2. Nobody /\ wi \in {"pending", "failed", "running"}
  <2>1. CASE Execute
    <3>1. CASE wi \in {"pending", "failed"}
      BY <1>1, <3>1 DEF Holding
    <3>2. CASE wi = "running" /\ current # 0 /\ run[current].at \in {"failed", "cancelled"}
      <4>1. current \in Run
        BY <3>2 DEF Inv, TypeOK, Run
      <4>2. \A q \in Run : ~Live(q)
        BY <1>1, <3>2 DEF Holding, Live, Working
      <4> QED BY <1>1, <3>2, <4>2 DEF Holding, Nobody
    <3> QED BY <2>1, <3>1, <3>2 DEF Execute
  <2>2. CASE DispatchClaim
    BY <1>1, <2>2 DEF DispatchClaim, Holding
  <2>3. CASE DispatchFails
    <3>1. spent["stale"] \in Nat
      BY DEF Inv, TypeOK, Costs
    <3>2. dispatch.st = "error"
      BY <2>3, <3>1 DEF DispatchFails
    <3> QED BY <1>1, <3>2 DEF Holding
  <2> QED BY <2>1, <2>2, <2>3
<1>3. Nobody'
  BY <1>0, <1>2 DEF Nobody, Live, IsExecute, Waits, Resumed
<1>4. Before(progress)'
  BY <1>0, <1>1, <1>2 DEF Ordered, Nobody, Before
<1>5. \A a \in Apr : approval'[a] # "absent" => Before(gate[a])'
  BY <1>0, <1>1 DEF Gates, Before
<1>6. \A q \in Run : run'[q].at \notin Within
  BY <1>0, NobodyWithin DEF Idle
<1>7. Recalls'
  BY <1>0, <1>1, <1>6, RecallsStill DEF Recalls
<1>8. /\ current' \in {0, current} /\ wi' \in {"running", "failed"}
      /\ dispatch'.st = "claimed" => wi' = "running" /\ current' = 0
      /\ dispatch'.st # "error"
      /\ seg'.op = "request" => wi' = "running" /\ current' = 0 /\ dispatch'.st # "claimed"
      /\ seg'.op \in {"idle", "request"}
  <2>1. CASE Execute
    <3>1. dispatch' = dispatch /\ dispatch.st # "error" /\ seg'.op = "request"
          /\ wi' = "running" /\ current' = 0
      BY <2>1 DEF Execute, UserTurn
    <3>2. dispatch.st # "claimed"
      BY <1>1, <2>1 DEF Execute, Holding
    <3> QED BY <3>1, <3>2
  <2>2. CASE DispatchClaim
    BY <1>0, <2>2 DEF DispatchClaim, Idle
  <2>3. CASE DispatchFails
    BY <1>0, <2>3 DEF DispatchFails, Idle
  <2> QED BY <2>1, <2>2, <2>3
<1>9. \A q \in Run : current' = q => Known(q)'
  <2>1. 0 \notin Run
    BY DEF Run
  <2> QED BY <1>0, <1>1, <1>8, <2>1 DEF Holding, Known, IsExecute
<1> QED BY <1>0, <1>3, <1>4, <1>5, <1>7, <1>8, <1>9, Freed
----------------------------------------------------------------------------
(* A timeout of an execute handler, and the handlers that begin.           *)

LEMMA TimeoutOrder ==
    ASSUME Inv, Inv', CancelInv, CancelInv', OrderInv, NEW r \in Run, IsExecute(r),
           HandlerTimesOut(r)
    PROVE  OrderInv'
<1>0. /\ UNCHANGED <<resume, intent, requested, gate, approval, dispatch, boot, current,
                     progress, passed, seg>>
      /\ seg = Idle /\ run[r].at = "tool"
      /\ run' = [run EXCEPT ![r] = Again(run[r])]
      /\ wi' = IF run[r].retry >= MaxRetries /\ wi = "running" /\ current = r
               THEN "failed" ELSE wi
  <2>1. run[r].at \in {"tool", "lock"}
    BY DEF HandlerTimesOut
  <2>2. run[r].at # "lock"
    BY DEF Inv, RunOK, Shaped, IsExecute, ApproveAts
  <2> QED BY <2>1, <2>2 DEF HandlerTimesOut, Turn, store, history
<1>1. /\ run \in [Run -> RunType] /\ run[r] \in RunType /\ passed \subseteq Step
      /\ ~boot /\ Behind(r)
      /\ \A a \in Apr : intent[a].sent => requested[a] > 0
  BY ExecuteFacts
<1>2. Live(r) /\ ~Stops(r) /\ ~Stopped(r)
  BY <1>0 DEF Live, Stops, Stopped
<1>3. Before(run[r].from) /\ Before(progress)
  BY <1>1, <1>2 DEF Behind
<1>4. OneHolder /\ Holding /\ Ordered /\ Gates
  BY DEF OrderInv, Ordered
<1>5. /\ \A q \in Run : q # r => ~Live(q)
      /\ \A a \in Apr : ~Waits(a)
      /\ wi \notin {"pending", "failed"} /\ dispatch.st \notin {"claimed", "error"}
  BY <1>2, <1>4, LiveAlone
<1>6. /\ \A q \in Run : q # r => run'[q] = run[q]
      /\ run'[r].kind = run[r].kind /\ run'[r].from = run[r].from
      /\ \/ run[r].retry < MaxRetries /\ run'[r].at = "queued"
         \/ run[r].retry >= MaxRetries /\ run'[r].at = "failed"
  <2>1. run[r].retry \in 0..MaxRetries
    BY <1>1 DEF RunType
  <2>2. run[r].retry < MaxRetries \/ run[r].retry >= MaxRetries
    BY <2>1, PlanApprovalAssumption
  <2>3. CASE run[r].retry < MaxRetries
    <3>1. /\ Again(run[r]).kind = run[r].kind /\ Again(run[r]).from = run[r].from
          /\ Again(run[r]).at = "queued"
      BY <1>1, <2>3 DEF Again, Restart, RunType
    <3> QED BY <1>0, <1>1, <2>3, <3>1
  <2>4. CASE run[r].retry >= MaxRetries
    <3>0. ~(run[r].retry < MaxRetries)
      BY <2>1, <2>4, PlanApprovalAssumption
    <3>1. /\ Again(run[r]).kind = run[r].kind /\ Again(run[r]).from = run[r].from
          /\ Again(run[r]).at = "failed"
      BY <1>1, <3>0 DEF Again, RunType
    <3> QED BY <1>0, <1>1, <2>4, <3>1
  <2> QED BY <2>2, <2>3, <2>4
<1>7. Known(r)'
  BY <1>6 DEF Known, IsExecute
<1>8. CASE run[r].retry < MaxRetries /\ run'[r].at = "queued"
  <2>1. run[r].retry \in Nat
    <3>1. run[r].retry \in 0..MaxRetries
      BY <1>1 DEF RunType
    <3> QED BY <3>1
  <2>2. wi' = wi
    BY <1>0, <1>8, <2>1, PlanApprovalAssumption
  <2>3. Behind(r)' /\ Live(r)'
    BY <1>0, <1>3, <1>6, <1>8 DEF Behind, Before, Live, IsExecute, Working
  <2> QED BY <1>0, <1>2, <1>6, <1>7, <2>2, <2>3, Forward DEF Idle
<1>9. CASE run[r].retry >= MaxRetries /\ run'[r].at = "failed"
  <2>1. Nobody'
    BY <1>0, <1>5, <1>6, <1>9 DEF Nobody, Live, IsExecute, Waits, Resumed, Working
  <2>2. Recalls'
    <3>1. \A q \in Run : q # r => run'[q].at \notin Within
      BY <1>0, <1>6, OthersWait
    <3>2. Recall(r)'
      BY <1>9 DEF Recall
    <3> QED BY <1>0, <1>1, <3>1, <3>2, RecallsKept
  <2>3. \A q \in Run : current' = q => Known(q)'
    BY <1>0, <1>4, <1>6, <1>7 DEF Holding, Known, IsExecute
  <2>4. Before(progress)' /\ \A a \in Apr : approval'[a] # "absent" => Before(gate[a])'
    BY <1>0, <1>3, <1>4 DEF Gates, Before
  <2>5. wi' = "completed" => passed' = Step
    BY <1>0, <1>4 DEF Ordered
  <2> QED BY <1>0, <1>1, <1>5, <2>1, <2>2, <2>3, <2>4, <2>5, Freed DEF Idle
<1> QED BY <1>6, <1>8, <1>9

LEMMA BegunOrder ==
    ASSUME Inv, Inv', CancelInv, CancelInv', OrderInv, NEW r \in Run,
           RequestExecute(r) \/ DispatchSubmit(r)
    PROVE  OrderInv'
<1>0. /\ UNCHANGED <<wi, resume, intent, requested, gate, approval, boot, progress, passed>>
      /\ current' = r /\ seg' = Idle /\ NextRun(r)
      /\ \E corr : run' = [run EXCEPT ![r] = NewRun("execute", 0, 0, "", corr)]
      /\ seg.op \in {"idle", "request"}
  <2>1. CASE RequestExecute(r)
    BY <2>1 DEF RequestExecute, store, history
  <2>2. CASE DispatchSubmit(r)
    BY <2>2 DEF DispatchSubmit, store, history, Turn, Idle
  <2> QED BY <2>1, <2>2
<1>1. OneHolder /\ Holding /\ Ordered /\ Gates /\ Recalls /\ ~boot
  BY DEF OrderInv, Ordered
<1>2. run \in [Run -> RunType]
  BY DEF Inv, TypeOK
<1>3. /\ run'[r].at = "emitted" /\ run'[r].kind = "execute" /\ run'[r].from = 0
      /\ \A q \in Run : q # r => run'[q] = run[q]
  <2>1. PICK corr : run' = [run EXCEPT ![r] = NewRun("execute", 0, 0, "", corr)]
    BY <1>0
  <2>2. run'[r] = NewRun("execute", 0, 0, "", corr)
    BY <1>2, <2>1
  <2> QED BY <1>2, <2>1, <2>2 DEF NewRun
<1>4. /\ Nobody /\ wi \in {"running", "cancelled"}
      /\ dispatch'.st \notin {"claimed", "error"}
  <2>1. CASE RequestExecute(r)
    BY <1>1, <2>1 DEF RequestExecute, Holding
  <2>2. CASE DispatchSubmit(r)
    BY <1>1, <2>2 DEF DispatchSubmit, Holding
  <2> QED BY <2>1, <2>2
<1>5. Before(progress)
  BY <1>1, <1>4 DEF Ordered, Nobody
<1>6. /\ \A q \in Run : q # r => ~Live(q)'
      /\ \A a \in Apr : ~Waits(a)'
  BY <1>0, <1>3, <1>4 DEF Nobody, Live, IsExecute, Waits, Resumed
<1>7. Gates'
  BY <1>0, <1>1, <1>6 DEF Gates, Before
<1>8. IsExecute(r)'
  BY <1>3 DEF IsExecute
<1>9. Recalls'
  <2>1. Recall(r)'
    BY <1>3 DEF Recall
  <2>2. \A q \in Run : q # r => run'[q].at \notin Within
    BY <1>0, <1>3, OthersWait
  <2> QED BY <1>0, <1>1, <2>1, <2>2, RecallsKept DEF Recalls
<1>10. Before(run'[r].from)
  BY <1>3, BeforeZero
<1>11. wi' \notin {"pending", "failed"} /\ wi' = wi /\ seg'.op \in {"idle", "run"} /\ ~boot'
  BY <1>0, <1>1, <1>4 DEF Idle
<1> QED BY <1>0, <1>3, <1>4, <1>5, <1>6, <1>7, <1>8, <1>9, <1>10, <1>11, Handed

\* The request of an approval finds the plan waiting for it, and nobody at work.
LEMMA EmitOrder ==
    ASSUME Inv, Inv', CancelInv, CancelInv', OrderInv, NEW r \in Run, NEW q \in Run,
           EmitResume(r, q)
    PROVE  OrderInv'
<1> DEFINE a == run[r].apr
<1>0. /\ UNCHANGED <<wi, resume, intent, gate, approval, boot, progress, passed, dispatch, seg>>
      /\ current' = q /\ Mine(r) /\ run[r].at = "emit" /\ NextRun(q)
      /\ requested' = [requested EXCEPT ![a] = requested[a] + 1]
  BY DEF EmitResume, history
<1>1. OneHolder /\ Holding /\ Ordered /\ Gates /\ Recalls /\ ~boot
  BY DEF OrderInv, Ordered
<1>2. /\ run \in [Run -> RunType] /\ run[r] \in RunType /\ requested \in [Apr -> Nat]
      /\ \A b \in Apr : resume[b] \in 0..Steps /\ intent[b].from \in 0..Steps
  BY DEF Inv, TypeOK
<1>3. ~IsExecute(r) /\ run[r].at # "none"
  BY <1>0 DEF Inv, RunOK, Shaped, IsExecute, ApproveAts
<1>4. a \in Apr /\ approval[a] # "absent" /\ Recall(r)
  BY <1>3, ApproveFacts
<1>5. requested[a] = 0 /\ run[r].step \in passed /\ run[r].step = gate[a]
      /\ run[r].step \in Step
  <2>1. requested[a] = 0
    BY <1>0 DEF Inv, OnceOK, Sending
  <2>2. run[r].kind = "approve"
    BY <1>3, ApproveFacts, <1>2 DEF Inv, RunOK, Shaped, RunType, IsExecute
  <2>3. Shaped(run[r]) /\ Truthful(run[r])
    BY DEF Inv, RunOK
  <2> QED BY <1>0, <2>1, <2>2, <2>3 DEF Truthful, Shaped, Recording
<1>6. Waits(a)
  <2>1. intent[a].from > 0
    BY <1>0, <1>3, <1>4 DEF Recall
  <2> QED BY <1>2, <1>4, <1>5, <2>1 DEF Waits, Resumed
<1>7. \A p \in Run : ~Live(p)
  <2> SUFFICES ASSUME NEW p \in Run, Live(p) PROVE FALSE
    OBVIOUS
  <2>1. Stops(p)
    BY <1>1, <1>4, <1>6 DEF OneHolder
  <2>2. run[p].at \in {"pass", "close"}
    BY <2>1 DEF Stops, Stopped
  <2>3. p # r
    BY <1>0, <2>2
  <2> QED BY <1>0, <2>2, <2>3, OthersWait DEF Within, Handling
<1>8. wi = "waiting_approval" /\ dispatch.st \notin {"claimed", "error"}
  BY <1>1, <1>4, <1>6, <1>7 DEF Holding, Nobody
<1>9. Before(run[r].step + 1)
  <2>1. Before(run[r].step)
    BY <1>1, <1>4, <1>5 DEF Gates
  <2>2. run[r].step \in 0..Steps
    BY <1>2 DEF RunType
  <2> QED BY <1>5, <2>1, <2>2, BeforeNext
<1>10. Before(progress)
  BY <1>1, <1>4, <1>5, <1>6, <1>9 DEF Gates
<1>11. r # q
  BY <1>0, <1>3 DEF NextRun
<1>12. /\ run'[q].at = "emitted" /\ run'[q].kind = "execute" /\ run'[q].from = run[r].step + 1
       /\ \A p \in Run : p # r /\ p # q => run'[p] = run[p]
       /\ run'[r].at = "confirm" /\ run'[r].kind = run[r].kind /\ run'[r].apr = a
  <2>1. run' = [run EXCEPT ![r].at = "confirm",
                           ![q] = NewRun("execute", run[r].step + 1, 0, "", run[r].corr)]
    BY DEF EmitResume
  <2> QED BY <1>2, <1>11, <2>1 DEF NewRun, RunType
<1>13. requested'[a] = 1 /\ \A b \in Apr : b # a => requested'[b] = requested[b]
  BY <1>0, <1>2, <1>4, <1>5
<1>14. /\ \A p \in Run : p # q => ~Live(p)'
       /\ \A b \in Apr : ~Waits(b)'
  <2>1. \A p \in Run : p # q => ~Live(p)'
    BY <1>3, <1>7, <1>12 DEF Live, IsExecute
  <2>2. \A b \in Apr : b # a => ~Waits(b)
    BY <1>1, <1>4, <1>6 DEF OneHolder
  <2> QED BY <1>0, <1>4, <1>13, <2>1, <2>2 DEF Waits, Resumed
<1>15. Gates'
  BY <1>0, <1>1, <1>14 DEF Gates, Before
<1>16. Recalls'
  <2>1. Recall(r)'
    BY <1>4, <1>12, <1>13 DEF Recall
  <2>2. \A p \in Run : p # r => run'[p].at \notin Within
    BY <1>0, <1>12, OthersWait DEF Within, Handling
  <2>3. \A b \in Apr : intent'[b].sent => requested'[b] > 0
    BY <1>0, <1>1, <1>4, <1>13 DEF Recalls
  <2> QED BY <2>1, <2>2, <2>3, RecallsKept
<1>17. IsExecute(q)' /\ seg'.op \in {"idle", "run"} /\ Before(run'[q].from)
  BY <1>0, <1>9, <1>12 DEF IsExecute, Mine
<1> QED BY <1>0, <1>1, <1>8, <1>10, <1>12, <1>14, <1>15, <1>16, <1>17, Handed
----------------------------------------------------------------------------
(* A cancel, and every step together.                                      *)

LEMMA CancelBeside ==
    ASSUME Inv, Inv', CancelInv, CancelInv', OrderInv,
           Cancel \/ \E r \in Run : CancelRun(r)
    PROVE  OrderInv'
<1>0. /\ UNCHANGED <<wi, current, dispatch, progress, gate, resume, intent, requested, approval,
                     passed, boot>>
      /\ seg.op # "run" /\ seg'.op = "cancel"
  BY DEF Cancel, CancelRun, UserTurn, Turn, Idle, store, history
<1>1. run \in [Run -> RunType] /\ Recalls /\ ~boot /\ passed \subseteq Step
  BY DEF Inv, TypeOK, OrderInv
<1>2. \A q \in Run : \/ run'[q] = run[q]
                     \/ /\ run[q].at \in {"queued", "tool"} /\ run'[q].at = "cancelled"
                        /\ run'[q].kind = run[q].kind
  <2>1. CASE Cancel
    BY <2>1 DEF Cancel
  <2>2. ASSUME NEW r \in Run, CancelRun(r)
        PROVE  \A q \in Run : \/ run'[q] = run[q]
                              \/ /\ run[q].at \in {"queued", "tool"} /\ run'[q].at = "cancelled"
                                 /\ run'[q].kind = run[q].kind
    <3>1. run' = [run EXCEPT ![r].at = "cancelled"] /\ run[r].at \in {"queued", "tool"}
      BY <2>2 DEF CancelRun, Tracked
    <3> QED BY <1>1, <3>1 DEF RunType
  <2> QED BY <2>1, <2>2
<1>3. \A q \in Run : /\ Live(q)' => Live(q) /\ run'[q] = run[q]
                     /\ Live(q) /\ Stops(q) => Live(q)'
                     /\ Known(q) => Known(q)'
  BY <1>2 DEF Live, Stops, Stopped, Known, IsExecute, Working
<1>4. \A q \in Run : run'[q].at \notin Within
  BY <1>0, <1>2, NobodyWithin DEF Within, Handling
<1>5. Recalls'
  BY <1>0, <1>1, <1>4, RecallsStill DEF Recalls
<1>6. \A a \in Apr : Waits(a)' => Waits(a)
  BY <1>0 DEF Waits, Resumed
<1> QED BY <1>0, <1>1, <1>3, <1>5, <1>6, Beside

\* The rows of a cancelled item are gone before its status changes.
LEMMA CancelRows ==
    ASSUME Inv, Inv', CancelInv, CancelInv', OrderInv, CancelClears \/ CancelStamps
    PROVE  OrderInv'
<1>1. OneHolder /\ Holding /\ Ordered /\ Gates /\ Recalls /\ ~boot
  BY DEF OrderInv, Ordered
<1>2. /\ UNCHANGED <<run, current, dispatch, gate, requested, approval, passed, boot>>
      /\ seg.op \in {"cancel", "status"} /\ seg'.op \in {"status", "idle"}
      /\ wi' \in {wi, "cancelled"}
  BY DEF CancelClears, CancelStamps, store, history, Idle
<1>3. /\ progress' = 0 /\ \A a \in Apr : ~Waits(a)'
      /\ \A a \in Apr : intent'[a].sent => requested'[a] > 0
  <2>1. CASE CancelClears
    BY <2>1 DEF CancelClears, Waits, Resumed, NoIntent
  <2>2. CASE CancelStamps
    BY <1>1, <2>2 DEF CancelStamps, store, Holding, Waits, Resumed, Recalls
  <2> QED BY <2>1, <2>2
<1>4. dispatch'.st # "error"
  BY <1>2 DEF CancelInv, Flagged
<1>5. /\ \A q \in Run : /\ (Live(q)' <=> Live(q)) /\ (Known(q)' <=> Known(q))
                        /\ (Stopped(q)' <=> Stopped(q))
      /\ \A i : Before(i)' <=> Before(i)
  BY <1>2 DEF Live, Known, IsExecute, Stopped, Before
<1>6. Before(progress)'
  BY <1>3, BeforeZero, <1>5 DEF Before
<1>7. OneHolder'
  BY <1>1, <1>3, <1>5 DEF OneHolder
<1>8. Nobody => Nobody'
  BY <1>3, <1>5 DEF Nobody
<1>9. Holding'
  BY <1>1, <1>2, <1>3, <1>4, <1>5, <1>8 DEF Holding
<1>10. Gates'
  BY <1>1, <1>2, <1>3, <1>5 DEF Gates, Before
<1>11. \A q \in Run : Behind(q)'
  <2> SUFFICES ASSUME NEW q \in Run, Live(q)' PROVE Behind(q)'
    BY DEF Behind
  <2>1. Behind(q) /\ Live(q)
    BY <1>1, <1>5 DEF Ordered
  <2> QED BY <1>2, <1>5, <1>6, <2>1 DEF Behind, Before
<1>12. Recalls'
  <2>1. \A q \in Run : run'[q].at \notin Within
    BY <1>2, NobodyWithin
  <2> QED BY <1>3, <2>1, RecallsStill
<1>13. Ordered'
  BY <1>1, <1>2, <1>6, <1>10, <1>11 DEF Ordered
<1> QED BY <1>1, <1>2, <1>7, <1>9, <1>12, <1>13 DEF OrderInv

LEMMA StutterOrder ==
    ASSUME OrderInv, UNCHANGED vars
    PROVE  OrderInv'
<1>1. /\ \A q \in Run : /\ (Live(q)' <=> Live(q)) /\ (Known(q)' <=> Known(q))
                        /\ (Stops(q)' <=> Stops(q)) /\ (Stopped(q)' <=> Stopped(q))
                        /\ (Recall(q)' <=> Recall(q))
      /\ \A a \in Apr : Waits(a)' <=> Waits(a)
      /\ \A i : Before(i)' <=> Before(i)
      /\ UNCHANGED <<wi, current, dispatch, seg, boot, progress, passed, gate, approval,
                     intent, requested, run>>
  BY DEF vars, store, history, Live, Known, Stops, Stopped, Recall, IsExecute, Waits, Resumed, Before
<1>2. OneHolder' /\ Recalls'
  BY <1>1 DEF OrderInv, OneHolder, Recalls
<1>3. Holding'
  BY <1>1 DEF OrderInv, Holding, Nobody
<1>4. \A q \in Run : Behind(q)'
  <2> SUFFICES ASSUME NEW q \in Run, Live(q)' PROVE Behind(q)'
    BY DEF Behind
  <2>1. Behind(q) /\ Live(q)
    BY <1>1 DEF OrderInv, Ordered
  <2> QED BY <1>1, <2>1 DEF Behind, Before
<1>5. Ordered'
  BY <1>1, <1>4 DEF OrderInv, Ordered, Gates, Before
<1> QED BY <1>1, <1>2, <1>3, <1>5 DEF OrderInv

LEMMA RunStepOrder ==
    ASSUME Inv, Inv', CancelInv, CancelInv', OrderInv, NEW r \in Run, RunStep(r)
    PROVE  OrderInv'
<1>1. CASE IsExecute(r) /\ (Enqueue(r) \/ RecordIdem(r) \/ RecordStep(r))
  BY <1>1, ForwardSteps
<1>2. CASE ~IsExecute(r) /\ (Enqueue(r) \/ RecordIdem(r) \/ RecordStep(r))
  BY <1>2, ApproveMoves
<1>3. CASE PlanOver(r) \/ SkipStep(r) \/ CallStep(r) \/ StepReturns(r) \/ Progress(r)
  <2>1. IsExecute(r)
    BY <1>3 DEF PlanOver, SkipStep, CallStep, StepReturns, Progress, Inv, RunOK, Shaped, ExecuteAts,
                IsExecute
  <2> QED BY <1>3, <2>1, ForwardSteps
<1>4. CASE WaitForLock(r) \/ Acquire(r) \/ CallApproved(r) \/ ApprovedReturns(r) \/ Deny(r)
  <2>1. ~IsExecute(r)
    BY <1>4 DEF WaitForLock, Acquire, CallApproved, ApprovedReturns, Deny, Inv, RunOK, Shaped,
                ApproveAts, IsExecute
  <2> QED BY <1>4, <2>1, ApproveMoves
<1>5. CASE BeginExecute(r)
  BY <1>5, BeginOrder
<1>6. CASE Register(r) \/ PassPending(r) \/ \E a \in Apr : RequestApproval(r, a)
  BY <1>6, StopOrder
<1>7. CASE Close(r)
  BY <1>7, CloseOrder
<1>8. CASE Report(r) \/ Return(r)
  BY <1>8, EndsBeside
<1>9. CASE SaveIntent(r) \/ TakeResume(r) \/ ConfirmIntent(r) \/ DropIntent(r)
  BY <1>9, ApproveRows
<1>10. ASSUME NEW q \in Run, EmitResume(r, q) PROVE OrderInv'
  BY <1>10, EmitOrder
<1> QED BY <1>1, <1>2, <1>3, <1>4, <1>5, <1>6, <1>7, <1>8, <1>9, <1>10
        DEF RunStep, ExecuteStep, ApproveStep

LEMMA NextOrder ==
    ASSUME Inv, Inv', CancelInv, CancelInv', OrderInv, MaxCrashes = 0, MaxStale = 0, PromptLoop,
           [Next]_vars
    PROVE  OrderInv'
<1>1. ASSUME NEW r \in Run, RunStep(r) PROVE OrderInv'
  BY <1>1, RunStepOrder
<1>2. CASE Callback
  <2>1. ASSUME NEW r \in Run, RequestExecute(r) \/ DispatchSubmit(r) PROVE OrderInv'
    BY <2>1, BegunOrder
  <2>2. CASE \E r \in Run : CancelRun(r)
    BY <2>2, CancelBeside
  <2>3. CASE ExpireDenies
    BY <2>3, SweepBeside
  <2>4. CASE CancelClears \/ CancelStamps
    BY <2>4, CancelRows
  <2>5. ~RecoverWork
    BY DEF RecoverWork, OrderInv
  <2> QED BY <1>2, <2>1, <2>2, <2>3, <2>4, <2>5 DEF Callback
<1>3. CASE Environment
  <2>1. CASE Execute \/ DispatchClaim \/ DispatchFails
    BY <2>1, RequestOrder
  <2>2. ASSUME NEW r \in Run, NEW a \in Apr, Decide(r, a, "approve") \/ Decide(r, a, "deny")
        PROVE  OrderInv'
    BY <2>2, ApproveComes
  <2>3. ASSUME NEW r \in Run, HandlerTimesOut(r) PROVE OrderInv'
    BY <2>3, ApproveComes, TimeoutOrder
  <2>4. CASE \E a \in Apr : Expire(a)
    BY <2>4, SweepBeside
  <2>5. CASE Cancel
    BY <2>5, CancelBeside
  <2>6. ~Crash
    <3>1. spent["crashes"] \in Nat
      BY DEF Inv, TypeOK, Costs
    <3> QED BY <3>1 DEF Crash
  <2> QED BY <1>3, <2>1, <2>2, <2>3, <2>4, <2>5, <2>6 DEF Environment
<1>4. CASE UNCHANGED vars
  BY <1>4, StutterOrder
<1> QED BY <1>1, <1>2, <1>3, <1>4 DEF Next

LEMMA OrderCorrect ==
    ASSUME MaxCrashes = 0, MaxStale = 0, PromptLoop
    PROVE  Spec => []OrderInv
<1>1. Init => OrderInv
  BY InitOrder
<1>2. /\ Inv /\ Inv' /\ CancelInv /\ CancelInv' /\ OrderInv /\ [Next]_vars => OrderInv'
  BY NextOrder
<1> QED BY <1>1, <1>2, InvCorrect, CancelCorrect, PTL DEF Spec

\* As long as the process does not die, no background dispatch outlives its
\* timeout and a failed one is told so before the next request of a user, an
\* item that says completed has done every step of its plan: whatever was
\* approved, denied, expired, timed out, cancelled and tried again on the way,
\* nothing is skipped (CompletedMeansDone; run_plan_steps, mark_completed).
THEOREM CompletedCorrect ==
    ASSUME MaxCrashes = 0, MaxStale = 0, PromptLoop
    PROVE  Spec => []CompletedMeansDone
<1>1. OrderInv => CompletedMeansDone
  BY DEF OrderInv, Ordered, CompletedMeansDone
<1> QED BY <1>1, OrderCorrect, PTL

\* Under the same assumptions a tool is called only when the tools of all
\* earlier steps have succeeded: neither the explicit cursor of a resumption nor
\* the progress row carries a handler past a step that is still to do
\* (StepsInOrder; run_plan_steps, on_approve_requested).
THEOREM InOrderCorrect ==
    ASSUME MaxCrashes = 0, MaxStale = 0, PromptLoop
    PROVE  Spec => StepsInOrder
<1> DEFINE InOrder == \A i \in Step : calls'[i] # calls[i]
                          => \A j \in 0..(i - 1) : j \in passed
<1>1. \A i \in Step : Before(i) => \A j \in 0..(i - 1) : j \in passed
  BY PlanApprovalAssumption DEF Before, Step
<1>2. ASSUME Inv, OrderInv, [Next]_vars
      PROVE  [InOrder]_calls
  <2>1. ASSUME NEW r \in Run, CallStep(r) PROVE InOrder
    <3>1. calls' = [calls EXCEPT ![run[r].step] = calls[run[r].step] + 1] /\ run[r].at = "step"
      BY <2>1 DEF CallStep
    <3>2. Before(run[r].step)
      <4>1. IsExecute(r)
        BY <3>1, <1>2 DEF Inv, RunOK, Shaped, ExecuteAts, IsExecute
      <4> QED BY <1>2, <3>1, <4>1 DEF OrderInv, Ordered, Behind, Live, Working
    <3>3. \A i \in Step : calls'[i] # calls[i] => i = run[r].step
      BY <1>2, <3>1 DEF Inv, TypeOK
    <3> QED BY <1>1, <3>2, <3>3
  <2>2. ASSUME NEW r \in Run, CallApproved(r) PROVE InOrder
    <3> DEFINE i == gate[run[r].apr]
    <3>1. calls' = [calls EXCEPT ![i] = calls[i] + 1] /\ run[r].at = "call"
      BY <2>2 DEF CallApproved
    <3>2. run[r].apr \in Apr /\ approval[run[r].apr] # "absent"
      BY <1>2, <3>1 DEF Inv, RunOK, Shaped, ApproveAts
    <3>3. Before(i)
      BY <1>2, <3>2 DEF OrderInv, Ordered, Gates
    <3>4. \A j \in Step : calls'[j] # calls[j] => j = i
      BY <1>2, <3>1 DEF Inv, TypeOK
    <3> QED BY <1>1, <3>3, <3>4
  <2>3. ASSUME NEW r \in Run, RunStep(r) PROVE [InOrder]_calls
    <3>1. CASE CallStep(r) \/ CallApproved(r)
      BY <3>1, <2>1, <2>2
    <3>2. CASE ~(CallStep(r) \/ CallApproved(r))
      <4>1. calls' = calls
        BY <2>3, <3>2 DEF RunStep, ExecuteStep, ApproveStep, Enqueue, RecordIdem,
             RecordStep, Return, BeginExecute, PlanOver, SkipStep, RequestApproval, Register,
             PassPending, StepReturns, Progress, Close, Report, WaitForLock, Acquire,
             ApprovedReturns, SaveIntent, TakeResume, EmitResume, ConfirmIntent, DropIntent, Deny,
             history
      <4> QED BY <4>1
    <3> QED BY <3>1, <3>2
  <2>4. CASE Callback
    <3>1. calls' = calls
      BY <2>4 DEF Callback, RequestExecute, DispatchSubmit, CancelRun, ExpireDenies, CancelClears,
                  CancelStamps, RecoverWork, history
    <3> QED BY <3>1
  <2>5. CASE Environment
    <3>1. calls' = calls
      BY <2>5 DEF Environment, Execute, DispatchClaim, DispatchFails, Decide, HandlerTimesOut,
                  Expire, Cancel, Crash, history
    <3> QED BY <3>1
  <2>6. CASE UNCHANGED vars
    BY <2>6 DEF vars, history
  <2> QED BY <1>2, <2>3, <2>4, <2>5, <2>6 DEF Next
<1> QED BY <1>2, InvCorrect, OrderCorrect, PTL DEF Spec, StepsInOrder
----------------------------------------------------------------------------
(***************************************************************************)
(* Every call of a step is paid for.  What may still call a step is        *)
(* counted with the calls made, and together they never exceed the first   *)
(* call and what the restarts, deaths and requests allow.                  *)
(***************************************************************************)

\* An execute handler that may still call step i.
MayCall(r, i) ==
    /\ IsExecute(r)
    /\ \/ run[r].at \in {"emitted", "queued"} /\ run[r].from <= i
       \/ run[r].at = "step" /\ run[r].step <= i
       \/ run[r].at \in {"tool", "idem", "stepres", "progress"} /\ run[r].step < i
Callers(i) == {r \in Run : MayCall(r, i)}

\* An approval that may still pay for step i, or send a plan on to it.
MayPay(a, i) ==
    /\ approval[a] # "absent"
    /\ \/ i = gate[a] /\ used[a] = 0
       \/ i > gate[a] /\ requested[a] = 0
Payers(i) == {a \in Apr : MayPay(a, i)}

\* A new execution of the item that is waiting to be claimed, is about to be
\* logged, or may be found missing by a boot.
One(b) == IF b THEN 1 ELSE 0
Coming == One(wi = "pending") + One(dispatch.st = "claimed") + One(seg.op = "request") + One(boot)

PaidFor ==
    \A i \in Step :
        calls[i] + Cardinality(Callers(i)) + Cardinality(Payers(i)) + Coming <= 1 + Failures

\* A run whose event is not logged yet has not been retried.
Fresh == \A r \in Run : run[r].at = "none" => run[r].retry = 0
PaidInv == Fresh /\ PaidFor

\* What the numbers count is finite.
LEMMA Finite ==
    /\ IsFiniteSet(Run) /\ IsFiniteSet(Apr) /\ IsFiniteSet(Run \X (1..MaxRetries))
<1>1. IsFiniteSet(Run) /\ IsFiniteSet(Apr) /\ IsFiniteSet(1..MaxRetries)
  BY FS_Interval, PlanApprovalAssumption DEF Run, Apr
<1> QED BY <1>1, FS_Product

LEMMA Fewer ==
    ASSUME NEW S, IsFiniteSet(S), NEW T, T \subseteq S
    PROVE  /\ IsFiniteSet(T) /\ Cardinality(T) \in Nat /\ Cardinality(S) \in Nat
           /\ Cardinality(T) <= Cardinality(S)
BY FS_Subset, FS_CardinalityType

LEMMA OneMore ==
    ASSUME NEW S, IsFiniteSet(S), NEW x, NEW T, T \subseteq S \union {x}
    PROVE  Cardinality(T) <= Cardinality(S) + 1
<1>1. IsFiniteSet(S \union {x}) /\ Cardinality(S \union {x}) <= Cardinality(S) + 1
  <2>1. Cardinality(S) \in Nat
    BY FS_CardinalityType
  <2> QED BY <2>1, FS_AddElement
<1>2. Cardinality(T) <= Cardinality(S \union {x})
  BY <1>1, Fewer
<1> QED BY <1>1, <1>2, Fewer, FS_CardinalityType

LEMMA OneLess ==
    ASSUME NEW S, IsFiniteSet(S), NEW x \in S, NEW T, T \subseteq S \ {x}
    PROVE  Cardinality(T) + 1 <= Cardinality(S)
<1>1. IsFiniteSet(S \ {x}) /\ Cardinality(S \ {x}) = Cardinality(S) - 1
  BY FS_RemoveElement
<1>2. Cardinality(T) <= Cardinality(S \ {x})
  BY <1>1, Fewer
<1> QED BY <1>1, <1>2, Fewer, FS_CardinalityType

Counted ==
    /\ \A i \in Step : /\ calls[i] \in Nat
                       /\ IsFiniteSet(Callers(i)) /\ Cardinality(Callers(i)) \in Nat
                       /\ IsFiniteSet(Payers(i)) /\ Cardinality(Payers(i)) \in Nat
    /\ IsFiniteSet(Retried) /\ Cardinality(Retried) \in Nat
    /\ Coming \in Nat /\ spent["crashes"] \in Nat /\ spent["starts"] \in Nat

LEMMA Counts == Inv => Counted
<1> SUFFICES ASSUME Inv PROVE Counted
  OBVIOUS
<1>1. ASSUME NEW i \in Step
      PROVE  /\ IsFiniteSet(Callers(i)) /\ Cardinality(Callers(i)) \in Nat
             /\ IsFiniteSet(Payers(i)) /\ Cardinality(Payers(i)) \in Nat
  <2>1. Callers(i) \subseteq Run /\ Payers(i) \subseteq Apr
    BY DEF Callers, Payers
  <2> QED BY <2>1, Finite, Fewer
<1>2. IsFiniteSet(Retried) /\ Cardinality(Retried) \in Nat
  <2>1. Retried \subseteq Run \X (1..MaxRetries)
    BY DEF Retried
  <2> QED BY <2>1, Finite, Fewer
<1>3. Coming \in Nat
  BY DEF Coming, One
<1>4. spent["crashes"] \in Nat /\ spent["starts"] \in Nat /\ \A i \in Step : calls[i] \in Nat
  BY DEF Inv, TypeOK, Costs
<1> QED BY <1>1, <1>2, <1>3, <1>4 DEF Counted

LEMMA CountsNext == Inv' => Counted'
BY Counts, PTL

\* One step of the account: who may call or pay, and what has been called, on
\* one side, what it is paid from on the other.
Account(i) == calls[i] + Cardinality(Callers(i)) + Cardinality(Payers(i)) + Coming

LEMMA Balance ==
    ASSUME Inv, Inv', PaidFor,
           \A i \in Step : Account(i)' + Failures <= Account(i) + Failures'
    PROVE  PaidFor'
<1> SUFFICES ASSUME NEW i \in Step PROVE Account(i)' <= 1 + Failures'
  BY DEF PaidFor, Account
<1>1. Account(i) <= 1 + Failures
  BY DEF PaidFor, Account
<1>2. Account(i) \in Nat /\ Account(i)' \in Nat /\ Failures \in Nat /\ Failures' \in Nat
  BY Counts, CountsNext DEF Account, Failures, Counted
<1>3. Account(i)' + Failures <= Account(i) + Failures'
  OBVIOUS
<1> HIDE DEF Account, Failures
<1> QED BY <1>1, <1>2, <1>3

LEMMA InitPaid == Init => PaidFor
<1> SUFFICES ASSUME Init, NEW i \in Step
             PROVE  calls[i] + Cardinality(Callers(i)) + Cardinality(Payers(i)) + Coming
                        <= 1 + Failures
  BY DEF PaidFor
<1>1. Callers(i) = {} /\ Payers(i) = {} /\ calls[i] = 0
  BY DEF Init, Callers, Payers, MayCall, MayPay, IsExecute, NoRun
<1>2. Coming = 1
  BY DEF Init, Coming, One, Idle
<1>3. Retried = {}
  <2>1. \A r \in Run : run[r].retry = 0
    BY DEF Init, NoRun
  <2> QED BY <2>1, PlanApprovalAssumption DEF Retried
<1>4. Failures = 0
  BY <1>3, FS_EmptySet DEF Failures, Init, Costs
<1> QED BY <1>1, <1>2, <1>4, FS_EmptySet

LEMMA ComingKept ==
    ASSUME wi' = "pending" => wi = "pending",
           dispatch'.st = "claimed" => dispatch.st = "claimed",
           seg'.op = "request" => seg.op = "request", boot' => boot
    PROVE  Coming' <= Coming
<1>1. /\ One(wi = "pending")' \in 0..1 /\ One(wi = "pending") \in 0..1
      /\ One(wi = "pending")' <= One(wi = "pending")
  BY DEF One
<1>2. /\ One(dispatch.st = "claimed")' \in 0..1 /\ One(dispatch.st = "claimed") \in 0..1
      /\ One(dispatch.st = "claimed")' <= One(dispatch.st = "claimed")
  BY DEF One
<1>3. /\ One(seg.op = "request")' \in 0..1 /\ One(seg.op = "request") \in 0..1
      /\ One(seg.op = "request")' <= One(seg.op = "request")
  BY DEF One
<1>4. One(boot)' \in 0..1 /\ One(boot) \in 0..1 /\ One(boot)' <= One(boot)
  BY DEF One
<1> HIDE DEF One
<1> QED BY <1>1, <1>2, <1>3, <1>4 DEF Coming

LEMMA SameFailures ==
    ASSUME \A r \in Run : run'[r].retry = run[r].retry,
           spent'["crashes"] = spent["crashes"], spent'["starts"] = spent["starts"]
    PROVE  Failures' = Failures
<1>1. Retried' = Retried
  BY DEF Retried
<1> QED BY <1>1 DEF Failures

\* A step that calls nothing and adds no caller, payer or execution.
LEMMA QuietPaid ==
    ASSUME Inv, Inv', PaidFor, calls' = calls, Coming' <= Coming,
           \A i \in Step : Callers(i)' \subseteq Callers(i) /\ Payers(i)' \subseteq Payers(i),
           \A r \in Run : run'[r].retry = run[r].retry,
           spent'["crashes"] = spent["crashes"], spent'["starts"] = spent["starts"]
    PROVE  PaidFor'
<1>2. Failures' = Failures
  BY SameFailures
<1>3. ASSUME NEW i \in Step
      PROVE  /\ Cardinality(Callers(i)') <= Cardinality(Callers(i))
             /\ Cardinality(Payers(i)') <= Cardinality(Payers(i))
  BY Counts, Fewer DEF Counted
<1>4. Failures \in Nat
  BY Counts DEF Failures, Counted
<1>5. \A i \in Step : Account(i)' + Failures <= Account(i) + Failures'
  BY <1>2, <1>3, <1>4, Counts, CountsNext DEF Account, Counted
<1> QED BY <1>5, Balance
----------------------------------------------------------------------------
(* Steps that add nothing to the account.                                  *)

LEMMA QuietRun ==
    ASSUME Inv, Inv', PaidInv, NEW r \in Run, \A q \in Run : q # r => run'[q] = run[q],
           run'[r].retry = run[r].retry, run'[r].at # "none",
           \A i \in Step : MayCall(r, i)' => MayCall(r, i),
           \A a \in Apr : approval'[a] # "absent" => approval[a] # "absent",
           UNCHANGED <<gate, used, requested, calls>>,
           spent'["crashes"] = spent["crashes"], spent'["starts"] = spent["starts"],
           wi' = "pending" => wi = "pending",
           dispatch'.st = "claimed" => dispatch.st = "claimed",
           seg'.op = "request" => seg.op = "request", boot' => boot
    PROVE  PaidInv'
<1>1. ASSUME NEW i \in Step
      PROVE  Callers(i)' \subseteq Callers(i) /\ Payers(i)' \subseteq Payers(i)
  <2>1. \A q \in Run : MayCall(q, i)' => MayCall(q, i)
    BY DEF MayCall, IsExecute
  <2>2. \A a \in Apr : MayPay(a, i)' => MayPay(a, i)
    BY DEF MayPay
  <2> QED BY <2>1, <2>2 DEF Callers, Payers
<1>2. \A q \in Run : run'[q].retry = run[q].retry
  OBVIOUS
<1>3. PaidFor'
  BY <1>1, <1>2, ComingKept, QuietPaid DEF PaidInv
<1>4. Fresh'
  BY <1>2 DEF Fresh, PaidInv
<1> QED BY <1>3, <1>4 DEF PaidInv

\* The cursor of a handler that begins is not before that of its event.
LEMMA BeginPaid ==
    ASSUME Inv, Inv', PaidInv, NEW r \in Run, BeginExecute(r)
    PROVE  PaidInv'
<1>1. /\ UNCHANGED <<approval, gate, used, requested, calls, spent, dispatch, boot>>
      /\ seg'.op = "run" /\ wi' \in {wi, "running"} /\ run[r].at = "queued" /\ IsExecute(r)
  BY DEF BeginExecute, store, history
<1>2. run \in [Run -> RunType] /\ run[r] \in RunType /\ run[r].from \in 0..Steps
  BY DEF Inv, TypeOK, RunType
<1>3. /\ \A q \in Run : q # r => run'[q] = run[q]
      /\ run'[r].retry = run[r].retry
      /\ \/ run'[r].at = "report"
         \/ run'[r].at = "step" /\ run'[r].step = Cursor(r)
  <2>1. CASE CancelSeen(r)
    <3>1. run' = [run EXCEPT ![r].at = "report", ![r].out = "cancelled"]
      BY <2>1 DEF BeginExecute
    <3> QED BY <1>2, <3>1 DEF RunType
  <2>2. CASE ~CancelSeen(r)
    <3>1. run' = [run EXCEPT ![r].at = "step", ![r].step = Cursor(r)]
      BY <2>2 DEF BeginExecute
    <3> QED BY <1>2, <3>1 DEF RunType
  <2> QED BY <2>1, <2>2
<1>4. ASSUME NEW i \in Step, MayCall(r, i)' PROVE MayCall(r, i)
  <2>1. Cursor(r) <= i
    BY <1>3, <1>4 DEF MayCall
  <2>2. i \in Nat
    BY DEF Step
  <2>3. run[r].from <= i
    BY <1>2, <2>1, <2>2 DEF Cursor
  <2> QED BY <1>1, <2>3 DEF MayCall
<1> QED BY <1>1, <1>3, <1>4, QuietRun

\* The other steps of an execute handler leave it at the step it is at or
\* behind it.
LEMMA ExecutePaid ==
    ASSUME Inv, Inv', PaidInv, NEW r \in Run,
           \/ PlanOver(r) \/ SkipStep(r) \/ Register(r) \/ PassPending(r) \/ StepReturns(r)
           \/ Progress(r) \/ Close(r) \/ Report(r)
    PROVE  PaidInv'
<1>1. /\ UNCHANGED <<approval, gate, used, requested, calls, spent, boot>>
      /\ wi' = "pending" => wi = "pending"
      /\ dispatch'.st = "claimed" => dispatch.st = "claimed"
  <2>1. CASE Close(r)
    <3>1. run[r].out \in {"completed", "pending", "failed", "cancelled"}
      BY <2>1 DEF Close, Inv, TypeOK, RunOK, Shaped, RunType, Outs
    <3> QED BY <2>1, <3>1 DEF Close, StatusOf, store, history
  <2>2. CASE Report(r)
    BY <2>2 DEF Report, store, history, Inv, TypeOK
  <2>3. CASE ~Close(r) /\ ~Report(r)
    BY <2>3 DEF PlanOver, SkipStep, Register, PassPending, StepReturns, Progress, store, history
  <2> QED BY <2>1, <2>2, <2>3
<1>2. run \in [Run -> RunType] /\ run[r] \in RunType /\ run[r].step \in 0..Steps
  BY DEF Inv, TypeOK, RunType
<1>3. seg'.op = "run"
  BY DEF PlanOver, SkipStep, Register, PassPending, StepReturns, Progress, Close, Report, Go, Mine
<1>4. /\ \A q \in Run : q # r => run'[q] = run[q]
      /\ run'[r].retry = run[r].retry /\ run'[r].kind = run[r].kind
      /\ \/ run'[r].at \in {"close", "pass", "report", "return"}
         \/ run[r].at = "step" /\ run'[r].at = "step" /\ run'[r].step = run[r].step + 1
         \/ run[r].at = "tool" /\ run'[r].at = "idem" /\ run'[r].step = run[r].step
         \/ run[r].at = "progress" /\ run'[r].at = "step" /\ run'[r].step = run[r].step + 1
  <2>1. CASE PlanOver(r)
    BY <1>2, <2>1 DEF PlanOver, RunType
  <2>2. CASE SkipStep(r)
    BY <1>2, <2>2 DEF SkipStep, RunType
  <2>3. CASE Register(r) \/ Close(r)
    <3>1. PICK at \in {"pass", "report"} : run' = [run EXCEPT ![r].at = at]
      BY <2>3 DEF Register, Close, Go
    <3> QED BY <1>2, <3>1 DEF RunType
  <2>4. CASE PassPending(r)
    BY <1>2, <2>4 DEF PassPending, RunType
  <2>5. CASE StepReturns(r)
    <3>1. CASE run' = [run EXCEPT ![r].at = "idem"]
      BY <1>2, <2>5, <3>1 DEF StepReturns, RunType
    <3>2. CASE run' = [run EXCEPT ![r].at = "close", ![r].out = "cancelled"]
      BY <1>2, <3>2 DEF RunType
    <3>3. CASE run' = [run EXCEPT ![r].at = "close", ![r].out = "failed"]
      BY <1>2, <3>3 DEF RunType
    <3> QED BY <2>5, <3>1, <3>2, <3>3 DEF StepReturns
  <2>6. CASE Progress(r)
    BY <1>2, <2>6 DEF Progress, RunType
  <2>7. CASE Report(r)
    BY <1>2, <2>7 DEF Report, RunType
  <2> QED BY <2>1, <2>2, <2>3, <2>4, <2>5, <2>6, <2>7
<1>5. ASSUME NEW i \in Step, MayCall(r, i)' PROVE MayCall(r, i)
  <2>1. i \in Nat /\ run[r].step \in Nat
    BY <1>2 DEF Step
  <2> QED BY <1>4, <1>5, <2>1 DEF MayCall, IsExecute
<1> QED BY <1>1, <1>3, <1>4, <1>5, QuietRun

LEMMA EitherPaid ==
    ASSUME Inv, Inv', PaidInv, NEW r \in Run,
           Enqueue(r) \/ RecordIdem(r) \/ RecordStep(r) \/ Return(r)
    PROVE  PaidInv'
<1>1. /\ UNCHANGED <<approval, gate, used, requested, calls, spent, boot, wi, dispatch>>
      /\ seg'.op \in {"run", "idle"}
  BY DEF Enqueue, RecordIdem, RecordStep, Return, Go, store, history, Idle, Turn
<1>2. run \in [Run -> RunType] /\ run[r] \in RunType
  BY DEF Inv, TypeOK
<1>3. PICK at : /\ run' = [run EXCEPT ![r].at = at]
                /\ \/ run[r].at = "emitted" /\ at = "queued"
                   \/ run[r].at = "idem" /\ at = "stepres"
                   \/ run[r].at = "stepres" /\ at \in {"progress", "confirm", "intent"}
                   \/ at = "done"
  BY DEF Enqueue, RecordIdem, RecordStep, Return, Go
<1>4. /\ \A q \in Run : q # r => run'[q] = run[q]
      /\ run'[r].retry = run[r].retry /\ run'[r].kind = run[r].kind
      /\ run'[r].at = at /\ run'[r].step = run[r].step /\ run'[r].from = run[r].from
  BY <1>2, <1>3 DEF RunType
<1>5. ASSUME NEW i \in Step, MayCall(r, i)' PROVE MayCall(r, i)
  <2>1. CASE at = "queued"
    BY <1>3, <1>4, <1>5, <2>1 DEF MayCall, IsExecute
  <2>2. CASE at = "stepres"
    BY <1>3, <1>4, <1>5, <2>2 DEF MayCall, IsExecute
  <2>3. CASE at = "progress"
    BY <1>3, <1>4, <1>5, <2>3 DEF MayCall, IsExecute
  <2> QED BY <1>3, <1>4, <1>5, <2>1, <2>2, <2>3 DEF MayCall
<1> QED BY <1>1, <1>3, <1>4, <1>5, QuietRun

LEMMA ApprovePaid ==
    ASSUME Inv, Inv', PaidInv, NEW r \in Run,
           \/ WaitForLock(r) \/ Acquire(r) \/ ApprovedReturns(r) \/ SaveIntent(r)
           \/ TakeResume(r) \/ ConfirmIntent(r) \/ DropIntent(r) \/ Deny(r)
    PROVE  PaidInv'
<1>1. /\ UNCHANGED <<gate, used, requested, calls, spent, boot, wi, dispatch>>
      /\ seg'.op \in {"run", "idle"}
  BY DEF WaitForLock, Acquire, ApprovedReturns, SaveIntent, TakeResume, ConfirmIntent, DropIntent,
         Deny, Go, store, history, Idle, Turn
<1>2. run \in [Run -> RunType] /\ run[r] \in RunType
  BY DEF Inv, TypeOK
<1>3. ~IsExecute(r) /\ run[r].at # "none"
  BY DEF WaitForLock, Acquire, ApprovedReturns, SaveIntent, TakeResume, ConfirmIntent, DropIntent,
         Deny, Inv, RunOK, Shaped, IsExecute, ApproveAts
<1>4. \E at : /\ at # "none"
               /\ \/ run' = [run EXCEPT ![r].at = at]
                  \/ \E i : run' = [run EXCEPT ![r].at = at, ![r].step = i]
  BY DEF WaitForLock, Acquire, ApprovedReturns, SaveIntent, TakeResume, ConfirmIntent, DropIntent,
         Deny, Go
<1>5. /\ \A q \in Run : q # r => run'[q] = run[q]
      /\ run'[r].retry = run[r].retry /\ run'[r].kind = run[r].kind /\ run'[r].at # "none"
  <2>1. PICK at : /\ at # "none"
                  /\ \/ run' = [run EXCEPT ![r].at = at]
                     \/ \E i : run' = [run EXCEPT ![r].at = at, ![r].step = i]
    BY <1>4
  <2>2. CASE run' = [run EXCEPT ![r].at = at]
    BY <1>2, <2>1, <2>2 DEF RunType
  <2>3. CASE \E i : run' = [run EXCEPT ![r].at = at, ![r].step = i]
    BY <1>2, <2>1, <2>3 DEF RunType
  <2> QED BY <2>1, <2>2, <2>3
<1>6. \A a \in Apr : approval'[a] # "absent" => approval[a] # "absent"
  <2>1. run[r].apr \in Apr /\ approval[run[r].apr] # "absent"
    BY <1>2, <1>3 DEF Inv, RunOK, Shaped, RunType, IsExecute
  <2>2. CASE Acquire(r)
    <3>1. approval' = approval \/ approval' = [approval EXCEPT ![run[r].apr] = "approved"]
      BY <2>2 DEF Acquire
    <3> QED BY <2>1, <3>1 DEF Inv, TypeOK
  <2>3. CASE Deny(r)
    <3>1. Denied(run[r].apr, "denied")
      BY <2>3 DEF Deny
    <3> QED BY <2>1, <3>1, DeniedFacts
  <2>4. CASE ~Acquire(r) /\ ~Deny(r)
    BY <2>4 DEF WaitForLock, ApprovedReturns, SaveIntent, TakeResume, ConfirmIntent, DropIntent,
                store
  <2> QED BY <2>2, <2>3, <2>4
<1>7. \A i \in Step : ~MayCall(r, i)'
  BY <1>3, <1>5 DEF MayCall, IsExecute
<1> QED BY <1>1, <1>5, <1>6, <1>7, QuietRun

\* The runs are left alone.
LEMMA StillPaid ==
    ASSUME Inv, Inv', PaidInv, UNCHANGED <<run, gate, used, requested, calls>>,
           \A a \in Apr : approval'[a] # "absent" => approval[a] # "absent",
           spent'["crashes"] = spent["crashes"], spent'["starts"] = spent["starts"],
           Coming' <= Coming
    PROVE  PaidInv'
<1>1. ASSUME NEW i \in Step
      PROVE  Callers(i)' \subseteq Callers(i) /\ Payers(i)' \subseteq Payers(i)
  <2>1. \A q \in Run : MayCall(q, i)' => MayCall(q, i)
    BY DEF MayCall, IsExecute
  <2>2. \A a \in Apr : MayPay(a, i)' => MayPay(a, i)
    BY DEF MayPay
  <2> QED BY <2>1, <2>2 DEF Callers, Payers
<1>2. PaidFor'
  BY <1>1, QuietPaid DEF PaidInv
<1>3. Fresh'
  BY DEF Fresh, PaidInv
<1> QED BY <1>2, <1>3 DEF PaidInv

LEMMA SurroundPaid ==
    ASSUME Inv, Inv', PaidInv,
           \/ DispatchClaim \/ DispatchFails \/ (\E a \in Apr : Expire(a)) \/ ExpireDenies
           \/ Cancel \/ CancelClears \/ CancelStamps \/ RecoverWork
    PROVE  PaidInv'
<1>1. UNCHANGED <<run, gate, used, requested, calls>>
  BY DEF DispatchClaim, DispatchFails, Expire, ExpireDenies, Cancel, CancelClears, CancelStamps,
         RecoverWork, store, history
<1>2. spent'["crashes"] = spent["crashes"] /\ spent'["starts"] = spent["starts"]
  <2>1. CASE DispatchFails
    BY <2>1 DEF DispatchFails, Spend, Inv, TypeOK, Costs
  <2>2. CASE ~DispatchFails
    BY <2>2 DEF DispatchClaim, Expire, ExpireDenies, Cancel, CancelClears, CancelStamps,
                RecoverWork
  <2> QED BY <2>1, <2>2
<1>3. \A a \in Apr : approval'[a] # "absent" => approval[a] # "absent"
  <2>1. CASE ExpireDenies
    <3>1. approval' = [approval EXCEPT ![seg.id] =
                           IF approval[seg.id] = "pending" THEN "expired" ELSE approval[seg.id]]
      BY <2>1 DEF ExpireDenies, Denied
    <3> QED BY <3>1 DEF Inv, TypeOK
  <2>2. CASE ~ExpireDenies
    BY <2>2 DEF DispatchClaim, DispatchFails, Expire, Cancel, CancelClears, CancelStamps,
                RecoverWork, store
  <2> QED BY <2>1, <2>2
<1>4. Coming' <= Coming
  <2>1. CASE DispatchClaim
    BY <2>1 DEF DispatchClaim, Coming, One, Turn
  <2>2. CASE RecoverWork
    BY <2>2 DEF RecoverWork, Coming, One
  <2>3. CASE ~DispatchClaim /\ ~RecoverWork
    <3>1. /\ wi' = "pending" => wi = "pending"
          /\ dispatch'.st = "claimed" => dispatch.st = "claimed"
          /\ seg'.op = "request" => seg.op = "request"
          /\ boot' => boot
      BY <2>3 DEF DispatchFails, Expire, ExpireDenies, Cancel, CancelClears, CancelStamps,
                  RecoverWork, Idle
    <3> QED BY <3>1, ComingKept
  <2> QED BY <2>1, <2>2, <2>3
<1> QED BY <1>1, <1>2, <1>3, <1>4, StillPaid

LEMMA CancelRunPaid ==
    ASSUME Inv, Inv', PaidInv, NEW r \in Run, CancelRun(r)
    PROVE  PaidInv'
<1>1. UNCHANGED <<approval, gate, used, requested, calls, spent, wi, dispatch, seg, boot>>
  BY DEF CancelRun, store, history
<1>2. run \in [Run -> RunType] /\ run[r] \in RunType
  BY DEF Inv, TypeOK
<1>3. run' = [run EXCEPT ![r].at = "cancelled"]
  BY DEF CancelRun
<1>4. /\ \A q \in Run : q # r => run'[q] = run[q]
      /\ run'[r].retry = run[r].retry /\ run'[r].at = "cancelled"
  BY <1>2, <1>3 DEF RunType
<1>5. \A i \in Step : ~MayCall(r, i)'
  BY <1>4 DEF MayCall
<1> QED BY <1>1, <1>4, <1>5, QuietRun

\* A click starts an approve handler, which is no caller.
LEMMA DecidePaid ==
    ASSUME Inv, Inv', PaidInv, NEW r \in Run, NEW a \in Apr, NEW d \in {"approve", "deny"},
           Decide(r, a, d)
    PROVE  PaidInv'
<1>1. /\ UNCHANGED <<approval, gate, used, requested, calls, wi, dispatch, seg, boot>>
      /\ run[r].at = "none"
      /\ run' = [run EXCEPT ![r] = NewRun("approve", 0, a, d, r)]
      /\ Spend("commands")
  BY DEF Decide, NextRun, store, history
<1>2. spent'["crashes"] = spent["crashes"] /\ spent'["starts"] = spent["starts"]
  BY <1>1 DEF Spend, Inv, TypeOK, Costs
<1>3. /\ \A q \in Run : q # r => run'[q] = run[q]
      /\ run'[r] = NewRun("approve", 0, a, d, r)
  BY <1>1 DEF Inv, TypeOK
<1>4. run'[r].retry = 0 /\ run'[r].kind = "approve" /\ run'[r].at = "emitted"
  <2>1. r \in 0..MaxRuns /\ a \in 0..MaxApr
    BY DEF Run, Apr
  <2> DEFINE new == NewRun("approve", 0, a, d, r)
  <2>2. new.kind = "approve" /\ new.at = "emitted" /\ new.retry = 0
    BY DEF NewRun
  <2>3. run'[r] = new
    BY <1>3
  <2> HIDE DEF new
  <2> QED BY <2>2, <2>3
<1>5. run[r].retry = 0
  BY <1>1 DEF PaidInv, Fresh
<1>6. \A i \in Step : ~MayCall(r, i)'
  BY <1>4 DEF MayCall, IsExecute
<1> QED BY <1>1, <1>2, <1>3, <1>4, <1>5, <1>6, QuietRun
----------------------------------------------------------------------------
(* Steps that move what is counted from one side of an account to the      *)
(* other.                                                                  *)

\* The failures are as many as before, and no account grows.
LEMMA EvenPaid ==
    ASSUME Inv, Inv', PaidInv, \A q \in Run : run'[q].retry = run[q].retry,
           \A q \in Run : run'[q].at = "none" => run[q].at = "none",
           spent'["crashes"] = spent["crashes"], spent'["starts"] = spent["starts"],
           \A i \in Step : Account(i)' <= Account(i)
    PROVE  PaidInv'
<1>1. Failures' = Failures
  BY SameFailures
<1>2. Failures \in Nat
  BY Counts DEF Failures, Counted
<1>3. \A i \in Step : Account(i) \in Nat /\ Account(i)' \in Nat
  BY Counts, CountsNext DEF Account, Counted
<1>4. \A i \in Step : Account(i)' + Failures <= Account(i) + Failures'
  <2> HIDE DEF Account, Failures
  <2> QED BY <1>1, <1>2, <1>3
<1>5. PaidFor'
  BY <1>4, Balance DEF PaidInv
<1>6. Fresh'
  BY DEF Fresh, PaidInv
<1> QED BY <1>5, <1>6 DEF PaidInv

\* A handler that calls a step is no caller of it any more.
LEMMA CallStepPaid ==
    ASSUME Inv, Inv', PaidInv, NEW r \in Run, CallStep(r)
    PROVE  PaidInv'
<1> DEFINE k == run[r].step
<1>1. /\ UNCHANGED <<approval, gate, used, requested, spent, wi, dispatch, boot>>
      /\ seg'.op # "request" /\ run[r].at = "step" /\ k < Steps
      /\ calls' = [calls EXCEPT ![k] = calls[k] + 1]
      /\ run' = [run EXCEPT ![r].at = "tool"]
  BY DEF CallStep, store, history, Idle
<1>2. run \in [Run -> RunType] /\ run[r] \in RunType /\ k \in 0..Steps /\ calls \in [Step -> Nat]
  BY DEF Inv, TypeOK, RunType
<1>3. k \in Step
  BY <1>1, <1>2, StepFits
<1>4. IsExecute(r)
  BY <1>1 DEF Inv, RunOK, Shaped, ExecuteAts, IsExecute
<1>5. /\ \A q \in Run : q # r => run'[q] = run[q]
      /\ run'[r].retry = run[r].retry /\ run'[r].kind = run[r].kind
      /\ run'[r].at = "tool" /\ run'[r].step = k
  BY <1>1, <1>2 DEF RunType
<1>6. Coming' <= Coming
  BY <1>1, ComingKept
<1>7. ASSUME NEW i \in Step PROVE Account(i)' <= Account(i)
  <2>1. \A q \in Run : q # r => (MayCall(q, i)' <=> MayCall(q, i))
    BY <1>5 DEF MayCall, IsExecute
  <2>2. i \in Nat /\ k \in Nat
    BY <1>3 DEF Step
  <2>3. Payers(i)' = Payers(i)
    BY <1>1 DEF Payers, MayPay
  <2>4. MayCall(r, i)' => k < i
    BY <1>5 DEF MayCall
  <2>5. k <= i => MayCall(r, i)
    BY <1>1, <1>4 DEF MayCall
  <2>6. CASE i = k
    <3>1. r \in Callers(i) /\ Callers(i)' \subseteq Callers(i) \ {r}
      BY <2>1, <2>2, <2>4, <2>5, <2>6 DEF Callers
    <3>2. Cardinality(Callers(i)') + 1 <= Cardinality(Callers(i))
      BY <3>1, OneLess, Counts DEF Counted
    <3>3. calls'[i] = calls[i] + 1
      BY <1>1, <1>2, <2>6
    <3> QED BY <1>6, <2>3, <3>2, <3>3, Counts, CountsNext DEF Account, Counted
  <2>7. CASE i # k
    <3>1. Callers(i)' \subseteq Callers(i)
      BY <2>1, <2>2, <2>4, <2>5 DEF Callers
    <3>2. Cardinality(Callers(i)') <= Cardinality(Callers(i))
      BY <3>1, Fewer, Counts DEF Counted
    <3>3. calls'[i] = calls[i]
      BY <1>1, <1>2, <2>7
    <3> QED BY <1>6, <2>3, <3>2, <3>3, Counts, CountsNext DEF Account, Counted
  <2> QED BY <2>6, <2>7
<1> QED BY <1>1, <1>5, <1>7, EvenPaid

\* A call on the strength of an approval uses the approval up.
LEMMA CallApprovedPaid ==
    ASSUME Inv, Inv', PaidInv, NEW r \in Run, CallApproved(r)
    PROVE  PaidInv'
<1>0. /\ run[r].at = "call" /\ run[r] \in RunType
      /\ run[r].kind = "approve" /\ run[r].apr \in Apr /\ approval[run[r].apr] # "absent"
  BY DEF CallApproved, Inv, TypeOK, RunOK, Shaped, ApproveAts
<1>a. PICK a \in Apr : a = run[r].apr
  BY <1>0
<1> DEFINE g == gate[a]
<1>1. /\ UNCHANGED <<approval, gate, requested, spent, wi, dispatch, boot>>
      /\ seg'.op # "request" /\ run[r].at = "call"
      /\ used' = [used EXCEPT ![a] = used[a] + 1]
      /\ calls' = [calls EXCEPT ![g] = calls[g] + 1]
      /\ run' = [run EXCEPT ![r].at = "tool"]
  BY <1>a DEF CallApproved, store, Idle
<1>2. /\ run \in [Run -> RunType] /\ run[r] \in RunType /\ calls \in [Step -> Nat]
      /\ used \in [Apr -> Nat]
  BY DEF Inv, TypeOK
<1>3. ~IsExecute(r) /\ run[r].at # "none"
  BY <1>0 DEF IsExecute
<1>4. a \in Apr /\ approval[a] # "absent" /\ used[a] = 0 /\ g \in Step
  <2>1. a \in Apr /\ approval[a] # "absent"
    BY <1>0, <1>a
  <2>2. used[a] = 0
    BY <1>1, <1>a DEF Inv, PaidOK
  <2>3. g \in Step
    BY <2>1 DEF Inv, GateOK
  <2> QED BY <2>1, <2>2, <2>3
<1>5. /\ \A q \in Run : q # r => run'[q] = run[q]
      /\ run'[r].retry = run[r].retry /\ run'[r].kind = run[r].kind /\ run'[r].at = "tool"
  BY <1>1, <1>2 DEF RunType
<1>6. Coming' <= Coming
  BY <1>1, ComingKept
<1>7. ASSUME NEW i \in Step PROVE Account(i)' <= Account(i)
  <2>1. Callers(i)' = Callers(i)
    <3>1. \A q \in Run : MayCall(q, i)' <=> MayCall(q, i)
      BY <1>3, <1>5 DEF MayCall, IsExecute
    <3> QED BY <3>1 DEF Callers
  <2>2. used'[a] = 1 /\ \A b \in Apr : b # a => used'[b] = used[b]
    BY <1>1, <1>2, <1>4
  <2>3. \A b \in Apr : MayPay(b, i)' => MayPay(b, i)
    BY <1>1, <1>4, <2>2 DEF MayPay
  <2>4. CASE i = g
    <3>1. MayPay(a, i)
      BY <1>4, <2>4 DEF MayPay
    <3>2. ~MayPay(a, i)'
      <4>1. i \in Nat
        BY DEF Step
      <4> QED BY <1>1, <2>2, <2>4, <4>1 DEF MayPay
    <3>3. a \in Payers(i) /\ Payers(i)' \subseteq Payers(i) \ {a}
      BY <1>4, <2>3, <3>1, <3>2 DEF Payers
    <3>4. Cardinality(Payers(i)') + 1 <= Cardinality(Payers(i))
      BY <3>3, OneLess, Counts DEF Counted
    <3>5. calls'[i] = calls[i] + 1
      BY <1>1, <1>2, <2>4
    <3> QED BY <1>6, <2>1, <3>4, <3>5, Counts, CountsNext DEF Account, Counted
  <2>5. CASE i # g
    <3>1. Payers(i)' \subseteq Payers(i)
      BY <2>3 DEF Payers
    <3>2. Cardinality(Payers(i)') <= Cardinality(Payers(i))
      BY <3>1, Fewer, Counts DEF Counted
    <3>3. calls'[i] = calls[i]
      BY <1>1, <1>2, <1>4, <2>5
    <3> QED BY <1>6, <2>1, <3>2, <3>3, Counts, CountsNext DEF Account, Counted
  <2> QED BY <2>4, <2>5
<1> QED BY <1>1, <1>5, <1>7, EvenPaid

\* A handler that stops at a gate leaves the calls from there on to the approval.
LEMMA RequestApprovalPaid ==
    ASSUME Inv, Inv', PaidInv, NEW r \in Run, NEW a \in Apr, RequestApproval(r, a)
    PROVE  PaidInv'
<1> DEFINE k == run[r].step
<1>1. /\ UNCHANGED <<used, requested, calls, spent, wi, dispatch, boot, seg>>
      /\ run[r].at = "step" /\ k < Steps
      /\ approval' = [approval EXCEPT ![a] = "pending"]
      /\ gate' = [gate EXCEPT ![a] = k]
      /\ run' = [run EXCEPT ![r].at = "register", ![r].apr = a]
  BY DEF RequestApproval
<1>2. /\ run \in [Run -> RunType] /\ run[r] \in RunType /\ k \in 0..Steps
      /\ DOMAIN approval = Apr /\ DOMAIN gate = Apr
  BY DEF Inv, TypeOK, RunType
<1>3. k \in Step
  BY <1>1, <1>2, StepFits
<1>4. IsExecute(r)
  BY <1>1 DEF Inv, RunOK, Shaped, ExecuteAts, IsExecute
<1>5. /\ \A q \in Run : q # r => run'[q] = run[q]
      /\ run'[r].retry = run[r].retry /\ run'[r].at = "register"
  BY <1>1, <1>2 DEF RunType
<1>6. Coming' <= Coming
  BY <1>1, ComingKept
<1>7. ASSUME NEW i \in Step PROVE Account(i)' <= Account(i)
  <2>1. \A q \in Run : q # r => (MayCall(q, i)' <=> MayCall(q, i))
    BY <1>5 DEF MayCall, IsExecute
  <2>2. i \in Nat /\ k \in Nat
    BY <1>3 DEF Step
  <2>3. gate'[a] = k /\ \A b \in Apr : b # a => gate'[b] = gate[b] /\ approval'[b] = approval[b]
    BY <1>1, <1>2
  <2>4. \A b \in Apr : b # a => (MayPay(b, i)' <=> MayPay(b, i))
    BY <1>1, <2>3 DEF MayPay
  <2>5. ~MayCall(r, i)'
    BY <1>5 DEF MayCall
  <2>6. CASE k <= i
    <3>1. MayCall(r, i)
      BY <1>1, <1>4, <2>6 DEF MayCall
    <3>2. r \in Callers(i) /\ Callers(i)' \subseteq Callers(i) \ {r}
      BY <2>1, <2>5, <3>1 DEF Callers
    <3>3. Payers(i)' \subseteq Payers(i) \union {a}
      BY <2>4 DEF Payers
    <3>4. Cardinality(Callers(i)') + 1 <= Cardinality(Callers(i))
      BY <3>2, OneLess, Counts DEF Counted
    <3>5. Cardinality(Payers(i)') <= Cardinality(Payers(i)) + 1
      BY <3>3, OneMore, Counts DEF Counted
    <3> QED BY <1>1, <1>6, <3>4, <3>5, Counts, CountsNext DEF Account, Counted
  <2>7. CASE ~(k <= i)
    <3>1. ~MayPay(a, i)'
      BY <2>2, <2>3, <2>7 DEF MayPay
    <3>2. Callers(i)' \subseteq Callers(i) /\ Payers(i)' \subseteq Payers(i)
      BY <2>1, <2>4, <2>5, <3>1 DEF Callers, Payers
    <3>3. /\ Cardinality(Callers(i)') <= Cardinality(Callers(i))
          /\ Cardinality(Payers(i)') <= Cardinality(Payers(i))
      BY <3>2, Fewer, Counts DEF Counted
    <3> QED BY <1>1, <1>6, <3>3, Counts, CountsNext DEF Account, Counted
  <2> QED BY <2>6, <2>7
<1> QED BY <1>1, <1>5, <1>7, EvenPaid

\* The event that sends the plan on takes over from the approval, for the steps
\* behind its gate.
LEMMA EmitResumePaid ==
    ASSUME Inv, Inv', PaidInv, NEW r \in Run, NEW n \in Run, EmitResume(r, n)
    PROVE  PaidInv'
<1>0. /\ run[r].at = "emit" /\ run[r] \in RunType
      /\ run[r].kind = "approve" /\ run[r].apr \in Apr /\ approval[run[r].apr] # "absent"
  BY DEF EmitResume, Inv, TypeOK, RunOK, Shaped, ApproveAts
<1>a. PICK a \in Apr : a = run[r].apr
  BY <1>0
<1> DEFINE k == run[r].step
           rec == NewRun("execute", k + 1, 0, "", run[r].corr)
<1>1. /\ UNCHANGED <<approval, gate, used, calls, spent, wi, dispatch, boot, seg>>
      /\ run[r].at = "emit" /\ run[n].at = "none"
      /\ requested' = [requested EXCEPT ![a] = requested[a] + 1]
  BY <1>a DEF EmitResume, NextRun, history
<1>2. /\ run \in [Run -> RunType] /\ run[r] \in RunType /\ requested \in [Apr -> Nat]
  BY DEF Inv, TypeOK
<1>3. ~IsExecute(r) /\ run[r].at # "none" /\ n # r
  BY <1>0, <1>1 DEF IsExecute
<1>4. a \in Apr /\ approval[a] # "absent" /\ requested[a] = 0 /\ k = gate[a] /\ k \in Step
  <2>1. a \in Apr /\ approval[a] # "absent"
    BY <1>0, <1>a
  <2>2. requested[a] = 0
    BY <1>1, <1>a DEF Inv, OnceOK, Sending
  <2>4. Shaped(run[r]) /\ Truthful(run[r])
    BY DEF Inv, RunOK
  <2> QED BY <1>0, <1>a, <2>1, <2>2, <2>4 DEF Shaped, Truthful, Recording
<1>5. run' = [run EXCEPT ![r].at = "confirm", ![n] = rec]
  BY DEF EmitResume
<1>6. /\ \A q \in Run : q # r /\ q # n => run'[q] = run[q]
      /\ run'[n] = rec
      /\ run'[r].retry = run[r].retry /\ run'[r].at = "confirm"
  <2> HIDE DEF rec
  <2> QED BY <1>2, <1>3, <1>5 DEF RunType
<1>7. run'[n].retry = 0 /\ run'[n].at = "emitted" /\ run'[n].from = k + 1
  <2>1. rec.retry = 0 /\ rec.at = "emitted" /\ rec.from = k + 1
    BY DEF NewRun
  <2> HIDE DEF rec
  <2> QED BY <1>6, <2>1
<1>8. run[n].retry = 0 /\ ~(\E i \in Step : MayCall(n, i))
  BY <1>1 DEF PaidInv, Fresh, MayCall
<1>9. Coming' <= Coming
  BY <1>1, ComingKept
<1>10. ASSUME NEW i \in Step PROVE Account(i)' <= Account(i)
  <2>1. /\ \A q \in Run : q # r /\ q # n => (MayCall(q, i)' <=> MayCall(q, i))
        /\ ~MayCall(r, i)'
        /\ MayCall(n, i)' => k + 1 <= i
    <3> HIDE DEF rec
    <3> QED BY <1>6, <1>7 DEF MayCall, IsExecute
  <2>2. i \in Nat /\ k \in Nat
    BY <1>4 DEF Step
  <2>3. requested'[a] = 1 /\ \A b \in Apr : b # a => requested'[b] = requested[b]
    BY <1>1, <1>2, <1>4
  <2>4. \A b \in Apr : MayPay(b, i)' => MayPay(b, i)
    BY <1>1, <1>4, <2>3 DEF MayPay
  <2>5. CASE k < i
    <3>1. MayPay(a, i) /\ ~MayPay(a, i)'
      BY <1>1, <1>4, <2>2, <2>3, <2>5 DEF MayPay
    <3>2. a \in Payers(i) /\ Payers(i)' \subseteq Payers(i) \ {a}
      BY <1>4, <2>4, <3>1 DEF Payers
    <3>3. Callers(i)' \subseteq Callers(i) \union {n}
      BY <2>1 DEF Callers
    <3>4. Cardinality(Payers(i)') + 1 <= Cardinality(Payers(i))
      BY <3>2, OneLess, Counts DEF Counted
    <3>5. Cardinality(Callers(i)') <= Cardinality(Callers(i)) + 1
      BY <3>3, OneMore, Counts DEF Counted
    <3> QED BY <1>1, <1>9, <3>4, <3>5, Counts, CountsNext DEF Account, Counted
  <2>6. CASE ~(k < i)
    <3>1. ~MayCall(n, i)'
      BY <2>1, <2>2, <2>6
    <3>2. Callers(i)' \subseteq Callers(i) /\ Payers(i)' \subseteq Payers(i)
      BY <2>1, <2>4, <3>1 DEF Callers, Payers
    <3>3. /\ Cardinality(Callers(i)') <= Cardinality(Callers(i))
          /\ Cardinality(Payers(i)') <= Cardinality(Payers(i))
      BY <3>2, Fewer, Counts DEF Counted
    <3> QED BY <1>1, <1>9, <3>3, Counts, CountsNext DEF Account, Counted
  <2> QED BY <2>5, <2>6
<1> HIDE DEF rec
<1> QED BY <1>1, <1>6, <1>7, <1>8, <1>10, EvenPaid
----------------------------------------------------------------------------
(* Requests, retries and deaths.                                           *)

\* A new execution of the item is a new caller, and has been counted before.
LEMMA StartedPaid ==
    ASSUME Inv, Inv', PaidInv, NEW r \in Run, RequestExecute(r) \/ DispatchSubmit(r)
    PROVE  PaidInv'
<1>1. /\ UNCHANGED <<approval, gate, used, requested, calls, spent, wi, boot>>
      /\ run[r].at = "none"
  BY DEF RequestExecute, DispatchSubmit, NextRun, store, history
<1>2. run \in [Run -> RunType]
  BY DEF Inv, TypeOK
<1>3. /\ \A q \in Run : q # r => run'[q] = run[q]
      /\ run'[r].retry = 0 /\ run'[r].at = "emitted"
  <2>1. PICK rec : run' = [run EXCEPT ![r] = rec] /\ rec.retry = 0 /\ rec.at = "emitted"
    <3>1. CASE RequestExecute(r)
      <4> DEFINE rec == NewRun("execute", 0, 0, "", 0)
      <4>1. rec.retry = 0 /\ rec.at = "emitted"
        BY DEF NewRun
      <4>2. run' = [run EXCEPT ![r] = rec]
        BY <3>1 DEF RequestExecute
      <4> HIDE DEF rec
      <4> QED BY <4>1, <4>2
    <3>2. CASE DispatchSubmit(r)
      <4> DEFINE rec == NewRun("execute", 0, 0, "", r)
      <4>1. rec.retry = 0 /\ rec.at = "emitted"
        BY DEF NewRun
      <4>2. run' = [run EXCEPT ![r] = rec]
        BY <3>2 DEF DispatchSubmit
      <4> HIDE DEF rec
      <4> QED BY <4>1, <4>2
    <3> QED BY <3>1, <3>2
  <2> QED BY <1>2, <2>1
<1>4. run[r].retry = 0
  BY <1>1 DEF PaidInv, Fresh
<1>5. Coming' + 1 <= Coming
  <2>1. CASE RequestExecute(r)
    <3>1. seg.op = "request" /\ seg' = Idle /\ dispatch' = dispatch
      BY <2>1 DEF RequestExecute
    <3> QED BY <1>1, <3>1 DEF Coming, One, Idle
  <2>2. CASE DispatchSubmit(r)
    <3>1. /\ dispatch.st = "claimed" /\ dispatch' = [st |-> "waiting", run |-> r]
          /\ seg' = seg
      BY <2>2 DEF DispatchSubmit
    <3>2. dispatch'.st = "waiting"
      BY <3>1
    <3> QED BY <1>1, <3>1, <3>2 DEF Coming, One
  <2> QED BY <2>1, <2>2
<1>6. ASSUME NEW i \in Step PROVE Account(i)' <= Account(i)
  <2>1. \A q \in Run : q # r => (MayCall(q, i)' <=> MayCall(q, i))
    BY <1>3 DEF MayCall, IsExecute
  <2>2. Callers(i)' \subseteq Callers(i) \union {r}
    BY <2>1 DEF Callers
  <2>3. Payers(i)' = Payers(i)
    BY <1>1 DEF Payers, MayPay
  <2>4. Cardinality(Callers(i)') <= Cardinality(Callers(i)) + 1
    BY <2>2, OneMore, Counts DEF Counted
  <2> QED BY <1>1, <1>5, <2>3, <2>4, Counts, CountsNext DEF Account, Counted
<1> QED BY <1>1, <1>3, <1>4, <1>6, EvenPaid

\* A user's request is the start it is paid with.
LEMMA RequestedPaid ==
    ASSUME Inv, Inv', PaidInv, Execute
    PROVE  PaidInv'
<1>1. /\ UNCHANGED <<run, approval, gate, used, requested, calls, dispatch, boot>>
      /\ wi' = "running" /\ seg = Idle /\ seg'.op = "request" /\ Spend("starts")
  BY DEF Execute, UserTurn, Turn, store, history
<1>2. spent'["crashes"] = spent["crashes"] /\ spent'["starts"] = spent["starts"] + 1
  BY <1>1 DEF Spend, Inv, TypeOK, Costs
<1>3. Coming' <= Coming + 1
  BY <1>1 DEF Coming, One, Idle
<1>4. Retried' = Retried
  BY <1>1 DEF Retried
<1>5. Failures' = Failures + 1
  BY <1>2, <1>4, Counts DEF Failures, Counted
<1>6. ASSUME NEW i \in Step PROVE Account(i)' + Failures <= Account(i) + Failures'
  <2>1. Callers(i)' = Callers(i) /\ Payers(i)' = Payers(i)
    BY <1>1 DEF Callers, MayCall, IsExecute, Payers, MayPay
  <2>2. Failures \in Nat
    BY Counts DEF Failures, Counted
  <2> HIDE DEF Failures
  <2> QED BY <1>1, <1>3, <1>5, <2>1, <2>2, Counts, CountsNext DEF Account, Counted
<1>7. Fresh'
  BY <1>1 DEF PaidInv, Fresh
<1> QED BY <1>6, <1>7, Balance DEF PaidInv

\* The runs of X are tried again, each at the cost of one retry.
LEMMA Retries ==
    ASSUME Inv, Inv', NEW X \in SUBSET Run,
           \A r \in X : run'[r].retry = run[r].retry + 1,
           \A r \in Run \ X : run'[r].retry = run[r].retry
    PROVE  /\ IsFiniteSet(X) /\ Cardinality(X) \in Nat
           /\ Cardinality(Retried) + Cardinality(X) <= Cardinality(Retried')
<1> DEFINE f == [r \in X |-> <<r, run[r].retry + 1>>]
           Z == {f[r] : r \in X}
<1>1. IsFiniteSet(X) /\ Cardinality(X) \in Nat
  BY Finite, Fewer
<1>2. \A r \in Run : run[r].retry \in 0..MaxRetries /\ run'[r].retry \in 0..MaxRetries
  <2>1. \A r \in Run : run[r] \in RunType /\ run'[r] \in RunType
    BY DEF Inv, TypeOK
  <2> QED BY <2>1 DEF RunType
<1>3. Z \subseteq Retried'
  <2>1. ASSUME NEW r \in X PROVE f[r] \in Retried'
    <3>1. run[r].retry + 1 \in 1..MaxRetries /\ run'[r].retry = run[r].retry + 1
      BY <1>2, PlanApprovalAssumption
    <3> QED BY <3>1 DEF Retried
  <2> QED BY <2>1
<1>4. Retried \subseteq Retried'
  <2>1. ASSUME NEW p \in Retried PROVE p \in Retried'
    <3>1. p \in Run \X (1..MaxRetries) /\ p[1] \in Run /\ p[2] \in Nat /\ p[2] <= run[p[1]].retry
      BY DEF Retried
    <3>2. run[p[1]].retry \in Nat /\ run'[p[1]].retry \in Nat
          /\ run[p[1]].retry <= run'[p[1]].retry
      BY <1>2, <3>1
    <3> QED BY <3>1, <3>2 DEF Retried
  <2> QED BY <2>1
<1>5. Retried \cap Z = {}
  <2>1. ASSUME NEW r \in X PROVE f[r] \notin Retried
    <3>1. f[r][1] = r /\ f[r][2] = run[r].retry + 1 /\ run[r].retry \in Nat
      BY <1>2
    <3> QED BY <3>1 DEF Retried
  <2> QED BY <2>1
<1>6. IsFiniteSet(Z) /\ Cardinality(Z) = Cardinality(X)
  <2>1. f \in Bijection(X, Z)
    <3>1. f \in [X -> Z]
      OBVIOUS
    <3>2. \A r, q \in X : f[r] = f[q] => r = q
      OBVIOUS
    <3>3. \A z \in Z : \E r \in X : f[r] = z
      OBVIOUS
    <3> HIDE DEF f, Z
    <3> QED BY <3>1, <3>2, <3>3 DEF Bijection, Injection, Surjection, IsInjective
  <2>2. ExistsBijection(X, Z)
    BY <2>1 DEF ExistsBijection
  <2> QED BY <1>1, <2>2, FS_Bijection
<1>7. Cardinality(Retried \union Z) = Cardinality(Retried) + Cardinality(Z)
  <2>1. Cardinality(Retried \cap Z) = 0
    BY <1>5, FS_EmptySet
  <2>2. Cardinality(Z) \in Nat /\ IsFiniteSet(Retried) /\ Cardinality(Retried) \in Nat
    BY <1>1, <1>6, Counts DEF Counted
  <2>3. \A S, T : IsFiniteSet(S) /\ IsFiniteSet(T) =>
            Cardinality(S \union T) = Cardinality(S) + Cardinality(T) - Cardinality(S \cap T)
    BY FS_Union
  <2> HIDE DEF Z
  <2>4. Cardinality(Retried \union Z)
            = Cardinality(Retried) + Cardinality(Z) - Cardinality(Retried \cap Z)
    BY <1>6, <2>2, <2>3
  <2> QED BY <2>1, <2>2, <2>4
<1>8. Cardinality(Retried \union Z) <= Cardinality(Retried')
  <2>1. Retried \union Z \subseteq Retried' /\ IsFiniteSet(Retried')
    BY <1>3, <1>4, CountsNext DEF Counted
  <2> HIDE DEF Z
  <2> QED BY <2>1, Fewer
<1> QED BY <1>1, <1>6, <1>7, <1>8

\* What a retry may call again is paid for by the retry.
LEMMA RetriedPaid ==
    ASSUME Inv, Inv', PaidInv, NEW X \in SUBSET Run,
           \A r \in X : run'[r].retry = run[r].retry + 1 /\ run'[r].at # "none",
           \A r \in Run \ X : /\ run'[r].retry = run[r].retry
                              /\ run'[r].at = "none" => run[r].at = "none",
           \A r \in Run \ X : \A i \in Step : MayCall(r, i)' => MayCall(r, i),
           UNCHANGED <<approval, gate, used, requested, calls>>,
           spent'["starts"] = spent["starts"],
           Coming' + spent["crashes"] <= Coming + spent'["crashes"]
    PROVE  PaidInv'
<1>1. /\ IsFiniteSet(X) /\ Cardinality(X) \in Nat
      /\ Cardinality(Retried) + Cardinality(X) <= Cardinality(Retried')
  BY Retries
<1>2. ASSUME NEW i \in Step PROVE Account(i)' + Failures <= Account(i) + Failures'
  <2>1. Payers(i)' = Payers(i)
    BY DEF Payers, MayPay
  <2>2. Callers(i)' \subseteq Callers(i) \union X
    BY DEF Callers
  <2>3. Cardinality(Callers(i)') <= Cardinality(Callers(i)) + Cardinality(X)
    <3>1. IsFiniteSet(Callers(i)) /\ Cardinality(Callers(i)) \in Nat
      BY Counts DEF Counted
    <3>2. /\ IsFiniteSet(Callers(i) \union X)
          /\ Cardinality(Callers(i) \union X)
                 = Cardinality(Callers(i)) + Cardinality(X) - Cardinality(Callers(i) \cap X)
      BY <1>1, <3>1, FS_Union
    <3>3. Cardinality(Callers(i) \cap X) \in Nat
      BY <1>1, Fewer
    <3>4. Cardinality(Callers(i)') <= Cardinality(Callers(i) \union X)
      BY <2>2, <3>2, Fewer
    <3>5. Cardinality(Callers(i)') \in Nat /\ Cardinality(Callers(i) \union X) \in Nat
      BY <3>2, FS_CardinalityType, CountsNext DEF Counted
    <3> QED BY <1>1, <3>1, <3>2, <3>3, <3>4, <3>5
  <2> QED BY <1>1, <2>1, <2>3, Counts, CountsNext DEF Account, Failures, Counted
<1>3. Fresh'
  BY DEF PaidInv, Fresh
<1> QED BY <1>2, <1>3, Balance DEF PaidInv

LEMMA AgainRetry ==
    ASSUME NEW rec \in RunType
    PROVE  /\ rec.retry < MaxRetries => Again(rec).retry = rec.retry + 1
           /\ ~(rec.retry < MaxRetries) => Again(rec).retry = rec.retry /\ Again(rec).at = "failed"
<1>1. CASE rec.retry < MaxRetries
  <2>1. Again(rec) = Restart(rec)
    BY <1>1 DEF Again
  <2>2. Restart(rec).retry = rec.retry + 1
    BY DEF Restart, RunType
  <2> QED BY <1>1, <2>1, <2>2
<1>2. CASE ~(rec.retry < MaxRetries)
  <2>1. Again(rec) = [rec EXCEPT !.at = "failed"]
    BY <1>2 DEF Again
  <2> QED BY <1>2, <2>1 DEF RunType
<1> QED BY <1>1, <1>2

LEMMA TimeoutPaid ==
    ASSUME Inv, Inv', PaidInv, NEW r \in Run, HandlerTimesOut(r)
    PROVE  PaidInv'
<1> DEFINE new == Again(run[r])
           X == IF run[r].retry < MaxRetries THEN {r} ELSE {}
<1>1. /\ UNCHANGED <<approval, gate, used, requested, calls, dispatch, seg, boot>>
      /\ wi' = "pending" => wi = "pending"
      /\ Spend("timeouts")
  BY DEF HandlerTimesOut, store, history
<1>2. spent'["crashes"] = spent["crashes"] /\ spent'["starts"] = spent["starts"]
  BY <1>1 DEF Spend, Inv, TypeOK, Costs
<1>3. run \in [Run -> RunType] /\ run[r] \in RunType
  BY DEF Inv, TypeOK
<1>4. (\A q \in Run : q # r => run'[q] = run[q]) /\ run'[r] = new
  <2>1. run' = [run EXCEPT ![r] = new]
    BY DEF HandlerTimesOut
  <2> HIDE DEF new
  <2> QED BY <1>3, <2>1
<1>5. /\ new.at \in {"queued", "failed"}
      /\ run[r].retry < MaxRetries => new.retry = run[r].retry + 1
      /\ ~(run[r].retry < MaxRetries) => new.retry = run[r].retry /\ new.at = "failed"
  BY <1>3, AgainFacts, AgainRetry
<1> HIDE DEF new
<1>6. Coming' + spent["crashes"] <= Coming + spent'["crashes"]
  <2>1. Coming' <= Coming
    BY <1>1, ComingKept
  <2> QED BY <1>2, <2>1, Counts, CountsNext DEF Counted
<1>7. ASSUME NEW q \in Run \ X, NEW i \in Step, MayCall(q, i)' PROVE MayCall(q, i)
  <2>1. CASE q # r
    BY <1>4, <1>7, <2>1 DEF MayCall, IsExecute
  <2>2. CASE q = r
    <3>1. run'[r].at = "failed"
      BY <1>4, <1>5, <2>2
    <3> QED BY <1>7, <2>2, <3>1 DEF MayCall
  <2> QED BY <2>1, <2>2
<1>8. X \in SUBSET Run
  OBVIOUS
<1>9. \A q \in X : run'[q].retry = run[q].retry + 1 /\ run'[q].at # "none"
  BY <1>4, <1>5
<1>10. \A q \in Run \ X : /\ run'[q].retry = run[q].retry
                          /\ run'[q].at = "none" => run[q].at = "none"
  BY <1>4, <1>5
<1> HIDE DEF X
<1> QED BY <1>1, <1>2, <1>6, <1>7, <1>8, <1>9, <1>10, RetriedPaid

\* A death retries every handler that was running, and the item itself may
\* be claimed once more.
LEMMA CrashPaid ==
    ASSUME Inv, Inv', PaidInv, Crash
    PROVE  PaidInv'
<1> DEFINE X == {r \in Run : run[r].at \in Handling /\ run[r].retry < MaxRetries}
<1>1. /\ UNCHANGED <<approval, gate, used, requested, calls, wi>>
      /\ dispatch' = [st |-> "idle", run |-> 0] /\ seg' = Idle /\ boot'
      /\ run' = [r \in Run |-> Interrupted(run[r])]
      /\ Spend("crashes")
  BY DEF Crash, store, history
<1>2. spent'["crashes"] = spent["crashes"] + 1 /\ spent'["starts"] = spent["starts"]
  BY <1>1 DEF Spend, Inv, TypeOK, Costs
<1>3. \A r \in Run : run[r] \in RunType
  BY DEF Inv, TypeOK
<1>4. Coming' + spent["crashes"] <= Coming + spent'["crashes"]
  <2>1. Coming' <= Coming + 1
    <3>1. dispatch'.st = "idle" /\ seg'.op = "idle"
      BY <1>1 DEF Idle
    <3> QED BY <1>1, <3>1 DEF Coming, One
  <2> QED BY <1>2, <2>1, Counts, CountsNext DEF Counted
<1>5. ASSUME NEW r \in Run
      PROVE  \/ r \in X /\ run'[r].at = "queued" /\ run'[r].retry = run[r].retry + 1
             \/ r \notin X /\ run'[r].at \in {"failed", "lost"} /\ run'[r].retry = run[r].retry
             \/ r \notin X /\ run'[r] = run[r]
  <2>1. run'[r] = Interrupted(run[r]) /\ run[r] \in RunType
    BY <1>1, <1>3
  <2>2. CASE run[r].at = "emitted"
    <3>1. run'[r] = [run[r] EXCEPT !.at = "lost"]
      BY <2>1, <2>2 DEF Interrupted, Handling
    <3>2. run'[r].at = "lost" /\ run'[r].retry = run[r].retry
      BY <2>1, <3>1 DEF RunType
    <3>3. r \notin X
      BY <2>2 DEF Handling
    <3> QED BY <3>2, <3>3
  <2>3. CASE run[r].at \in Handling /\ run[r].retry < MaxRetries
    <3>1. run'[r] = Again(run[r])
      BY <2>1, <2>3 DEF Interrupted, Handling
    <3>2. Again(run[r]) = Restart(run[r])
      BY <2>3 DEF Again
    <3>3. Restart(run[r]).at = "queued" /\ Restart(run[r]).retry = run[r].retry + 1
      BY <2>1 DEF Restart, RunType
    <3> QED BY <2>3, <3>1, <3>2, <3>3
  <2>4. CASE run[r].at \in Handling /\ ~(run[r].retry < MaxRetries)
    <3>1. run'[r] = Again(run[r])
      BY <2>1, <2>4 DEF Interrupted, Handling
    <3> QED BY <2>1, <2>4, <3>1, AgainRetry
  <2>5. CASE run[r].at # "emitted" /\ run[r].at \notin Handling
    <3>1. run'[r] = run[r]
      BY <2>1, <2>5 DEF Interrupted
    <3> QED BY <2>5, <3>1
  <2> QED BY <2>2, <2>3, <2>4, <2>5
<1>6. X \in SUBSET Run
  OBVIOUS
<1> HIDE DEF X
<1>7. ASSUME NEW r \in Run \ X, NEW i \in Step, MayCall(r, i)' PROVE MayCall(r, i)
  BY <1>5, <1>7 DEF MayCall, IsExecute
<1>8. \A r \in X : run'[r].retry = run[r].retry + 1 /\ run'[r].at # "none"
  BY <1>5, <1>6
<1>9. \A r \in Run \ X : /\ run'[r].retry = run[r].retry
                         /\ run'[r].at = "none" => run[r].at = "none"
  BY <1>5
<1> QED BY <1>1, <1>2, <1>4, <1>6, <1>7, <1>8, <1>9, RetriedPaid
----------------------------------------------------------------------------
(* The theorem.                                                            *)

LEMMA RunStepPaid ==
    ASSUME Inv, Inv', PaidInv, NEW r \in Run, RunStep(r)
    PROVE  PaidInv'
<1>1. CASE BeginExecute(r)
  BY <1>1, BeginPaid
<1>2. CASE CallStep(r)
  BY <1>2, CallStepPaid
<1>3. CASE \E a \in Apr : RequestApproval(r, a)
  BY <1>3, RequestApprovalPaid
<1>4. CASE \/ PlanOver(r) \/ SkipStep(r) \/ Register(r) \/ PassPending(r) \/ StepReturns(r)
           \/ Progress(r) \/ Close(r) \/ Report(r)
  BY <1>4, ExecutePaid
<1>5. CASE Enqueue(r) \/ RecordIdem(r) \/ RecordStep(r) \/ Return(r)
  BY <1>5, EitherPaid
<1>6. CASE CallApproved(r)
  BY <1>6, CallApprovedPaid
<1>7. CASE \E q \in Run : EmitResume(r, q)
  BY <1>7, EmitResumePaid
<1>8. CASE \/ WaitForLock(r) \/ Acquire(r) \/ ApprovedReturns(r) \/ SaveIntent(r)
           \/ TakeResume(r) \/ ConfirmIntent(r) \/ DropIntent(r) \/ Deny(r)
  BY <1>8, ApprovePaid
<1> QED BY <1>1, <1>2, <1>3, <1>4, <1>5, <1>6, <1>7, <1>8 DEF RunStep, ExecuteStep, ApproveStep

LEMMA NextPaid == Inv /\ Inv' /\ PaidInv /\ [Next]_vars => PaidInv'
<1> SUFFICES ASSUME Inv, Inv', PaidInv, [Next]_vars PROVE PaidInv'
  OBVIOUS
<1>1. ASSUME NEW r \in Run, RunStep(r) PROVE PaidInv'
  BY <1>1, RunStepPaid
<1>2. CASE Callback
  <2>1. ASSUME NEW r \in Run, RequestExecute(r) \/ DispatchSubmit(r) PROVE PaidInv'
    BY <2>1, StartedPaid
  <2>2. ASSUME NEW r \in Run, CancelRun(r) PROVE PaidInv'
    BY <2>2, CancelRunPaid
  <2>3. CASE ExpireDenies \/ CancelClears \/ CancelStamps \/ RecoverWork
    BY <2>3, SurroundPaid
  <2> QED BY <1>2, <2>1, <2>2, <2>3 DEF Callback
<1>3. CASE Environment
  <2>1. CASE Execute
    BY <2>1, RequestedPaid
  <2>2. ASSUME NEW r \in Run, NEW a \in Apr, Decide(r, a, "approve") \/ Decide(r, a, "deny")
        PROVE  PaidInv'
    BY <2>2, DecidePaid
  <2>3. ASSUME NEW r \in Run, HandlerTimesOut(r) PROVE PaidInv'
    BY <2>3, TimeoutPaid
  <2>4. CASE Crash
    BY <2>4, CrashPaid
  <2>5. CASE DispatchClaim \/ DispatchFails \/ (\E a \in Apr : Expire(a)) \/ Cancel
    BY <2>5, SurroundPaid
  <2> QED BY <1>3, <2>1, <2>2, <2>3, <2>4, <2>5 DEF Environment
<1>4. CASE UNCHANGED vars
  <2>1. UNCHANGED <<run, approval, gate, used, requested, calls, spent, wi, dispatch, seg, boot>>
    BY <1>4 DEF vars, store, history
  <2>2. Coming' <= Coming
    BY <2>1, ComingKept
  <2> QED BY <2>1, <2>2, StillPaid
<1> QED BY <1>1, <1>2, <1>3, <1>4 DEF Next

LEMMA InitPaidInv == Init => PaidInv
<1> SUFFICES ASSUME Init PROVE PaidInv
  OBVIOUS
<1>1. \A r \in Run : run[r].retry = 0
  BY DEF Init, NoRun
<1> QED BY <1>1, InitPaid DEF PaidInv, Fresh

LEMMA PaidCorrect == Spec => []PaidInv
<1>1. Spec => []Inv
  BY InvCorrect
<1>2. Init => PaidInv
  BY InitPaidInv
<1>3. Inv /\ Inv' /\ PaidInv /\ [Next]_vars => PaidInv'
  BY NextPaid
<1> QED BY <1>1, <1>2, <1>3, PTL DEF Spec

\* However many deaths, timeouts, clicks and requests there are, a step is
\* called once and once more for each restart of a handler, death and request
\* at the most (RepeatsArePaid): resuming a plan, taking over a result and
\* clicking twice repeat nothing.
THEOREM RepeatsCorrect == Spec => []RepeatsArePaid
<1>1. Inv /\ PaidInv => RepeatsArePaid
  <2> SUFFICES ASSUME Inv, PaidInv, NEW i \in Step PROVE calls[i] <= 1 + Failures
    BY DEF RepeatsArePaid
  <2>1. Account(i) <= 1 + Failures
    BY DEF PaidInv, PaidFor, Account
  <2>2. Failures \in Nat
    BY Counts DEF Failures, Counted
  <2> HIDE DEF Failures
  <2> QED BY <2>1, <2>2, Counts DEF Account, Counted
<1> QED BY <1>1, InvCorrect, PaidCorrect, PTL
=============================================================================
