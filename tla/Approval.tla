------------------------------ MODULE Approval ------------------------------
(***************************************************************************)
(* What governance promises about approvals, however the handlers, the API *)
(* and the expiry sweep interleave and wherever the process dies: one is   *)
(* requested, resolved once and for good, and an approved one pays for at  *)
(* most one call of the tool it names (kernel/governance_ops.py,           *)
(* capability_governance.py).                                              *)
(***************************************************************************)
EXTENDS Naturals

CONSTANT Apr        \* approval ids

VARIABLES
    approval,       \* approvals.status, "absent" before the request
    used            \* tool calls made on the strength of each approval

vars == <<approval, used>>

Resolutions == {"approved", "denied", "expired"}

Init ==
    /\ approval = [a \in Apr |-> "absent"]
    /\ used = [a \in Apr |-> 0]

Request(a) ==
    /\ approval[a] = "absent"
    /\ approval' = [approval EXCEPT ![a] = "pending"]
    /\ UNCHANGED used

Resolve(a, resolution) ==
    /\ approval[a] = "pending"
    /\ approval' = [approval EXCEPT ![a] = resolution]
    /\ UNCHANGED used

Use(a) ==
    /\ approval[a] = "approved"
    /\ used[a] = 0
    /\ used' = [used EXCEPT ![a] = 1]
    /\ UNCHANGED approval

Next ==
    \E a \in Apr : \/ Request(a)
                   \/ \E resolution \in Resolutions : Resolve(a, resolution)
                   \/ Use(a)

Spec == Init /\ [][Next]_vars
=============================================================================
