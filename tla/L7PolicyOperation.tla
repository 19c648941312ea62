-------------------------- MODULE L7PolicyOperation --------------------------
(***************************************************************************)
(* What one L7 policy lifecycle operation promises, seen from the status   *)
(* store: the API layer has put the policy, its listener and the load      *)
(* balancer in PENDING_*, and the operation then ends in exactly one of    *)
(* two ways, in one step:                                                  *)
(*   - it succeeds: load balancer and listener ACTIVE, the policy ACTIVE   *)
(*     (or deleted, with the l7policy quota given back);                   *)
(*   - it is compensated: the policy ERROR, its listener and the load      *)
(*     balancer ACTIVE again, the quota as it was.                         *)
(* Listeners the operation is not about keep their status.                 *)
(***************************************************************************)
EXTENDS Naturals

CONSTANTS
  Kinds,         \* subset of {"create", "update", "delete"}
  Listeners,     \* all listeners of the load balancer
  OpListeners    \* the listeners the operation is about (the policy's)

VARIABLES op, outcome, lbStatus, listenerStatus, policyStatus, quotaUsed

absVars == <<op, outcome, lbStatus, listenerStatus, policyStatus, quotaUsed>>

PendingFor(k) ==
  CASE k = "create" -> "PENDING_CREATE"
    [] k = "update" -> "PENDING_UPDATE"
    [] k = "delete" -> "PENDING_DELETE"

Init ==
  /\ op \in Kinds
  /\ outcome = "pending"
  /\ lbStatus = "PENDING_UPDATE"
  /\ listenerStatus = [l \in Listeners |->
                         IF l \in OpListeners THEN "PENDING_UPDATE" ELSE "ACTIVE"]
  /\ policyStatus = PendingFor(op)
  /\ quotaUsed = 1

ReleaseListeners ==
  listenerStatus' = [l \in Listeners |->
                       IF l \in OpListeners THEN "ACTIVE" ELSE listenerStatus[l]]

Succeed ==
  /\ outcome = "pending"
  /\ outcome' = "succeeded"
  /\ lbStatus' = "ACTIVE"
  /\ ReleaseListeners
  /\ policyStatus' = IF op = "delete" THEN "NO_ROW" ELSE "ACTIVE"
  /\ quotaUsed' = IF op = "delete" THEN 0 ELSE 1
  /\ UNCHANGED op

Compensate ==
  /\ outcome = "pending"
  /\ outcome' = "failed"
  /\ lbStatus' = "ACTIVE"
  /\ ReleaseListeners
  /\ policyStatus' = "ERROR"
  /\ UNCHANGED <<op, quotaUsed>>

Next == Succeed \/ Compensate

\* The operation is eventually decided.
Spec == Init /\ [][Next]_absVars /\ WF_absVars(Next)
=============================================================================
