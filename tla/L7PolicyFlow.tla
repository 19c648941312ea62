---------------------------- MODULE L7PolicyFlow ----------------------------
(***************************************************************************)
(* The create, update and delete L7 policy flows                           *)
(* (src/octavia/controller/worker/v2/flows/l7policy_flows.py) run by the   *)
(* flow engine, with their tasks' status writes made through TaskUtils.    *)
(*                                                                         *)
(* The engine executes the tasks of a linear flow in order.  When a task   *)
(* fails, it reverts the tasks that executed, last first; a revert that    *)
(* raises is logged and the next one still runs.  A task's revert is a     *)
(* sequence of TaskUtils helper calls, made one at a time; a helper that   *)
(* raises ends that task's revert.                                         *)
(*                                                                         *)
(* Before the flow starts, the API layer has created or marked the policy  *)
(* PENDING_*, and marked its listener and the load balancer               *)
(* PENDING_UPDATE; the policy counts once against the l7policy quota.      *)
(***************************************************************************)
EXTENDS TaskUtils, SequencesExt

CONSTANTS
  Kinds,         \* which flows are run: subset of {"create", "update", "delete"}
  ListenerIds,   \* the load balancer's listeners
  OpListeners,   \* constants.LISTENERS of the flow: the policy's listener
  ExecFallible   \* steps whose execute may fail: "l7policy", "amphora_agent",
                 \* "quota", "load_balancer"

ASSUME Kinds \subseteq {"create", "update", "delete"}
ASSUME OpListeners \subseteq ListenerIds
ASSUME ExecFallible \subseteq {"l7policy", "amphora_agent", "quota", "load_balancer"}

VARIABLES
  kind,   \* the flow being run
  phase,  \* "execute", "revert", "success" or "reverted"
  pc,     \* index of the next task to execute
  rp,     \* index of the next task to revert (0: none left)
  ops,    \* helper calls of the task being reverted not yet made
  quota   \* l7policy quota in use by the project

vars == <<kind, phase, pc, rp, ops, quota, db, call, attempt, waited, result>>

LBRow == <<"load_balancer", "lb">>
PolicyRow == <<"l7policy", "l7policy1">>
ListenerRow(l) == <<"listener", l>>

(***************************************************************************)
(* The flows (l7policy_flows.py), as sequences of task names.              *)
(***************************************************************************)
\* Mutant: the lifecycle task added after the driver call.
MutCreateFlowLifecycleLate ==
  <<"MarkL7PolicyPendingCreateInDB", "ListenersUpdate",
    "L7PolicyToErrorOnRevertTask", "MarkL7PolicyActiveInDB",
    "MarkLBAndListenersActiveInDB">>

CreateFlow ==
  <<"L7PolicyToErrorOnRevertTask", "MarkL7PolicyPendingCreateInDB",
    "ListenersUpdate", "MarkL7PolicyActiveInDB", "MarkLBAndListenersActiveInDB">>

DeleteFlow ==
  <<"L7PolicyToErrorOnRevertTask", "MarkL7PolicyPendingDeleteInDB",
    "ListenersUpdate", "DeleteL7PolicyInDB", "DecrementL7policyQuota",
    "MarkLBAndListenersActiveInDB">>

\* Mutant: MarkL7PolicyActiveInDB left out of the update flow.
MutUpdateFlowNoActive ==
  <<"L7PolicyToErrorOnRevertTask", "MarkL7PolicyPendingUpdateInDB",
    "ListenersUpdate", "UpdateL7PolicyInDB", "MarkLBAndListenersActiveInDB">>

UpdateFlow ==
  <<"L7PolicyToErrorOnRevertTask", "MarkL7PolicyPendingUpdateInDB",
    "ListenersUpdate", "UpdateL7PolicyInDB", "MarkL7PolicyActiveInDB",
    "MarkLBAndListenersActiveInDB">>

FlowOf(k) ==
  CASE k = "create" -> CreateFlow
    [] k = "update" -> UpdateFlow
    [] k = "delete" -> DeleteFlow

Flow == FlowOf(kind)

(***************************************************************************)
(* The tasks.                                                              *)
(***************************************************************************)

\* What a task's execute writes, given the store s.  MarkLBAndListeners-
\* ActiveInDB writes the load balancer and the listeners in one transaction.
ExecDb(t, s) ==
  CASE t = "MarkL7PolicyPendingCreateInDB" -> [s EXCEPT ![PolicyRow] = "PENDING_CREATE"]
    [] t = "MarkL7PolicyPendingUpdateInDB" -> [s EXCEPT ![PolicyRow] = "PENDING_UPDATE"]
    [] t = "MarkL7PolicyPendingDeleteInDB" -> [s EXCEPT ![PolicyRow] = "PENDING_DELETE"]
    [] t = "MarkL7PolicyActiveInDB"        -> [s EXCEPT ![PolicyRow] = "ACTIVE"]
    [] t = "DeleteL7PolicyInDB"            -> [s EXCEPT ![PolicyRow] = "NO_ROW"]
    [] t = "MarkLBAndListenersActiveInDB"  ->
         [r \in DOMAIN s |-> IF r = LBRow \/ r \in {ListenerRow(l) : l \in OpListeners}
                             THEN "ACTIVE" ELSE s[r]]
    [] OTHER -> s   \* lifecycle task, driver call, policy data update, quota

\* The external step each execute depends on; a failure of it makes the
\* task raise.  The lifecycle task's execute does nothing and cannot fail.
ExecStep(t) ==
  CASE t = "ListenersUpdate"              -> "amphora_agent"
    [] t = "DecrementL7policyQuota"       -> "quota"
    [] t = "MarkLBAndListenersActiveInDB" -> "load_balancer"
    [] t = "L7PolicyToErrorOnRevertTask"  -> "none"
    [] OTHER                              -> "l7policy"

Calls(h, ls) == [i \in 1..Len(ls) |-> [helper |-> h, row |-> ListenerRow(ls[i])]]

OpListenerSeq == SetToSeq(OpListeners)

\* The helper calls a task's revert makes, in order.
RevertCalls(t) ==
  CASE t = "L7PolicyToErrorOnRevertTask" ->
         <<[helper |-> mark_l7policy_prov_status_error, row |-> PolicyRow],
           [helper |-> mark_loadbalancer_prov_status_active, row |-> LBRow]>>
         \o Calls(mark_listener_prov_status_active, OpListenerSeq)
    [] t = "ListenersUpdate" ->
         Calls(mark_listener_prov_status_error, SetToSeq(ListenerIds))
    [] t = "MarkLBAndListenersActiveInDB" ->
         Calls(mark_listener_prov_status_error, OpListenerSeq)
         \o <<[helper |-> mark_loadbalancer_prov_status_error, row |-> LBRow]>>
    [] t = "DecrementL7policyQuota" -> <<>>
    [] OTHER -> <<[helper |-> mark_l7policy_prov_status_error, row |-> PolicyRow]>>

(***************************************************************************)
(* The engine.                                                             *)
(***************************************************************************)

PendingOf == [create |-> "PENDING_CREATE", update |-> "PENDING_UPDATE",
              delete |-> "PENDING_DELETE"]

\* The store as the API layer leaves it for flow k.
InitialDbOf(k) ==
  [r \in Rows |->
     CASE r = PolicyRow -> PendingOf[k]
       [] r = LBRow -> "PENDING_UPDATE"
       [] OTHER -> IF r[2] \in OpListeners THEN "PENDING_UPDATE" ELSE "ACTIVE"]

Init ==
  /\ kind \in Kinds
  /\ phase = "execute"
  /\ pc = 1
  /\ rp = 0
  /\ ops = <<>>
  /\ quota = 1
  /\ db = InitialDbOf(kind)
  /\ call = NoCall
  /\ attempt = 0
  /\ waited = 0
  /\ result = "none"

\* The next task executes and returns.
ExecuteTask ==
  /\ phase = "execute"
  /\ LET t == Flow[pc] IN
       /\ db' = ExecDb(t, db)
       /\ quota' = IF t = "DecrementL7policyQuota" THEN quota - 1 ELSE quota
  /\ pc' = pc + 1
  /\ phase' = IF pc = Len(Flow) THEN "success" ELSE "execute"
  /\ UNCHANGED <<kind, rp, ops, call, attempt, waited, result>>

\* The next task raises; nothing it would have written is committed, and
\* the engine starts reverting the tasks before it.
TaskFails ==
  /\ phase = "execute"
  /\ ExecStep(Flow[pc]) \in ExecFallible
  /\ phase' = "revert"
  /\ rp' = pc - 1
  /\ UNCHANGED <<kind, pc, ops, quota, db, call, attempt, waited, result>>

CallDone == result \notin {"pending", "raised"}

\* The engine calls the revert of the next task to revert.
RevertTask ==
  /\ phase = "revert"
  /\ ops = <<>> /\ CallDone
  /\ rp > 0
  /\ Flow[rp] /= "DecrementL7policyQuota"
  /\ ops' = RevertCalls(Flow[rp])
  /\ rp' = rp - 1
  /\ UNCHANGED <<kind, phase, pc, quota, db, call, attempt, waited, result>>

\* DecrementL7policyQuota's revert gives the quota back in its own
\* session; a failed commit is rolled back and logged.
RevertDecrementL7policyQuota ==
  /\ phase = "revert"
  /\ ops = <<>> /\ CallDone
  /\ rp > 0
  /\ Flow[rp] = "DecrementL7policyQuota"
  /\ \/ quota' = quota + 1
     \/ "quota" \in ExecFallible /\ UNCHANGED quota
  /\ rp' = rp - 1
  /\ UNCHANGED <<kind, phase, pc, ops, db, call, attempt, waited, result>>

\* The revert makes its next helper call.
IssueRevertCall ==
  /\ phase = "revert"
  /\ ops /= <<>> /\ CallDone
  /\ Invoke(Head(ops).helper, Head(ops).row)
  /\ ops' = Tail(ops)
  /\ UNCHANGED <<kind, phase, pc, rp, quota>>

\* A helper raised: the rest of this revert does not run; the engine logs
\* the failure and goes on with the next revert.
RevertRaised ==
  /\ phase = "revert"
  /\ result = "raised"
  /\ ops' = <<>>
  /\ result' = "none"
  /\ UNCHANGED <<kind, phase, pc, rp, quota, db, call, attempt, waited>>

\* All reverts have run: the flow ends failed.
FinishRevert ==
  /\ phase = "revert"
  /\ rp = 0 /\ ops = <<>> /\ CallDone
  /\ phase' = "reverted"
  /\ UNCHANGED <<kind, pc, rp, ops, quota, db, call, attempt, waited, result>>

HelperCallStep ==
  /\ HelperStep
  /\ UNCHANGED <<kind, phase, pc, rp, ops, quota>>

Next ==
  \/ ExecuteTask
  \/ TaskFails
  \/ RevertTask
  \/ RevertDecrementL7policyQuota
  \/ IssueRevertCall
  \/ RevertRaised
  \/ FinishRevert
  \/ HelperCallStep

\* The engine's worker thread runs the flow to its end.
Spec == Init /\ [][Next]_vars /\ WF_vars(Next)

(***************************************************************************)
(* Properties.                                                             *)
(***************************************************************************)

Finished == phase \in {"success", "reverted"}
PendingStatuses == {"PENDING_CREATE", "PENDING_UPDATE", "PENDING_DELETE"}

(* A flow that ran every task to its end has released the load balancer   *)
(* and the policy's listener (ACTIVE), made the policy ACTIVE, or deleted  *)
(* it and given its quota back: the task lists of l7policy_flows.py leave  *)
(* nothing PENDING.                                                        *)
SuccessOutcome ==
  phase = "success" =>
    /\ db[LBRow] = "ACTIVE"
    /\ \A l \in OpListeners : db[ListenerRow(l)] = "ACTIVE"
    /\ db[PolicyRow] = IF kind = "delete" THEN "NO_ROW" ELSE "ACTIVE"
    /\ quota = IF kind = "delete" THEN 0 ELSE 1

(* Once the flow has ended, whichever way, none of the policy, its        *)
(* listener and the load balancer is left PENDING_*.                       *)
SettledAfterFlow ==
  Finished =>
    \A r \in {PolicyRow, LBRow} \cup {ListenerRow(l) : l \in OpListeners} :
      db[r] \notin PendingStatuses

(* Once the flow has ended, the project's l7policy quota counts the policy *)
(* exactly when its row still exists.                                      *)
QuotaMatchesRows ==
  Finished => quota = IF db[PolicyRow] = "NO_ROW" THEN 0 ELSE 1

(* The flow implements the abstract operation: it ends in the success     *)
(* state or the compensated state of L7PolicyOperation, and ends.          *)
Abstract == INSTANCE L7PolicyOperation WITH
  Listeners <- ListenerIds,
  op <- kind,
  outcome <- CASE phase = "success"  -> "succeeded"
               [] phase = "reverted" -> "failed"
               [] OTHER              -> "pending",
  lbStatus <- IF Finished THEN db[LBRow] ELSE InitialDbOf(kind)[LBRow],
  listenerStatus <- [l \in ListenerIds |->
                       IF Finished THEN db[ListenerRow(l)]
                       ELSE InitialDbOf(kind)[ListenerRow(l)]],
  policyStatus <- IF Finished THEN db[PolicyRow] ELSE InitialDbOf(kind)[PolicyRow],
  quotaUsed <- IF Finished THEN quota ELSE 1

Refinement == Abstract!Spec
=============================================================================
