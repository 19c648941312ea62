--------------------------- MODULE MC_L7PolicyFlow ---------------------------
(* The L7 policy flows on a load balancer "lb" with the policy "l7policy1". *)
EXTENDS L7PolicyFlow

MCListeners1 == {"listener1"}
\* The policy's listener and a sibling listener of the same load balancer.
MCListeners2 == {"listener1", "listener2"}

\* The status store's rows: the load balancer, its listeners, the policy.
MCRows1 == {LBRow, PolicyRow} \cup {ListenerRow(l) : l \in MCListeners1}
MCRows2 == {LBRow, PolicyRow} \cup {ListenerRow(l) : l \in MCListeners2}

\* Unused by the flows, which start from InitialDbOf(kind).
MCInitialDb1 == [r \in MCRows1 |-> "PENDING_UPDATE"]
MCInitialDb2 == [r \in MCRows2 |-> "PENDING_UPDATE"]

AllExecSteps == {"l7policy", "amphora_agent", "quota", "load_balancer"}
AllTables == {"l7policy", "listener", "load_balancer"}
=============================================================================
