-------------------------- MODULE FailoverAdvertiser --------------------------
(***************************************************************************)
(* The amphora's failover advertiser (util.py send_vip_advertisements and  *)
(* send_member_advertisements).                                            *)
(*                                                                         *)
(* Each call walks a list of addresses (the load balancer's VIPs, or the   *)
(* fixed IPs of a member subnet) and, for each, looks up the interface     *)
(* that owns it in the amphora namespace and sends a GARP or neighbour     *)
(* advertisement.  The whole loop sits in one try: the first lookup or     *)
(* send that raises is logged and ends the call.  The calls are repeated   *)
(* by the failover daemon's notifications (spec 4.7: "self-correcting on   *)
(* the next periodic invocation"), which are not under src/.               *)
(***************************************************************************)
EXTENDS Naturals, Sequences, SequencesExt

CONSTANTS
  Lists,            \* [kind -> sequence of addresses]; kinds "vip", "member"
  Plugged,          \* addresses whose interface is already in the namespace
  Unpluggable,      \* addresses whose interface never appears
  MaxSendFailures   \* bound on transient send_ip_advertisement failures

Kinds == DOMAIN Lists
Addresses == UNION {ToSet(Lists[k]) : k \in Kinds}

ASSUME Plugged \subseteq Addresses /\ Unpluggable \subseteq Addresses
ASSUME Plugged \cap Unpluggable = {}
ASSUME MaxSendFailures \in Nat
ASSUME \A k \in DOMAIN Lists : Len(Lists[k]) > 0

VARIABLES
  present,     \* addresses whose interface get_interface_name finds
  advertised,  \* addresses advertised since the amphora became MASTER
  pc,          \* per kind: "idle" or "loop"
  next,        \* per kind: index of the address the loop is at
  failures     \* transient send failures so far

advVars == <<present, advertised, pc, next, failures>>

(***************************************************************************)
(* Actions.                                                                *)
(***************************************************************************)

\* The failover daemon calls the advertiser (MASTER notification).
Call(k) ==
  /\ pc[k] = "idle"
  /\ pc' = [pc EXCEPT ![k] = "loop"]
  /\ next' = [next EXCEPT ![k] = 1]
  /\ UNCHANGED <<present, advertised, failures>>

\* After the current address: the next one, or the end of the call.
Step(k) ==
  IF next[k] = Len(Lists[k])
  THEN /\ pc' = [pc EXCEPT ![k] = "idle"] /\ next' = [next EXCEPT ![k] = 1]
  ELSE /\ next' = [next EXCEPT ![k] = @ + 1] /\ UNCHANGED pc

\* Mutant: the call returns after the first address it advertises.
MutAdvertiseReturnsEarly(k) ==
  /\ pc[k] = "loop"
  /\ Lists[k][next[k]] \in present
  /\ advertised' = advertised \cup {Lists[k][next[k]]}
  /\ pc' = [pc EXCEPT ![k] = "idle"] /\ next' = [next EXCEPT ![k] = 1]
  /\ UNCHANGED <<present, failures>>

\* Mutant: the loop index runs past the end of the list.
MutAdvertiseNoReset(k) ==
  /\ pc[k] = "loop"
  /\ Lists[k][next[k]] \in present
  /\ advertised' = advertised \cup {Lists[k][next[k]]}
  /\ next' = [next EXCEPT ![k] = @ + 1]
  /\ pc' = [pc EXCEPT ![k] = IF next[k] = Len(Lists[k]) THEN "idle" ELSE "loop"]
  /\ UNCHANGED <<present, failures>>

\* get_interface_name and send_ip_advertisement for the current address.
Advertise(k) ==
  /\ pc[k] = "loop"
  /\ Lists[k][next[k]] \in present
  /\ advertised' = advertised \cup {Lists[k][next[k]]}
  /\ Step(k)
  /\ UNCHANGED <<present, failures>>

\* get_interface_name raises (no interface owns the address): the except
\* branch logs and the call returns, the rest of the list unvisited.
LookupFails(k) ==
  /\ pc[k] = "loop"
  /\ Lists[k][next[k]] \notin present
  /\ pc' = [pc EXCEPT ![k] = "idle"]
  /\ UNCHANGED <<present, advertised, next, failures>>

\* send_ip_advertisement raises (e.g. the amphora is not MASTER any more).
SendFails(k) ==
  /\ pc[k] = "loop"
  /\ Lists[k][next[k]] \in present
  /\ failures < MaxSendFailures
  /\ failures' = failures + 1
  /\ pc' = [pc EXCEPT ![k] = "idle"]
  /\ UNCHANGED <<present, advertised, next>>

\* The VIP or member port is plugged into the namespace.
Plug(a) ==
  /\ a \notin present \cup Unpluggable
  /\ present' = present \cup {a}
  /\ UNCHANGED <<advertised, pc, next, failures>>

Init ==
  /\ present = Plugged
  /\ advertised = {}
  /\ pc = [k \in Kinds |-> "idle"]
  /\ next = [k \in Kinds |-> 1]
  /\ failures = 0

Next ==
  \/ \E k \in Kinds : Call(k) \/ Advertise(k) \/ LookupFails(k) \/ SendFails(k)
  \/ \E a \in Addresses : Plug(a)

\* The daemon keeps calling, a running loop keeps stepping, and plugging
\* completes; send failures are not fair (they are bounded instead).
Fairness ==
  /\ \A k \in Kinds : WF_advVars(Call(k)) /\ WF_advVars(Advertise(k))
                      /\ WF_advVars(LookupFails(k))
  /\ \A a \in Addresses : WF_advVars(Plug(a))

Spec == Init /\ [][Next]_advVars /\ Fairness

(***************************************************************************)
(* Properties.                                                             *)
(***************************************************************************)

AdvTypeOK ==
  /\ present \subseteq Addresses /\ advertised \subseteq present
  /\ pc \in [Kinds -> {"idle", "loop"}]
  /\ \A k \in Kinds : next[k] \in 1..Len(Lists[k])
  /\ failures \in 0..MaxSendFailures

(* Every address whose interface exists is eventually advertised: a        *)
(* failure on one address is repaired by a later call and never keeps      *)
(* another address from being announced (spec 4.7).                        *)
EveryReachableAdvertised ==
  \A a \in Addresses \ Unpluggable : <>(a \in advertised)
=============================================================================
