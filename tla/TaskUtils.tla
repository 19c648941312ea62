----------------------------- MODULE TaskUtils -----------------------------
(***************************************************************************)
(* The status helpers of the controller worker's tasks                     *)
(* (src/octavia/controller/worker/task_utils.py, class TaskUtils).          *)
(*                                                                         *)
(* Every helper writes one column of one row inside its own database       *)
(* transaction.  A commit either lands or raises.  The helpers differ only *)
(* in what they do with the exception:                                     *)
(*   - most catch it, log it and return: the write is silently lost;       *)
(*   - the two load-balancer helpers are wrapped in the tenacity decorator *)
(*     status_update_retry and re-raise, so the write is retried with      *)
(*     incrementing waits and, once the attempts are used up, tenacity     *)
(*     raises RetryError to the caller.                                    *)
(*                                                                         *)
(* One call is in flight at a time (the helpers are called synchronously   *)
(* from a task's revert method).  The caller sees the end of the call in   *)
(* `result`.                                                                *)
(***************************************************************************)
EXTENDS Naturals, Sequences, FiniteSets

CONSTANTS
  Rows,            \* rows of the status store, pairs <<table, id>>
  InitialDb,       \* the store's contents when the model starts
  FallibleTables,  \* tables whose commits may fail transiently
  MaxAttempts,     \* CONF.controller_worker.db_commit_retry_attempts
  InitialDelay,    \* CONF.controller_worker.db_commit_retry_initial_delay
  Backoff,         \* CONF.controller_worker.db_commit_retry_backoff
  MaxWait          \* CONF.controller_worker.db_commit_retry_max

VARIABLES
  db,       \* [Rows -> Values]: the column each helper writes
  call,     \* the helper call in flight, or NoCall
  attempt,  \* failed attempts of the call in flight (tenacity attempt_number - 1)
  waited,   \* seconds slept by tenacity during the call in flight
  result    \* how the last call ended

tuVars == <<db, call, attempt, waited, result>>

Tables == {"amphora", "amphora_health", "health_monitor", "l7policy",
           "l7rule", "listener", "load_balancer", "member", "pool"}

(* provisioning_status values (octavia.common.constants); NO_ROW stands   *)
(* for a row that has been deleted, BUSY/NOT_BUSY for amphora_health.busy. *)
Statuses == {"PENDING_CREATE", "PENDING_UPDATE", "PENDING_DELETE",
             "ACTIVE", "ERROR", "DELETED"}
Values == Statuses \cup {"NO_ROW", "BUSY", "NOT_BUSY"}

ASSUME \A r \in Rows : r[1] \in Tables
ASSUME InitialDb \in [Rows -> Values]
ASSUME FallibleTables \subseteq Tables
ASSUME MaxAttempts \in Nat \ {0}
ASSUME {InitialDelay, Backoff, MaxWait} \subseteq Nat

NoCall == [helper |-> "none", row |-> <<"none", "none">>]

(***************************************************************************)
(* The helpers.  Each is the column value it writes and whether it is      *)
(* wrapped in status_update_retry.                                         *)
(***************************************************************************)
Helper(name, table, value, retried) ==
  [name |-> name, table |-> table, value |-> value, retried |-> retried]

unmark_amphora_health_busy ==
  Helper("unmark_amphora_health_busy", "amphora_health", "NOT_BUSY", FALSE)
mark_amphora_status_error ==
  Helper("mark_amphora_status_error", "amphora", "ERROR", FALSE)
mark_health_mon_prov_status_error ==
  Helper("mark_health_mon_prov_status_error", "health_monitor", "ERROR", FALSE)
mark_l7policy_prov_status_active ==
  Helper("mark_l7policy_prov_status_active", "l7policy", "ACTIVE", FALSE)
mark_l7policy_prov_status_error ==
  Helper("mark_l7policy_prov_status_error", "l7policy", "ERROR", FALSE)
mark_l7rule_prov_status_error ==
  Helper("mark_l7rule_prov_status_error", "l7rule", "ERROR", FALSE)
mark_listener_prov_status_error ==
  Helper("mark_listener_prov_status_error", "listener", "ERROR", FALSE)
mark_loadbalancer_prov_status_error ==
  Helper("mark_loadbalancer_prov_status_error", "load_balancer", "ERROR", TRUE)
mark_listener_prov_status_active ==
  Helper("mark_listener_prov_status_active", "listener", "ACTIVE", FALSE)
mark_pool_prov_status_active ==
  Helper("mark_pool_prov_status_active", "pool", "ACTIVE", FALSE)
mark_loadbalancer_prov_status_active ==
  Helper("mark_loadbalancer_prov_status_active", "load_balancer", "ACTIVE", TRUE)
mark_member_prov_status_error ==
  Helper("mark_member_prov_status_error", "member", "ERROR", FALSE)
mark_pool_prov_status_error ==
  Helper("mark_pool_prov_status_error", "pool", "ERROR", FALSE)

Helpers ==
  {unmark_amphora_health_busy, mark_amphora_status_error,
   mark_health_mon_prov_status_error, mark_l7policy_prov_status_active,
   mark_l7policy_prov_status_error, mark_l7rule_prov_status_error,
   mark_listener_prov_status_error, mark_loadbalancer_prov_status_error,
   mark_listener_prov_status_active, mark_pool_prov_status_active,
   mark_loadbalancer_prov_status_active, mark_member_prov_status_error,
   mark_pool_prov_status_error}

(***************************************************************************)
(* tenacity policy of status_update_retry.                                 *)
(***************************************************************************)
\* Mutant: the cap db_commit_retry_max is not applied.
MutWaitUncapped(k) == InitialDelay + Backoff * (k - 1)

\* wait_incrementing: the sleep after failed attempt number k.
Wait(k) ==
  LET w == InitialDelay + Backoff * (k - 1)
  IN  IF w > MaxWait THEN MaxWait ELSE w

\* Mutant: stop one attempt late.
MutStopLate(k) == k > MaxAttempts

\* stop_after_attempt: give up once attempt number k has failed.
StopAfterAttempt(k) == k >= MaxAttempts

(***************************************************************************)
(* Operations.                                                             *)
(***************************************************************************)

\* repo.update(session, id=..., <column>=value): an UPDATE ... WHERE id
\* matches no row once the row is deleted, and then changes nothing.
UpdateRow(store, row, value) ==
  IF store[row] = "NO_ROW" THEN store ELSE [store EXCEPT ![row] = value]

\* A caller enters helper h for row `row`.
Invoke(h, row) ==
  /\ call = NoCall
  /\ row \in Rows /\ row[1] = h.table
  /\ call' = [helper |-> h.name, row |-> row]
  /\ attempt' = 0
  /\ waited' = 0
  /\ result' = "pending"
  /\ UNCHANGED db

CurrentHelper == CHOOSE h \in Helpers : h.name = call.helper

\* `with db_apis.session().begin() as session: repo.update(...)` commits.
Commit ==
  /\ call /= NoCall
  /\ db' = UpdateRow(db, call.row, CurrentHelper.value)
  /\ call' = NoCall
  /\ result' = "ok"
  /\ UNCHANGED <<attempt, waited>>

\* The commit raises in a helper that is not retried: the except branch
\* logs the error and returns normally.
CommitFailsSwallowed ==
  /\ call /= NoCall
  /\ call.row[1] \in FallibleTables
  /\ ~CurrentHelper.retried
  /\ call' = NoCall
  /\ result' = "swallowed"
  /\ UNCHANGED <<db, attempt, waited>>

\* The commit raises in a retried helper: save_and_reraise_exception hands
\* it to tenacity, which sleeps and calls the helper again ...
CommitFailsRetry ==
  /\ call /= NoCall
  /\ call.row[1] \in FallibleTables
  /\ CurrentHelper.retried
  /\ ~StopAfterAttempt(attempt + 1)
  /\ attempt' = attempt + 1
  /\ waited' = waited + Wait(attempt + 1)
  /\ UNCHANGED <<db, call, result>>

\* ... or, the attempts being used up, raises RetryError to the caller.
CommitFailsRaise ==
  /\ call /= NoCall
  /\ call.row[1] \in FallibleTables
  /\ CurrentHelper.retried
  /\ StopAfterAttempt(attempt + 1)
  /\ call' = NoCall
  /\ result' = "raised"
  /\ UNCHANGED <<db, attempt, waited>>

\* The steps a helper call takes once entered.
HelperStep ==
  \/ Commit
  \/ CommitFailsSwallowed
  \/ CommitFailsRetry
  \/ CommitFailsRaise

\* get_current_loadbalancer_from_db: repo.get in its own session returns the
\* row, or None when there is no such row; an exception is logged and None
\* is returned as well.
get_current_loadbalancer_from_db(row) ==
  /\ call = NoCall
  /\ row \in Rows /\ row[1] = "load_balancer"
  /\ \/ result' = IF db[row] = "NO_ROW" THEN "None" ELSE "found"
     \/ row[1] \in FallibleTables /\ result' = "None"
  /\ UNCHANGED <<db, call, attempt, waited>>

TUInit ==
  /\ db = InitialDb
  /\ call = NoCall
  /\ attempt = 0
  /\ waited = 0
  /\ result = "none"

\* Standalone: a caller that enters any helper for any row.
TUNext ==
  \/ \E h \in Helpers, r \in Rows : Invoke(h, r)
  \/ HelperStep
  \/ \E r \in Rows : get_current_loadbalancer_from_db(r)

TUSpec == TUInit /\ [][TUNext]_tuVars

(***************************************************************************)
(* Properties.                                                             *)
(***************************************************************************)

TUTypeOK ==
  /\ db \in [Rows -> Values]
  /\ call \in {NoCall} \cup [helper : {h.name : h \in Helpers}, row : Rows]
  /\ attempt \in 0..(MaxAttempts - 1)
  /\ waited \in Nat
  /\ result \in {"none", "pending", "ok", "swallowed", "raised",
                 "found", "None"}

(* A retried helper raises RetryError to its caller only after exactly    *)
(* db_commit_retry_attempts failed commits, never before and never later   *)
(* (status_update_retry's stop_after_attempt).                              *)
AttemptsExact ==
  [][result' = "raised" /\ result /= "raised" => attempt + 1 = MaxAttempts]_tuVars

(* A revert blocked in status_update_retry sleeps at most                 *)
(* (db_commit_retry_attempts - 1) * db_commit_retry_max seconds: a stuck   *)
(* datastore cannot hang a revert for ever.                                *)
RetryTimeBounded ==
  waited <= (MaxAttempts - 1) * MaxWait
=============================================================================
