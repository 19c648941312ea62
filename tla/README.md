# TLA+ models of the Octavia control-plane flows and amphora agent

This directory holds TLA+ modules that model parts of the repository under
`src/octavia`. It also holds the TLC configurations that check them.
`PROJECT.json` lists every component, every run, every mutant, the source
lines each definition models (`map`), the findings and the hazards.

## 1. Inventory

### Components, their state and operations

| Component | Source | State it keeps | Operations |
|---|---|---|---|
| Flow engine (taskflow, not in `src/`) | spec 4.1 | position in a linear flow, the tasks executed so far | execute the next task; on failure revert the executed tasks in reverse order |
| L7 policy flows | `controller/worker/v2/flows/l7policy_flows.py` | none (builds flows) | create / update / delete flow: lifecycle task, mark PENDING, push listeners to the amphora, DB change, mark ACTIVE |
| Status helpers (`TaskUtils`) | `controller/worker/task_utils.py` | none of its own; writes the status store | 13 `mark_*`/`unmark_*` helpers, each one transaction; the two load-balancer helpers are retried by tenacity (`status_update_retry`) |
| Status store (database, not in `src/`) | spec 2 | `provisioning_status` per row, `busy` of amphora_health, l7policy quota | `update` per helper; transactions that can fail transiently |
| Agent proxy registry | `amphorae/backends/agent/api_server/util.py` 151-249 | config/PID/socket files per load balancer, LVS config files per listener | `get_loadbalancers`, `is_lb_running`, `get_lvs_listeners`, `get_backend_for_lb_object`, `run_systemctl_command`, `install_netns_systemd_service` |
| VRRP check script | util.py 296-324 | the check script file read by keepalived | `vrrp_check_script_update(lb_id, action)` |
| Config introspector | util.py 252-293, 327-376 | none (reads config files) | `parse_haproxy_file`, `get_haproxy_vip_addresses`, `get_lvs_vip_addresses` |
| Failover advertiser | util.py 379-421 | none | `send_vip_advertisements`, `send_member_advertisements` |
| Path helpers | util.py 44-148 | none | string joins naming the files above |
| Telemetry config | util.py 427-471 | two files under `/etc/alloy` | `update_alloy_configuration` |
| Keystone session | `common/keystone.py` | cached session and auth plugin | `get_session`, `get_auth`, `SkippingAuthProtocol.process_request` |
| Network data models, RBAC policies, migrations | `network/data_models.py`, `policies/*`, `db/migration/*` | none at run time | data classes, static rule tables, DDL |

### How the components interact

The API layer locks an entity by marking it and its ancestors `PENDING_*`, and
then starts a flow. The flow engine runs the flow's tasks in one worker
thread. Database tasks write the status store. Driver tasks (such as
`ListenersUpdate`) call the amphora agent's REST API, which rewrites the
proxy configuration and, through `vrrp_check_script_update`, the script that
keepalived runs to decide whether this amphora may stay MASTER. When a task
raises, the engine calls the revert of every task that already ran, last
first. Reverts use the `TaskUtils` helpers to mark entities `ERROR` or
restore them to `ACTIVE`.

### What is hard

* **Partial failure during revert.** Each helper is its own transaction. Most
  helpers swallow a failed commit. The two load-balancer helpers retry and
  then raise, which cuts off the rest of the revert that called them.
* **Ordering inside a flow.** The lifecycle task is first, so its revert runs
  last. Its restore-ACTIVE writes must win over the ERROR marks written by the
  reverts of later tasks.
* **Irreversible steps.** `DeleteL7PolicyInDB` deletes a row that no revert
  can bring back, and it runs before two more fallible tasks.
* **Retry timing.** The tenacity policy must give up after exactly the
  configured number of attempts, and its waits must stay under the cap.
* **Agent concurrency.** Agent requests for different load balancers each
  list the load balancers and then rewrite the one shared check script.
  Keepalived runs that script at any moment. A proxy may stop between the PID
  file check and the PID file read.
* **Parsing.** The introspector's scanners must handle every configuration the
  renderer produces. This includes TLS frontends, `bind` lines with flags and
  dual-stack LVS groups.

### What makes each component correct

* Flow plus helpers: a flow ends either in the success state or in the
  compensated state (policy `ERROR`, its listener and the load balancer
  `ACTIVE`, quota unchanged). It always ends, and nothing is left `PENDING_*`.
* Retry: a helper raises only after exactly `db_commit_retry_attempts`
  failures, and its total sleep is bounded.
* Check script: it passes only while at least one proxy is provisioned and
  answering. It names every provisioned load balancer and only those.
* Introspector: parsing a rendered configuration gives back the rendered
  listener modes, TLS bindings and VIPs. Parsing the same text twice gives
  the same result.
* Advertiser: when this amphora becomes MASTER, every VIP is advertised.

## 2. Plan

Modules in the order they are built (most important behaviour first):

1. `TaskUtils` (done): the status helpers and the tenacity retry, with
   `MC_TaskUtils`.
2. `L7PolicyFlow` (done): EXTENDS `TaskUtils`. It models the engine and the
   three L7 policy flows, and refines `L7PolicyOperation` (done), the abstract
   "one outcome per operation" specification.
3. `AmphoraAgent` (done): the agent's per-load-balancer config files, the
   running proxies, the LVS config files and the shared check script. Requests
   are served by one or two threads: start/stop/reload (systemctl, then
   `vrrp_check_script_update`), upload and delete.
4. `HaproxyConfig` (done): `parse_haproxy_file`, `get_haproxy_vip_addresses`
   and `get_lvs_vip_addresses` as operators. They are checked against
   reference definitions of the rendered files.
5. `FailoverAdvertiser` (done): `send_vip_advertisements` and
   `send_member_advertisements`, with failing lookups and sends, and
   liveness under repeated calls.
Still to do:

6. Two concurrent flows on one load balancer, composing `L7PolicyFlow`
   instances: the lifecycle revert writes the load balancer `ACTIVE` before
   the listeners, which unlocks the load balancer for a new request while the
   old flow still writes.
7. `is_lb_running` as two reads (done): the delete handler probes the PID
   file, and the proxy may exit or be stopped in between.
8. Compose `AmphoraAgent` with `FailoverAdvertiser`: advertisements while
   keepalived's check decides MASTER/BACKUP, reading the VIP list through
   `HaproxyConfig`. Also an abstract "MASTER only while some proxy serves"
   specification refined by the agent.

## 3. Modules and how they match the code

### `TaskUtils.tla` — `task_utils.py`

* `db` is the store column each helper writes. `call`, `attempt` and `waited`
  describe the helper call in flight. `result` tells the caller how the call
  ended (`ok`, `swallowed` or `raised`).
* There is one constant record per helper, keeping the helper's name: the row
  it writes, the value it writes, and whether it is wrapped in
  `status_update_retry`.
* `Commit` is the transaction landing. `CommitFailsSwallowed` is the except
  branch that logs and returns. `CommitFailsRetry` and `CommitFailsRaise` are
  tenacity's retry and its RetryError.
* `Wait(k)` is `wait_incrementing`. `StopAfterAttempt(k)` is
  `stop_after_attempt`.
* `get_current_loadbalancer_from_db` is the read that returns `found`, or
  `None` both for a deleted row and on a database error.
* `UpdateRow` is the repository's update, which changes nothing once the row
  is deleted.

### `L7PolicyFlow.tla` — `l7policy_flows.py`, the engine and the tasks

* `CreateFlow`, `UpdateFlow` and `DeleteFlow` are the task lists built by the
  three methods, in order.
* `ExecuteTask` runs the next task's execute as one step. `ExecDb` gives its
  writes; `MarkLBAndListenersActiveInDB` writes the load balancer and the
  listeners in one transaction. `TaskFails` is the next task raising, on the
  step given by `ExecStep`.
* Reverting: `RevertTask` loads the helper calls of the task's revert
  (`RevertCalls`). `IssueRevertCall` makes them one at a time through
  `TaskUtils`. `RevertRaised` drops the rest of a revert after a helper
  raises. `RevertDecrementL7policyQuota` gives the quota back.
  `FinishRevert` ends the flow.
* The engine and the task classes are not under `src/`. They are modelled
  from the spec and marked `spec_modelled` in the map. The spec's engine
  reverts the tasks that executed successfully (not the one that failed), and
  it continues after a revert that raises.

### `L7PolicyOperation.tla` — the abstract operation

It has two actions, `Succeed` and `Compensate`. The operation is decided once,
atomically, under weak fairness. `L7PolicyFlow!Refinement` maps the flow onto
it. While the flow runs, the abstract state is the state the API layer left.
Once the flow ends, it is the store.

### `AmphoraAgent.tla` — util.py 164-190, 296-324

* `configured`, `running` and `lvs` are the files `get_loadbalancers`,
  `is_lb_running` and `get_lvs_listeners` look at. `script` is
  `haproxy_check_script.sh`: absent, empty, `exit 1`, or
  `haproxy-vrrp-check` with a set of sockets.
* `vrrp_check_script_update` is three steps of the thread that calls it.
  `ListLbs` lists the files (lines 296-301). `OpenScript` is
  `open(..., 'w')`, which truncates the script (line 323; also line 308
  for `exit 1`); `OpensScript` says which branches get there (307-317).
  `WriteScript` writes `ScriptAfter` (302-322, 324), or removes the script,
  or leaves it when `lb_ids.remove` raises.
* `Accept`, `UploadConfig`, `DeleteLb`, `UploadLvs` and `DeleteLvs` are the
  agent's request handlers, modelled from the spec. A per-load-balancer
  `owner` lock serialises the PUT requests of one load balancer (spec 5
  names concurrent PUTs only). `DeleteLb` takes no lock: it only needs its
  own thread idle, and may run beside a start or stop of the same load
  balancer.
* `pidFile` is the PID file. `DeleteLb` probes it (`pid_file_exists`,
  util.py 176-177) and, when it exists, goes to `probed`; `ReadPid` then
  reads the PID (`get_haproxy_pid`, 98-100) and stops the proxy, or finds
  the file gone. `ProxyCrash` is haproxy exiting on its own: the process is
  gone, the PID file stays. Restarts of the agent process are not modelled
  (section 5).
  The second read of `is_lb_running`
  (`/proc/<pid>`) changes no state, so it is not a step.
* Fairness: weak fairness on each thread's `ListLbs`, `OpenScript`,
  `WriteScript` and
  `ReadPid`, the steps of a request already accepted; the handler runs to
  its end once started. New requests and crashes are not fair. No run
  checks a liveness property of this module now; the fairness is kept
  because it is what the code gives.
* `CheckPasses` is keepalived's view: `haproxy-vrrp-check` exits 0 when
  every socket it is given answers, and an empty script exits 0.

### `HaproxyConfig.tla` — util.py 33-37, 252-293, 327-376

* A file is a sequence of lines, and a line is its indentation and its
  words. Words that the scanners look inside (addresses and ports) are spelt
  out with `:` and `,`. Keywords, ids and paths are single symbols.
* `SplitAt` and `Pieces` give the result of `FRONTEND_BACKEND_PATTERN.split`.
  A header is matched only if the newline before it was not consumed by the
  previous match. `ParseStep` is the loop over the pieces. `ModeOf`,
  `CrtOf` and `StatsSocketOf` are the three `search` calls.
* `BindSections` and `LvsStep` are the loops of the two VIP scanners.
  `RStrip` and `RPartitionHead` are `str.rstrip` and `str.rpartition`.
* `HaproxyText`, `LvsText` and the `Expected*` definitions are the
  reference. They describe the files the renderer writes and what spec 4.5
  and 8 say must be read back. The renderer is not under `src/`.
* The state machine (`ReadHaproxyConfig`, `ReadHaproxyVips`, `ReadLvsVips`)
  starts from every bounded input and runs each scanner once.

### `FailoverAdvertiser.tla` — util.py 379-421

* `Call(k)` is the failover daemon calling the advertiser for the VIP list
  or the member list. `Advertise` is one iteration. `LookupFails` and
  `SendFails` are the two ways the iteration raises into the one except
  branch, which ends the call. `Plug` is an interface appearing.
* Fairness: the daemon keeps calling (spec 4.7), a call in progress keeps
  stepping, and plugging completes. Send failures are bounded by
  `MaxSendFailures` rather than made unfair.

## 4. Runs

| Run | Expect | What it shows |
|---|---|---|
| `taskutils_retry` | pass | Any sequence of helper calls, every commit fallible, 4 attempts. `AttemptsExact`: RetryError only after exactly 4 failed attempts. `RetryTimeBounded`: sleep at most 3 × 3 s. |
| `l7policy_refines` | pass | Create and update; any execute step may fail; revert writes land. The flow refines `L7PolicyOperation`, including eventually ending. |
| `l7policy_faults` | pass | All three flows with every write fallible, on a load balancer with a sibling listener. `SuccessOutcome`: a flow that ran to its end left nothing PENDING and gave the quota back on delete. |
| `l7policy_swallowed` | violation | `SettledAfterFlow`: the create flow, every revert-path write fallible. The flow fails at `MarkL7PolicyPendingCreateInDB`; the lifecycle revert marks the policy ERROR and the load balancer ACTIVE, and then one lost listener write, swallowed by the helper, leaves the listener PENDING_UPDATE after the flow ended (the trace TLC shows). So does a load-balancer write that fails 3 times, because its RetryError ends the lifecycle revert before the listener write. |
| `l7policy_quota` | violation | `QuotaMatchesRows`: delete fails after the row is gone, and the quota still counts the policy. |
| `agent_serial` | pass | Requests served one at a time. `RunningMonitored`: whenever no request is in flight, every running proxy's socket is in the check script. `AgentTypeOK` also says a proxy never runs without its config directory. |
| `agent_race` | violation | `RunningMonitored`: START of lb1 lists {lb1}; START of lb2 lists and writes {lb1, lb2}; the first request then writes {lb1}. |
| `agent_empty` | violation | `NeverPassesWithoutProxy`: the script truncated by `open(..., 'w')` is empty and passes while no proxy runs (the trace TLC shows). Also, STOP of the only load balancer writes `haproxy-vrrp-check ; exit $?` with no sockets, which passes. |
| `introspector_roundtrip` | pass | Every rendered config of up to 2 listeners (mode, TLS, IPv4/IPv6 VIP, stats socket present or not) and every LVS config of up to 2 groups is read back exactly. A missing stats socket gives ParsingError. |
| `introspector_two_targets` | violation | `VipRoundTrip` with two bind targets per listener: `bind a:p,a:p` is read back as the one address `a:p,a`, where spec 4.5 says the second target is stripped. |
| `advertiser_live` | pass | `EveryReachableAdvertised`: with interfaces plugged late and 2 send failures, every address is eventually advertised. |
| `advertiser_dead` | violation | The first VIP's interface never appears, and the second VIP is never advertised. |

Each property of a passing run has a mutant in `PROJECT.json`: the stop
condition one attempt late, the wait cap dropped, the lifecycle task moved
after the driver call, and `MarkL7PolicyActiveInDB` dropped from the update
flow, the stopped load balancer dropped for every action, a delete that
leaves the proxy running, no TERMINATED_HTTPS override, `partition` for `rpartition`, an
LVS group that never closes, and an advertiser loop that returns early or
runs past the end of its list. TLC finds each mutant.

### Bounds

* One load balancer and one policy. The policy has one listener, and
  `l7policy_faults` adds a sibling listener. `ListenersUpdate` acts on every
  listener of the load balancer, and its revert marks all of them ERROR.
  With the sibling, `Refinement` fails: a create whose
  `MarkL7PolicyActiveInDB` fails ends with the sibling in ERROR, where
  `L7PolicyOperation` keeps it ACTIVE. The refinement run keeps one
  listener, and no violation run records the sibling case (see the hazard
  at l7policy_flows.py:38).
* `introspector_roundtrip` uses one bind target per listener, so that the
  other readings are checked past the known failure. `introspector_two_targets`
  (`MaxTargets = 2`, one listener) records that failure: `bind a:p,a:p`
  reads back as `a:p,a`, because only trailing commas are stripped
  (util.py 341-342).
* `MaxAttempts = 3` in the flow runs and 4 in `taskutils_retry`. That is
  enough for a retry followed by success, and for exhaustion. The wait
  constants are chosen so that an uncapped wait passes the bound.
* Every execute step and every write may fail, each at most once per
  attempt. There is no further bound on the number of failures, because each
  failure moves the flow forward.

* Agent: two load balancers (needed for a lost update, and for a stopped
  load balancer among running ones), one LVS listener, and one or two
  threads. Two threads already break `RunningMonitored`, so the pass run
  has one; with one thread the unlocked DELETE never meets another request,
  and its races (a STOP removing the PID file between the delete's two
  reads, or a delete removing the config before a STOP lists it) are
  hazards in `PROJECT.json` that no run records.
* Introspector: IPv4 and IPv6 spellings of a VIP, both modes, TLS or not,
  up to two listeners and two groups. That is every shape the renderer
  gives a frontend, and a second listener so that sections follow each
  other.
* Advertiser: a two-VIP (dual-stack) list and a one-address member list,
  with one VIP plugged late.

### Fairness

`L7PolicyFlow` has weak fairness on its whole next-state relation. The flow
runs in one worker thread that is never blocked forever: every database or
driver call returns or raises, and tenacity's retries are bounded. Deadlock
checking is off in the flow runs, because a flow really ends (`success` or
`reverted`) and then nothing is left to do.

`AmphoraAgent` has weak fairness on the steps of an accepted request, per
thread: a handler that has called systemctl goes on to list and write the
script, and a delete that probed the PID file goes on to read it. Nothing
in a handler blocks forever. Arrivals of requests and proxy crashes are
environment steps and get no fairness.

## 5. Not modelled

* The data models, RBAC tables and migrations (see `PROJECT.json`). They
  are declarations, with no behaviour a model checker adds to.
* The keystone session (`common/keystone.py`). Its lazy check-then-assign
  of `_session` and `_auth` races between threads, and its fallback writes
  the process-wide configuration. Both are listed as hazards. Each needs a
  model with runs of its own, and the runs are spent on the flows and the
  agent.
* `update_alloy_configuration`: HTTP metadata fetch and text substitution in
  files nothing else reads. Its hazards (in-place truncating write, a
  swallowed failure of the second file) are listed in `PROJECT.json`.
* The content of rendered configurations and the data fields of entities.
  Only statuses, row existence and the quota count are kept.
* `install_netns_systemd_service`, `get_backend_for_lb_object` and the path
  helpers (util.py 44-161, 199-249). They are string joins, a read no
  modelled request uses, and a write-once unit file.
* Operating status aggregation: its tasks are not under `src/` and are not
  in the L7 policy flows.
* Restarts of the amphora agent process. A restart between `open(..., 'w')`
  and the write leaves the check script empty, and so passing, until a later
  request rewrites it; nothing on agent start rewrites it. It would break
  `RunningMonitored` in the one pass run that could fire it, and
  `agent_empty` already fails `NeverPassesWithoutProxy` on the truncated
  script without a restart. It is a hazard in `PROJECT.json`.
