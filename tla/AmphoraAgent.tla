---------------------------- MODULE AmphoraAgent ----------------------------
(***************************************************************************)
(* The amphora agent's process reconciler and the VRRP check script it     *)
(* maintains (src/octavia/amphorae/backends/agent/api_server/util.py).      *)
(*                                                                         *)
(* The agent serves REST requests for several load balancers.  A request   *)
(* that starts, stops or reloads a proxy runs systemctl and then calls     *)
(* vrrp_check_script_update, which lists the load balancers that have a    *)
(* config file (get_loadbalancers) and the LVS listeners                   *)
(* (get_lvs_listeners), and rewrites the one check script that keepalived  *)
(* runs to decide whether this amphora may stay MASTER.  The listing and   *)
(* the write are separate steps, so requests of other load balancers may   *)
(* run in between.  PUT requests for the same load balancer are serialised *)
(* (spec section 5); a DELETE is not, and runs beside them.  The request   *)
(* handlers themselves and keepalived are not under src/ and are modelled  *)
(* from the spec.                                                          *)
(***************************************************************************)
EXTENDS Naturals, FiniteSets

CONSTANTS
  LBs,           \* load balancer ids served by this amphora
  LvsListeners,  \* UDP/SCTP listener ids (keepalived LVS config files)
  Threads,       \* request handlers that may run at the same time
  NoOwner        \* no request holds a load balancer

ASSUME NoOwner \notin Threads

Actions == {"START", "STOP", "RELOAD"}   \* consts.AMP_ACTION_*

VARIABLES
  configured,  \* lbs whose haproxy.cfg exists under base_path/<lb_id>/
  running,     \* lbs whose proxy process is alive
  pidFile,     \* lbs whose <lb_id>.pid exists
  lvs,         \* listeners with an octavia-keepalivedlvs-<id>.conf
  script,      \* haproxy_check_script.sh: absent, empty (truncated by
               \* open(..., 'w') and not yet written), `exit 1`, or a check
  pc,          \* per thread: "idle", "update" (in vrrp_check_script_update),
               \* "listed", "opened" (the script is open for writing), or
               \* "probed" (a delete saw the PID file exist)
  req,         \* per thread: the request being served
  seenLbs,     \* per thread: lb_ids as listed by get_loadbalancers
  seenLvs,     \* per thread: lvs_ids as listed by get_lvs_listeners
  owner        \* per lb: the thread serving a PUT request for it

agentVars == <<configured, running, pidFile, lvs, script, pc, req, seenLbs,
               seenLvs, owner>>

Absent == [kind |-> "absent", socks |-> {}]
Empty == [kind |-> "empty", socks |-> {}]
Exit1 == [kind |-> "exit1", socks |-> {}]
\* `haproxy-vrrp-check <sock> ...; exit $?`
Check(lbs) == [kind |-> "check", socks |-> lbs]

Scripts == {Absent, Empty, Exit1} \cup {Check(s) : s \in SUBSET LBs}
NoReq == [lb |-> NoOwner, action |-> "NONE"]

(***************************************************************************)
(* Reading the agent's files.                                              *)
(***************************************************************************)

\* os.listdir(base_path) filtered on os.path.exists(config_path(f)).
get_loadbalancers == configured

\* *.conf files named octavia-keepalivedlvs-<id> under base_path/lvs.
get_lvs_listeners == lvs

\* is_lb_running is two reads: os.path.exists(pid_path(lb)), then
\* get_haproxy_pid opens the file and /proc/<pid> is looked up.  The file
\* may be gone by the second read (open raises FileNotFoundError).  Whether
\* /proc/<pid> exists (a crashed proxy's stale PID may even name another
\* process) only decides whether the delete calls systemctl stop, which
\* leaves the proxy stopped either way, so only the first read is state.
pid_file_exists(lb) == lb \in pidFile

(***************************************************************************)
(* The content vrrp_check_script_update writes, from what it listed.  A    *)
(* STOP whose lb is not in the list makes lb_ids.remove raise ValueError, *)
(* and the script is left as it was.                                       *)
(***************************************************************************)
\* Mutant: the stopped load balancer is dropped for every action.
MutScriptAlwaysDrops(cur, lbIds, lvsIds, lb, action) ==
  IF lbIds = {} THEN (IF lvsIds = {} THEN Exit1 ELSE Absent)
  ELSE Check(lbIds \ {lb})

ScriptAfter(cur, lbIds, lvsIds, lb, action) ==
  IF lbIds = {}
    THEN IF lvsIds = {} THEN Exit1 ELSE Absent
  ELSE IF action = "STOP" /\ lb \notin lbIds
    THEN cur
  ELSE Check(IF action = "STOP" THEN lbIds \ {lb} ELSE lbIds)

(***************************************************************************)
(* Requests.                                                               *)
(***************************************************************************)

Free(t, lb) == pc[t] = "idle" /\ owner[lb] = NoOwner

\* The PUT request of thread t returns and releases its load balancer.
Release(t) ==
  /\ pc' = [pc EXCEPT ![t] = "idle"]
  /\ owner' = [owner EXCEPT ![req[t].lb] = NoOwner]
  /\ req' = [req EXCEPT ![t] = NoReq]

\* What systemctl start/reload (haproxy writes its PID file) or stop (the
\* PID file is removed as haproxy exits) leaves behind.
AfterSystemctl(lb, a) ==
  /\ running' = IF a = "STOP" THEN running \ {lb} ELSE running \cup {lb}
  /\ pidFile' = IF a = "STOP" THEN pidFile \ {lb} ELSE pidFile \cup {lb}

\* PUT .../loadbalancer/<lb>/<action>: 404 unless the config exists; the
\* systemctl command succeeds, then vrrp_check_script_update is entered.
\* (A failing run_systemctl_command ends the request with 500 before
\* anything changes, a stuttering step.)
Accept(t, lb, a) ==
  /\ Free(t, lb)
  /\ lb \in get_loadbalancers
  /\ AfterSystemctl(lb, a)
  /\ pc' = [pc EXCEPT ![t] = "update"]
  /\ req' = [req EXCEPT ![t] = [lb |-> lb, action |-> a]]
  /\ owner' = [owner EXCEPT ![lb] = t]
  /\ UNCHANGED <<configured, lvs, script, seenLbs, seenLvs>>

\* vrrp_check_script_update, first half: list the load balancers and the
\* LVS listeners.
ListLbs(t) ==
  /\ pc[t] = "update"
  /\ seenLbs' = [seenLbs EXCEPT ![t] = get_loadbalancers]
  /\ seenLvs' = [seenLvs EXCEPT ![t] = get_lvs_listeners]
  /\ pc' = [pc EXCEPT ![t] = "listed"]
  /\ UNCHANGED <<configured, running, pidFile, lvs, script, req, owner>>

\* Whether vrrp_check_script_update goes on to open(..., 'w') the script:
\* it does to write `exit 1` or a check, not to os.remove it, nor when
\* lb_ids.remove raises first.
OpensScript(t) ==
  IF seenLbs[t] = {} THEN seenLvs[t] = {}
  ELSE ~(req[t].action = "STOP" /\ req[t].lb \notin seenLbs[t])

\* open(haproxy_check_script_path(), 'w') truncates the script before
\* text_file.write puts the new command in it.
OpenScript(t) ==
  /\ pc[t] = "listed"
  /\ OpensScript(t)
  /\ script' = Empty
  /\ pc' = [pc EXCEPT ![t] = "opened"]
  /\ UNCHANGED <<configured, running, pidFile, lvs, req, seenLbs, seenLvs, owner>>

\* vrrp_check_script_update, last step: write the opened script, or remove
\* it, or raise; the request then returns and releases its lb.
WriteScript(t) ==
  /\ \/ pc[t] = "listed" /\ ~OpensScript(t)
     \/ pc[t] = "opened"
  /\ script' = ScriptAfter(script, seenLbs[t], seenLvs[t], req[t].lb, req[t].action)
  /\ Release(t)
  /\ UNCHANGED <<configured, running, pidFile, lvs, seenLbs, seenLvs>>

\* PUT .../loadbalancer/<lb>/haproxy: the config file is written.
UploadConfig(t, lb) ==
  /\ Free(t, lb)
  /\ configured' = configured \cup {lb}
  /\ UNCHANGED <<running, pidFile, lvs, script, pc, req, seenLbs, seenLvs, owner>>

\* DELETE .../loadbalancer/<lb> (200 at once if the lb has no config), its
\* first read: is_lb_running's os.path.exists(pid_path).  Without a PID
\* file the proxy is not running and the directory is removed at once.
\* A DELETE is not a PUT: it takes no lock (spec 5 serialises PUTs only)
\* and may run while a start, stop or reload of the same lb is in flight.
DeleteLb(t, lb) ==
  /\ pc[t] = "idle"
  /\ lb \in get_loadbalancers
  /\ IF pid_file_exists(lb)
       THEN /\ pc' = [pc EXCEPT ![t] = "probed"]
            /\ req' = [req EXCEPT ![t] = [lb |-> lb, action |-> "DELETE"]]
            /\ UNCHANGED <<configured, pidFile>>
       ELSE /\ configured' = configured \ {lb}
            /\ UNCHANGED <<pidFile, pc, req>>
  /\ UNCHANGED <<running, lvs, script, seenLbs, seenLvs, owner>>

\* Mutant: the directory is removed but the proxy is left running.
MutReadPidKeepsProxy(t) ==
  /\ pc[t] = "probed"
  /\ IF pid_file_exists(req[t].lb)
       THEN /\ configured' = configured \ {req[t].lb}
            /\ pidFile' = pidFile \ {req[t].lb}
       ELSE UNCHANGED <<configured, pidFile>>
  /\ pc' = [pc EXCEPT ![t] = "idle"]
  /\ req' = [req EXCEPT ![t] = NoReq]
  /\ UNCHANGED <<running, lvs, script, seenLbs, seenLvs, owner>>

\* The delete's second read, get_haproxy_pid: a vanished PID file raises
\* FileNotFoundError and the request fails with the directory left in
\* place; otherwise the proxy is stopped and the directory removed.
ReadPid(t) ==
  /\ pc[t] = "probed"
  /\ IF pid_file_exists(req[t].lb)
       THEN /\ running' = running \ {req[t].lb}
            /\ configured' = configured \ {req[t].lb}
            /\ pidFile' = pidFile \ {req[t].lb}
       ELSE UNCHANGED <<running, configured, pidFile>>
  /\ pc' = [pc EXCEPT ![t] = "idle"]
  /\ req' = [req EXCEPT ![t] = NoReq]
  /\ UNCHANGED <<lvs, script, seenLbs, seenLvs, owner>>

\* The proxy dies on its own; its PID file is left behind.
ProxyCrash(lb) ==
  /\ lb \in running
  /\ running' = running \ {lb}
  /\ UNCHANGED <<configured, pidFile, lvs, script, pc, req, seenLbs, seenLvs, owner>>

\* Upload or delete of a UDP/SCTP listener's keepalived LVS config.
UploadLvs(l) ==
  /\ lvs' = lvs \cup {l}
  /\ UNCHANGED <<configured, running, pidFile, script, pc, req, seenLbs, seenLvs, owner>>

DeleteLvs(l) ==
  /\ lvs' = lvs \ {l}
  /\ UNCHANGED <<configured, running, pidFile, script, pc, req, seenLbs, seenLvs, owner>>

Init ==
  /\ configured = {}
  /\ running = {}
  /\ pidFile = {}
  /\ lvs = {}
  /\ script = Absent
  /\ pc = [t \in Threads |-> "idle"]
  /\ req = [t \in Threads |-> NoReq]
  /\ seenLbs = [t \in Threads |-> {}]
  /\ seenLvs = [t \in Threads |-> {}]
  /\ owner = [lb \in LBs |-> NoOwner]

Next ==
  \/ \E t \in Threads, lb \in LBs, a \in Actions :
        Accept(t, lb, a)
  \/ \E t \in Threads : ListLbs(t) \/ OpenScript(t) \/ WriteScript(t) \/ ReadPid(t)
  \/ \E t \in Threads, lb \in LBs : UploadConfig(t, lb) \/ DeleteLb(t, lb)
  \/ \E l \in LvsListeners : UploadLvs(l) \/ DeleteLvs(l)
  \/ \E lb \in LBs : ProxyCrash(lb)

\* A handler that has begun a request runs it to its end: the steps of a
\* request in flight are weakly fair.  Requests and crashes are not.
Fairness ==
  \A t \in Threads :
    /\ WF_agentVars(ListLbs(t))
    /\ WF_agentVars(OpenScript(t))
    /\ WF_agentVars(WriteScript(t))
    /\ WF_agentVars(ReadPid(t))

Spec == Init /\ [][Next]_agentVars /\ Fairness

(***************************************************************************)
(* Properties.                                                             *)
(***************************************************************************)

Quiescent == \A t \in Threads : pc[t] = "idle"

\* keepalived's view: haproxy-vrrp-check exits 0 when every socket it is
\* given answers, so a check script passes iff its sockets are all alive;
\* an empty script is run by the shell and exits 0.
CheckPasses ==
  \/ script.kind = "empty"
  \/ script.kind = "check" /\ script.socks \subseteq running

AgentTypeOK ==
  /\ configured \subseteq LBs /\ running \subseteq configured
  /\ pidFile \subseteq LBs
  /\ lvs \subseteq LvsListeners
  /\ script \in Scripts
  /\ pc \in [Threads -> {"idle", "update", "listed", "opened", "probed"}]
  /\ req \in [Threads -> {NoReq} \cup [lb : LBs, action : Actions \cup {"DELETE"}]]
  /\ seenLbs \in [Threads -> SUBSET LBs]
  /\ seenLvs \in [Threads -> SUBSET LvsListeners]
  /\ owner \in [LBs -> Threads \cup {NoOwner}]

(* Once every request has returned, the check script watches every proxy   *)
(* that runs: a proxy started by a request is never missing from the       *)
(* socket list vrrp_check_script_update wrote, so keepalived demotes the   *)
(* amphora when it dies.                                                   *)
RunningMonitored ==
  Quiescent /\ running /= {} =>
    script.kind = "check" /\ running \subseteq script.socks

(* The generated haproxy check never passes while no proxy runs: with no   *)
(* provisioned proxy keepalived must see the check fail and demote the     *)
(* amphora (spec 4.6).                                                     *)
NeverPassesWithoutProxy ==
  CheckPasses => running /= {}
=============================================================================
