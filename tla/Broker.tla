------------------------------- MODULE Broker -------------------------------
(***************************************************************************)
(* The daemon around the broker registry, for one route: the MCP sessions  *)
(* that hold it open, the worker processes they launch, the control        *)
(* sessions of the workers, the durable record of the one generation that  *)
(* may recover, and a daemon that stops and starts again.                  *)
(*                                                                         *)
(* A step is what runs between two points where other tasks can come in:   *)
(* an await, a spawned task, or the release of the lock of one table       *)
(* (registry, activations, mcp_sessions, worker_sessions, peers).          *)
(* worker_generation_publication is the mutex `lock`; the per-session      *)
(* transaction gate of the socket hub is `gate`.                           *)
(*                                                                         *)
(* Time: deadlines pass when the model lets them.  Activation ids are      *)
(* random in the code; an id nothing refers to any more may come back.     *)
(***************************************************************************)
EXTENDS BrokerRegistry

CONSTANTS
    Req,            \* requests to the public proxy
    MaxFaults       \* bound: crashes, lost connections and failed steps of one behaviour

ASSUME FaultAssumption == MaxFaults \in Nat

VARIABLES
    \* the daemon's memory
    route,      \* the registry entry
    grants,     \* activations: "none", "issued" or "consumed", per activation
    remember,   \* activations in the registry, not yet in the grant table
    mcp,        \* mcp_sessions: "absent", "live" or "released"
    nominate,   \* MCP sessions nominate_relaunch is about to look at
    sess,       \* worker_sessions: "none", "staged" or "published"
    permit,     \* the publication a worker session was staged for
    control,    \* control_available of the worker's target
    peer,       \* hub peers of workers: "none", "up" or "down"
    drained,    \* workers whose hub peer holds a drain request
    gate,       \* what the holder of a worker's gate still has to do
    probe,      \* readiness candidates: "none", "staged" or "published"
    revokes,    \* workers with a spawned generation revocation
    failing,    \* workers between session removal and the registry's failure mark
    draining,   \* the task that drains a worker: "none", "revoke", "send", "wait"
    lock,       \* the publication mutex: None or the worker being published
    previous,   \* the generation a publication replaced
    restarting, \* generation that may still reconnect after a restart
    flight,     \* the worker a request is in flight on
    \* on disk
    active,     \* active-worker-generations.json
    \* the other processes
    proc,       \* MCP processes: "new", "run" or "exited"
    seen,       \* a directive of an MCP process: none yet, a launch, or any other
    child,      \* the worker an MCP process launched, and for which activation
    wproc,      \* worker processes: "idle", "starting", "up", "draining", "exited"
    wgrant,     \* the activation a worker was launched with
    \* bookkeeping of the model
    faults,     \* how many faults have happened
    revoked     \* generations a completed revocation has named

launches == <<grants, remember, nominate>>
sessions == <<sess, permit, control, peer, drained, gate, probe>>
tasks == <<revokes, failing, draining>>
publication == <<lock, previous, active, revoked>>
mcps == <<proc, seen, child>>
workers == <<wproc, wgrant>>
daemon == <<restarting, faults>>
vars == <<route, launches, mcp, sessions, tasks, publication, flight, mcps, workers, daemon>>

NoPermit == [k |-> "existing", a |-> None]
Directives == [d : {"none", "told", "launch"}, a : Act \cup {None}]
NoChild == [w |-> None, a |-> None]
Told(d) == [d |-> d, a |-> None]

-----------------------------------------------------------------------------
MemoryInit ==
    /\ route = NewRoute
    /\ grants = [a \in Act |-> "none"]
    /\ remember = {}
    /\ mcp = [m \in Mcp |-> "absent"]
    /\ nominate = {}
    /\ sess = [w \in Worker |-> "none"]
    /\ permit = [w \in Worker |-> NoPermit]
    /\ control = [w \in Worker |-> FALSE]
    /\ peer = [w \in Worker |-> "none"]
    /\ drained = {}
    /\ gate = [w \in Worker |-> "free"]
    /\ probe = [w \in Worker |-> "none"]
    /\ revokes = {} /\ failing = {}
    /\ draining = [w \in Worker |-> "none"]
    /\ lock = None /\ previous = None
    /\ flight = [q \in Req |-> None]

\* Nothing has been started; any of the MCPs, and any part of the faults, may be left
\* out of a behaviour.
Init ==
    /\ MemoryInit
    /\ restarting = None
    /\ active = None
    /\ proc \in [Mcp -> {"new", "exited"}]
    /\ seen = [m \in Mcp |-> Told("none")]
    /\ child = [m \in Mcp |-> NoChild]
    /\ wproc = [w \in Worker |-> "idle"]
    /\ wgrant = [w \in Worker |-> None]
    /\ faults \in 0 .. MaxFaults
    /\ revoked = {}

RegistryTypes ==
    /\ route \in Route
    /\ grants \in [Act -> {"none", "issued", "consumed"}]
    /\ remember \in SUBSET Act
    /\ mcp \in [Mcp -> {"absent", "live", "released"}]
    /\ nominate \in SUBSET Mcp

SessionTypes ==
    /\ sess \in [Worker -> {"none", "staged", "published"}]
    /\ permit \in [Worker -> Permit]
    /\ control \in [Worker -> BOOLEAN]
    /\ peer \in [Worker -> {"none", "up", "down"}]
    /\ drained \in SUBSET Worker
    /\ gate \in [Worker -> {"free", "stage", "publish", "fail", "expire"}]
    /\ probe \in [Worker -> {"none", "staged", "published"}]

TaskTypes ==
    /\ revokes \in SUBSET Worker /\ failing \in SUBSET Worker
    /\ draining \in [Worker -> {"none", "revoke", "send", "wait"}]
    /\ lock \in Worker \cup {None} /\ previous \in Worker \cup {None}
    /\ restarting \in Worker \cup {None}
    /\ flight \in [Req -> Worker \cup {None}]
    /\ active \in Worker \cup {None}
    /\ revoked \in SUBSET Worker

ProcessTypes ==
    /\ proc \in [Mcp -> {"new", "run", "exited"}]
    /\ seen \in [Mcp -> Directives]
    /\ child \in [Mcp -> [w : Worker \cup {None}, a : Act \cup {None}]]
    /\ wproc \in [Worker -> {"idle", "starting", "up", "draining", "exited"}]
    /\ wgrant \in [Worker -> Act \cup {None}]
    /\ faults \in 0 .. MaxFaults

TypeOK == RegistryTypes /\ SessionTypes /\ TaskTypes /\ ProcessTypes

-----------------------------------------------------------------------------
(* Helpers.                                                                 *)

\* What may go wrong at any time counts against the bound; what follows from
\* something that has already happened does not.
Fault == faults < MaxFaults /\ faults' = faults + 1
FaultUnless(due) == IF due THEN UNCHANGED faults ELSE Fault

\* The worker process runs.
Alive(w) == wproc[w] \in {"starting", "up", "draining"}

\* fresh_launch: an activation id nothing refers to.
FreshActs == {a \in Act :
    /\ route.act # a /\ grants[a] = "none" /\ a \notin remember
    /\ \A m \in Mcp : seen[m].a # a /\ child[m].a # a
    /\ \A w \in Worker : (Alive(w) => wgrant[w] # a) /\ permit[w].a # a}
FreshAct == CHOOSE a \in FreshActs : TRUE

\* A worker id not used before.
NewWorkers == {w \in Worker : wproc[w] = "idle"}
NewWorker == CHOOSE w \in NewWorkers : TRUE

\* revoke_activation
Without(a) == IF a = None THEN grants ELSE [grants EXCEPT ![a] = "none"]

\* Mutant: the launch is handed out during the restart window.
DirectiveNow(r, m) == current_directive(r, m, r.target # None /\ control[r.target])

\* Hub::directive: no launch while a persisted generation may reconnect.
directive(r, m) ==
    LET d == current_directive(r, m, r.target # None /\ control[r.target])
    IN  IF restarting # None /\ d.d = "launch" THEN [d |-> "wait", a |-> None] ELSE d

\* make_route_ready on a directive: a launched child is owned by the broker once
\* the route is ready, and killed once the launch is over in another way.
Heed(m, d) ==
    /\ seen' = [seen EXCEPT ![m] = IF d.d = "launch" THEN d ELSE Told("told")]
    /\ child' = [child EXCEPT ![m] = IF d.d \in {"reuse", "pass"} THEN NoChild ELSE @]
    /\ wproc' = IF d.d = "pass" /\ child[m].w # None /\ Alive(child[m].w)
                THEN [wproc EXCEPT ![child[m].w] = "exited"]
                ELSE wproc

\* ActivationChild::drop
Stopped(m) ==
    IF child[m].w # None /\ Alive(child[m].w)
    THEN [wproc EXCEPT ![child[m].w] = "exited"]
    ELSE wproc

\* Mutant: the revocation leaves the durable record as it is.
RevokeInMemory(w) == revoked' = revoked \cup {w} /\ UNCHANGED active

\* revoke_if_matches, by a holder of the publication mutex.
Revoke(w) ==
    /\ active' = IF active = w THEN None ELSE active
    /\ revoked' = revoked \cup {w}

\* Mutant: a session is dropped as if it never had a permit to lose.
SessionTaken(w) ==
    /\ sess' = [sess EXCEPT ![w] = "none"]
    /\ permit' = [permit EXCEPT ![w] = None]

\* The session leaves worker_sessions; its permit goes with it.
DropSession(w) ==
    /\ sess' = [sess EXCEPT ![w] = "none"]
    /\ permit' = [permit EXCEPT ![w] = NoPermit]

-----------------------------------------------------------------------------
(* MCP sessions.                                                            *)

\* register_mcp, on a first registration and on every one that follows a lost
\* connection.  The grant enters its table in a later step.
RegisterMcp(m) ==
    /\ proc[m] = "new" \/ (proc[m] = "run" /\ seen[m].d = "none")
    /\ FreshActs # {}
    /\ LET a == FreshAct
           r == register_mcp(route, m, a)
       IN  /\ route' = r
           /\ remember' = IF r.act = a THEN remember \cup {a} ELSE remember
           /\ Heed(m, directive(r, m))
    /\ mcp' = [mcp EXCEPT ![m] = "live"]
    /\ proc' = [proc EXCEPT ![m] = "run"]
    /\ UNCHANGED <<grants, nominate, sessions, tasks, publication, flight, wgrant, daemon>>

\* remember_activation
RememberActivation(a) ==
    /\ a \in remember
    /\ remember' = remember \ {a}
    /\ grants' = [grants EXCEPT ![a] = IF @ = "none" THEN "issued" ELSE @]
    /\ UNCHANGED <<route, nominate, mcp, sessions, tasks, publication, flight, mcps,
                   workers, daemon>>

\* The control socket of an MCP sends the current decision when it changed.
ReadDirective(m) ==
    /\ proc[m] = "run" /\ mcp[m] = "live" /\ m \in route.refs
    /\ seen[m].d # "none"
    /\ Heed(m, directive(route, m))
    /\ UNCHANGED <<route, launches, mcp, sessions, tasks, publication, flight, proc, wgrant,
                   daemon>>

\* The connection of an MCP is lost; refresh_registration follows.
McpReconnects(m) ==
    /\ proc[m] = "run" /\ seen[m].d # "none"
    /\ FaultUnless(mcp[m] = "absent")
    /\ seen' = [seen EXCEPT ![m] = Told("none")]
    /\ UNCHANGED <<route, launches, mcp, sessions, tasks, publication, flight, proc, child,
                   workers, restarting>>

\* launch_worker; the child of an earlier activation is stopped first.
LaunchWorker(m) ==
    /\ proc[m] = "run" /\ seen[m].d = "launch" /\ child[m].a # seen[m].a
    /\ NewWorkers # {}
    /\ wproc' = [Stopped(m) EXCEPT ![NewWorker] = "starting"]
    /\ wgrant' = [wgrant EXCEPT ![NewWorker] = seen[m].a]
    /\ child' = [child EXCEPT ![m] = [w |-> NewWorker, a |-> seen[m].a]]
    /\ UNCHANGED <<route, launches, mcp, sessions, tasks, publication, flight, proc, seen,
                   daemon>>

\* report_activation_failed after a launch that failed, a child that exited or one
\* that did not become ready in time; activation_failed in the daemon.  A report the
\* registry rejects ends the MCP process.
ReportActivationFailed(m) ==
    /\ proc[m] = "run" /\ mcp[m] = "live" /\ seen[m].d = "launch"
    /\ LET a == seen[m].a
           current == route.state = "Activating" /\ route.act = a
       IN  /\ route' = mark_activation_failed(route, a)
           /\ grants' = IF current THEN Without(a) ELSE grants
           /\ proc' = IF current THEN proc ELSE [proc EXCEPT ![m] = "exited"]
    /\ seen' = [seen EXCEPT ![m] = Told("none")]
    /\ child' = [child EXCEPT ![m] = NoChild]
    /\ wproc' = Stopped(m)
    /\ UNCHANGED <<remember, nominate, mcp, sessions, tasks, publication, flight, wgrant,
                   daemon>>

\* release in the MCP process, and release_mcp up to the registry call.
ReleaseMcp(m) ==
    /\ proc[m] = "run" /\ mcp[m] = "live"
    /\ mcp' = [mcp EXCEPT ![m] = "released"]
    /\ proc' = [proc EXCEPT ![m] = "exited"]
    /\ seen' = [seen EXCEPT ![m] = Told("none")]
    /\ child' = [child EXCEPT ![m] = NoChild]
    /\ wproc' = Stopped(m)
    /\ UNCHANGED <<route, launches, sessions, tasks, publication, flight, wgrant, daemon>>

\* The MCP process ends without a release: killed, with its child left running, or
\* by an error of its own, which stops the child.
McpCrashes(m) ==
    /\ proc[m] = "run"
    /\ Fault
    /\ proc' = [proc EXCEPT ![m] = "exited"]
    /\ seen' = [seen EXCEPT ![m] = Told("none")]
    /\ child' = [child EXCEPT ![m] = NoChild]
    /\ wproc' \in {wproc, Stopped(m)}
    /\ UNCHANGED <<route, launches, mcp, sessions, tasks, publication, flight, wgrant, restarting>>

\* route_activation_timed_out: nothing but the end of its patience (ACTIVATION_WAIT_MAX)
\* ends the wait of an MCP on an Empty route.  In every other state it waits in, the
\* deadline of the activation or of the drain comes first, or the MCP counts as crashed.
GiveUp(m) ==
    /\ proc[m] = "run" /\ mcp[m] = "live" /\ m \in route.refs
    /\ route.state = "Empty" /\ seen[m].d = "told"
    /\ proc' = [proc EXCEPT ![m] = "exited"]
    /\ seen' = [seen EXCEPT ![m] = Told("none")]
    /\ child' = [child EXCEPT ![m] = NoChild]
    /\ wproc' = Stopped(m)
    /\ UNCHANGED <<route, launches, mcp, sessions, tasks, publication, flight, wgrant, daemon>>

\* Registry::release_mcp and handle_release_action.
ReleaseReference(m) ==
    LET r == release_mcp(route, m)
    IN  /\ route' = r
        /\ grants' = IF route.state = "Activating" /\ r.state = "Empty"
                     THEN Without(route.act) ELSE grants
        /\ nominate' = IF r.state = "Recovering" /\ r.owner # route.owner
                       THEN nominate \cup {r.owner} ELSE nominate
        /\ draining' = IF route.state = "Ready" /\ r.state = "Draining"
                       THEN [draining EXCEPT ![r.target] = "revoke"] ELSE draining

\* release_mcp from the registry call on.
FinishRelease(m) ==
    /\ mcp[m] = "released"
    /\ mcp' = [mcp EXCEPT ![m] = "absent"]
    /\ ReleaseReference(m)
    /\ UNCHANGED <<remember, sessions, revokes, failing, publication, flight, mcps,
                   workers, daemon>>

\* disconnected: the grace period of an MCP without a connection is over.
ExpireMcp(m) ==
    /\ mcp[m] = "live" /\ proc[m] = "exited"
    /\ mcp' = [mcp EXCEPT ![m] = "absent"]
    /\ ReleaseReference(m)
    /\ UNCHANGED <<remember, sessions, revokes, failing, publication, flight, mcps,
                   workers, daemon>>

\* nominate_relaunch
NominateRelaunch(m) ==
    /\ m \in nominate
    /\ nominate' = nominate \ {m}
    /\ IF mcp[m] = "live" /\ route.state = "Recovering" /\ route.owner = m
       THEN /\ FreshActs # {}
            /\ route' = begin_relaunch(route, m, FreshAct)
            /\ remember' = remember \cup {FreshAct}
       ELSE UNCHANGED <<route, remember>>
    /\ UNCHANGED <<grants, mcp, sessions, tasks, publication, flight, mcps, workers, daemon>>

\* The deadline of a launch has passed (Hub::defer_launch puts it after the restart
\* window) and spawn_maintenance, or the next registration, notices.
ExpireActivation(a) ==
    /\ restarting = None
    /\ route.act = a \/ grants[a] # "none"
    /\ route' = mark_activation_failed(route, a)
    /\ grants' = Without(a)
    /\ UNCHANGED <<remember, nominate, mcp, sessions, tasks, publication, flight, mcps,
                   workers, daemon>>

-----------------------------------------------------------------------------
(* Worker registration, recovery and readiness.                             *)

\* Mutant: the grant is looked up, not consumed.
RegisterWorkerTwice(w) ==
    /\ wproc[w] = "starting" /\ gate[w] = "free"
    /\ grants[wgrant[w]] = "issued"
    /\ gate' = [gate EXCEPT ![w] = "stage"]
    /\ permit' = [permit EXCEPT ![w] = [k |-> "activation", a |-> wgrant[w]]]
    /\ UNCHANGED <<route, launches, mcp, sess, control, peer, drained, probe,
                   tasks, publication, flight, mcps, workers, daemon>>

\* register_worker: the one-time grant is consumed before the session is staged.
RegisterWorker(w) ==
    /\ wproc[w] = "starting" /\ gate[w] = "free"
    /\ grants[wgrant[w]] = "issued"
    /\ grants' = [grants EXCEPT ![wgrant[w]] = "consumed"]
    /\ gate' = [gate EXCEPT ![w] = "stage"]
    /\ permit' = [permit EXCEPT ![w] = [k |-> "activation", a |-> wgrant[w]]]
    /\ UNCHANGED <<route, remember, nominate, mcp, sess, control, peer, drained, probe,
                   tasks, publication, flight, mcps, workers, daemon>>

\* replay_worker_registration: the session is still there; the new connection
\* replaces the old one, with the drain request the peer holds.
ReplayRegistration(w) ==
    /\ sess[w] # "none"
    /\ peer' = [peer EXCEPT ![w] = "up"]
    /\ control' = [control EXCEPT ![w] = FALSE]
    /\ UNCHANGED <<gate, permit>>

\* recover_worker: a draining worker only gets its session back; otherwise the
\* durable record must name this generation, and a worker without a session is
\* staged again if the registry authorizes it.
RecoverWorker(w) ==
    /\ wproc[w] = "up" /\ peer[w] # "up" /\ gate[w] = "free"
    /\ \/ w \in drained /\ ReplayRegistration(w)
       \/ w \notin drained /\ active = w /\ ReplayRegistration(w)
       \/ /\ w \notin drained /\ active = w /\ sess[w] = "none"
          /\ \E p \in authorize_worker_recovery(route, w) :
                permit' = [permit EXCEPT ![w] = p]
          /\ gate' = [gate EXCEPT ![w] = "stage"]
          /\ UNCHANGED <<peer, control>>
    /\ UNCHANGED <<route, launches, mcp, sess, drained, probe, tasks, publication, flight, mcps,
                   workers, daemon>>

\* stage_worker, and reset_worker after it.
StageWorker(w) ==
    /\ gate[w] = "stage"
    /\ gate' = [gate EXCEPT ![w] = "free"]
    /\ sess' = [sess EXCEPT ![w] = "staged"]
    /\ peer' = [peer EXCEPT ![w] = "up"]
    /\ control' = [control EXCEPT ![w] = FALSE]
    /\ wproc' = [wproc EXCEPT ![w] = IF @ = "starting" THEN "up" ELSE @]
    /\ wgrant' = [wgrant EXCEPT ![w] = None]
    /\ UNCHANGED <<route, launches, mcp, permit, drained, probe, tasks, publication, flight,
                   mcps, daemon>>

\* fail_worker_publication for an activation.
FailActivation(w) ==
    /\ route' = mark_activation_failed(route, permit[w].a)
    /\ grants' = IF route' # route THEN Without(permit[w].a) ELSE grants

\* A stage_worker that fails (no slot, bad endpoint, client error): the route of an
\* activation fails; for a recovery the generation is revoked first.
StageFails(w) ==
    /\ gate[w] = "stage"
    /\ Fault
    /\ IF permit[w].k = "activation"
       THEN /\ FailActivation(w)
            /\ DropSession(w)
            /\ gate' = [gate EXCEPT ![w] = "free"]
            /\ UNCHANGED publication
       ELSE /\ lock = None
            /\ Revoke(w)
            /\ IF active = w
               THEN gate' = [gate EXCEPT ![w] = "fail"] /\ UNCHANGED <<sess, permit>>
               ELSE gate' = [gate EXCEPT ![w] = "free"] /\ DropSession(w)
            /\ UNCHANGED <<route, grants, lock, previous>>
    /\ UNCHANGED <<remember, nominate, mcp, control, peer, drained, probe, tasks, flight,
                   mcps, workers, restarting>>

\* socket_ready up to the probe: the candidate is what the session says now.
BeginReady(w) ==
    /\ wproc[w] = "up" /\ peer[w] = "up" /\ gate[w] = "free" /\ probe[w] = "none"
    /\ w \notin drained /\ sess[w] # "none" /\ ~control[w]
    /\ probe' = [probe EXCEPT ![w] = sess[w]]
    /\ UNCHANGED <<route, launches, mcp, sess, permit, control, peer, drained, gate, tasks,
                   publication, flight, mcps, workers, daemon>>

\* validate_ready_connection after the probe; a lost connection has ended the candidate.
Validated(w) == probe[w] # "none" /\ gate[w] = "free" /\ w \notin drained

\* The worker began to drain during the probe: nothing is published.
RejectReady(w) ==
    /\ probe[w] # "none" /\ gate[w] = "free" /\ w \in drained
    /\ probe' = [probe EXCEPT ![w] = "none"]
    /\ UNCHANGED <<route, launches, mcp, sess, permit, control, peer, drained, gate, tasks,
                   publication, flight, mcps, workers, daemon>>

\* finish_ready_worker for a candidate that is published already: a probe that
\* fails leaves the session to its disconnect grace.
ReadyAgain(w) ==
    /\ Validated(w) /\ probe[w] = "published"
    /\ probe' = [probe EXCEPT ![w] = "none"]
    /\ \/ UNCHANGED control
       \/ /\ wproc[w] = "up"
          /\ control' = [control EXCEPT ![w] = sess[w] # "none"]
    /\ UNCHANGED <<route, launches, mcp, sess, permit, peer, drained, gate, tasks, publication,
                   flight, mcps, workers, daemon>>

\* finish_ready_worker after a probe that failed, for a candidate not yet published.
ProbeFails(w) ==
    /\ Validated(w) /\ probe[w] = "staged"
    /\ FaultUnless(wproc[w] # "up")
    /\ probe' = [probe EXCEPT ![w] = "none"]
    /\ IF permit[w].k = "activation"
       THEN FailActivation(w) /\ DropSession(w) /\ UNCHANGED <<gate, publication>>
       ELSE /\ lock = None
            /\ Revoke(w)
            /\ IF active = w
               THEN gate' = [gate EXCEPT ![w] = "fail"] /\ UNCHANGED <<sess, permit>>
               ELSE UNCHANGED gate /\ DropSession(w)
            /\ UNCHANGED <<route, grants, lock, previous>>
    /\ UNCHANGED <<remember, nominate, mcp, control, peer, drained, tasks, flight, mcps,
                   workers, restarting>>

\* fail_worker_publication for a recovery whose generation has just been revoked.
FailRecovery(w) ==
    /\ gate[w] = "fail"
    /\ route' = mark_route_pass_through(route)
    /\ grants' = IF route.state = "Activating" THEN Without(route.act) ELSE grants
    /\ DropSession(w)
    /\ gate' = [gate EXCEPT ![w] = "free"]
    /\ UNCHANGED <<remember, nominate, mcp, control, peer, drained, probe, tasks,
                   publication, flight, mcps, workers, daemon>>

\* publish_ready_worker up to the durable record: the mutex is taken, the grant or
\* the generation is checked, and an activation's generation replaces the active one.
PublishGeneration(w) ==
    /\ Validated(w) /\ probe[w] = "staged" /\ wproc[w] = "up" /\ lock = None
    /\ probe' = [probe EXCEPT ![w] = "none"]
    /\ IF (IF permit[w].k = "activation" THEN grants[permit[w].a] = "consumed" ELSE active = w)
       THEN /\ lock' = w
            /\ previous' = active
            /\ active' = w
            /\ gate' = [gate EXCEPT ![w] = "publish"]
            /\ UNCHANGED <<sess, permit>>
       ELSE DropSession(w) /\ UNCHANGED <<gate, lock, previous, active>>
    /\ UNCHANGED <<route, launches, mcp, control, peer, drained, tasks, revoked, flight, mcps,
                   workers, daemon>>

\* The durable record cannot be read or written.
PublishFails(w) ==
    /\ Validated(w) /\ probe[w] = "staged" /\ lock = None
    /\ Fault
    /\ probe' = [probe EXCEPT ![w] = "none"]
    /\ IF permit[w].k = "activation"
       THEN /\ grants[permit[w].a] = "consumed"
            /\ FailActivation(w)
       ELSE /\ route' = mark_route_pass_through(route)
            /\ grants' = IF route.state = "Activating" THEN Without(route.act) ELSE grants
    /\ DropSession(w)
    /\ UNCHANGED <<remember, nominate, mcp, control, peer, drained, gate, tasks, publication,
                   flight, mcps, workers, restarting>>

\* The rest of publish_ready_worker: the registry publishes the target, or the
\* durable record goes back to the generation it had.
PublishTarget(w) ==
    /\ lock = w
    /\ lock' = None /\ previous' = None
    /\ gate' = [gate EXCEPT ![w] = "free"]
    /\ IF mark_worker_ready(route, permit[w], w)
       THEN /\ route' = Ready(route, w)
            /\ restarting' = None
            /\ grants' = IF permit[w].k = "existing" THEN grants ELSE Without(permit[w].a)
            /\ sess' = [sess EXCEPT ![w] = IF @ = "none" THEN @ ELSE "published"]
            /\ permit' = [permit EXCEPT ![w] = NoPermit]
            /\ control' = [control EXCEPT ![w] = @ \/ sess[w] # "none"]
            /\ UNCHANGED active
       ELSE /\ active' = IF permit[w].k = "activation" THEN previous ELSE active
            /\ DropSession(w)
            /\ UNCHANGED <<route, restarting, grants, control>>
    /\ UNCHANGED <<remember, nominate, mcp, peer, drained, probe, tasks, revoked, flight,
                   mcps, workers, faults>>

-----------------------------------------------------------------------------
(* Connections and requests that fail, and the drain.                       *)

\* disconnected, up to the grace period: the control connection of a worker is gone.
DisconnectWorker(w) ==
    /\ peer[w] = "up" /\ gate[w] = "free"
    /\ FaultUnless(~Alive(w))
    /\ peer' = [peer EXCEPT ![w] = "down"]
    /\ control' = [control EXCEPT ![w] = FALSE]
    /\ probe' = [probe EXCEPT ![w] = "none"]
    /\ permit' = [permit EXCEPT ![w] = IF sess[w] = "none" THEN NoPermit ELSE @]
    /\ UNCHANGED <<route, launches, mcp, sess, drained, gate, tasks, publication, flight, mcps,
                   workers, restarting>>

\* disconnected after the grace period: the session is removed and its generation revoked.
ExpireWorker(w) ==
    /\ peer[w] = "down" /\ gate[w] = "free"
    /\ IF sess[w] = "none"
       THEN /\ peer' = [peer EXCEPT ![w] = "none"]
            /\ drained' = drained \ {w}
            /\ UNCHANGED <<sess, permit, gate, publication>>
       ELSE /\ lock = None
            /\ Revoke(w)
            /\ DropSession(w)
            /\ gate' = [gate EXCEPT ![w] = "expire"]
            /\ UNCHANGED <<peer, drained, lock, previous>>
    /\ UNCHANGED <<route, launches, mcp, control, probe, tasks, flight, mcps, workers, daemon>>

\* disconnected, the rest: one live MCP is nominated to relaunch a failed worker.
WorkerFailed(w) ==
    /\ gate[w] = "expire"
    /\ gate' = [gate EXCEPT ![w] = "free"]
    /\ peer' = [peer EXCEPT ![w] = "none"]
    /\ drained' = drained \ {w}
    /\ route' = worker_failed(route, w)
    /\ nominate' = IF route' # route /\ route'.owner # None
                   THEN nominate \cup {route'.owner} ELSE nominate
    /\ UNCHANGED <<grants, remember, mcp, sess, permit, control, probe, tasks, publication,
                   flight, mcps, workers, daemon>>

\* public_proxy: a request is in flight on the ready worker whose control is available.
Forward(q) ==
    /\ flight[q] = None
    /\ route.state = "Ready" /\ control[route.target]
    /\ flight' = [flight EXCEPT ![q] = route.target]
    /\ UNCHANGED <<route, launches, mcp, sessions, tasks, publication, mcps, workers, daemon>>

Answered(q) ==
    /\ flight[q] # None
    /\ flight' = [flight EXCEPT ![q] = None]
    /\ UNCHANGED <<route, launches, mcp, sessions, tasks, publication, mcps, workers, daemon>>

\* handle_worker_communication_failure up to the registry call: the session goes and
\* the revocation of its generation is spawned.
CommunicationFails(q) ==
    /\ flight[q] # None
    /\ FaultUnless(~Alive(flight[q]))
    /\ flight' = [flight EXCEPT ![q] = None]
    /\ LET w == flight[q]
       IN  /\ sess' = [sess EXCEPT ![w] = "none"]
           /\ permit' = [permit EXCEPT ![w] =
                            IF gate[w] = "free" /\ probe[w] = "none" THEN NoPermit ELSE @]
           /\ revokes' = IF sess[w] = "none" THEN revokes ELSE revokes \cup {w}
           /\ failing' = failing \cup {w}
    /\ UNCHANGED <<route, launches, mcp, control, peer, drained, gate, probe, draining,
                   publication, mcps, workers, restarting>>

MarkFailed(w) ==
    /\ w \in failing
    /\ failing' = failing \ {w}
    /\ route' = mark_worker_communication_failed(route, w)
    /\ grants' = IF route.state = "Activating" THEN Without(route.act) ELSE grants
    /\ UNCHANGED <<remember, nominate, mcp, sessions, revokes, draining, publication, flight,
                   mcps, workers, daemon>>

\* The spawned revoke_active_worker_generation.
RevokeGeneration(w) ==
    /\ w \in revokes /\ lock = None
    /\ revokes' = revokes \ {w}
    /\ Revoke(w)
    /\ UNCHANGED <<route, launches, mcp, sessions, failing, draining, lock, previous, flight, mcps,
                   workers, daemon>>

\* The task of BeginDrain: revoke the generation the session names, send the drain,
\* and wait until nothing is in flight or the deadline has passed.
DrainRevoke(w) ==
    /\ draining[w] = "revoke"
    /\ draining' = [draining EXCEPT ![w] = "send"]
    /\ IF sess[w] = "none" THEN UNCHANGED publication
       ELSE lock = None /\ Revoke(w) /\ UNCHANGED <<lock, previous>>
    /\ UNCHANGED <<route, launches, mcp, sessions, revokes, failing, flight, mcps, workers, daemon>>

DrainSend(w) ==
    /\ draining[w] = "send"
    /\ draining' = [draining EXCEPT ![w] = "wait"]
    /\ drained' = IF peer[w] = "none" THEN drained ELSE drained \cup {w}
    /\ UNCHANGED <<route, launches, mcp, sess, permit, control, peer, gate, probe, revokes, failing,
                   publication, flight, mcps, workers, daemon>>

\* An idle target ends the wait, and so may the deadline.
DrainFinish(w) ==
    /\ draining[w] = "wait"
    /\ draining' = [draining EXCEPT ![w] = "none"]
    /\ route' = finish_draining(route, TRUE)
    /\ UNCHANGED <<launches, mcp, sessions, revokes, failing, publication, flight, mcps, workers,
                   daemon>>

\* monitor_control in the worker: the drain event arrives.
ReceiveDrain(w) ==
    /\ w \in drained /\ peer[w] = "up" /\ wproc[w] = "up"
    /\ wproc' = [wproc EXCEPT ![w] = "draining"]
    /\ UNCHANGED <<route, launches, mcp, sessions, tasks, publication, flight, mcps, wgrant, daemon>>

\* A worker ends: drained, out of its recovery window, rejected, or killed.
WorkerExits(w) ==
    /\ Alive(w)
    /\ FaultUnless(\/ wproc[w] = "draining" \/ (wproc[w] = "up" /\ peer[w] # "up")
                   \/ (wproc[w] = "starting" /\ gate[w] = "free" /\ grants[wgrant[w]] # "issued"))
    /\ wproc' = [wproc EXCEPT ![w] = "exited"]
    /\ wgrant' = [wgrant EXCEPT ![w] = None]
    /\ UNCHANGED <<route, launches, mcp, sessions, tasks, publication, flight, mcps, restarting>>

-----------------------------------------------------------------------------
(* The daemon is killed and started again: what is on disk is all it knows. *)

Restart ==
    /\ Fault
    /\ route' = NewRoute
    /\ grants' = [a \in Act |-> "none"]
    /\ remember' = {} /\ nominate' = {}
    /\ mcp' = [m \in Mcp |-> "absent"]
    /\ sess' = [w \in Worker |-> "none"]
    /\ permit' = [w \in Worker |-> NoPermit]
    /\ control' = [w \in Worker |-> FALSE]
    /\ peer' = [w \in Worker |-> "none"]
    /\ drained' = {}
    /\ gate' = [w \in Worker |-> "free"]
    /\ probe' = [w \in Worker |-> "none"]
    /\ revokes' = {} /\ failing' = {}
    /\ draining' = [w \in Worker |-> "none"]
    /\ lock' = None /\ previous' = None
    /\ flight' = [q \in Req |-> None]
    /\ restarting' = active
    /\ UNCHANGED <<active, revoked, mcps, workers>>

\* recover_after_restart: the generation that did not come back is revoked.
RestartWindowEnds ==
    /\ restarting # None /\ lock = None
    /\ Revoke(restarting)
    /\ restarting' = None
    /\ UNCHANGED <<route, launches, mcp, sessions, tasks, lock, previous, flight, mcps, workers,
                   faults>>

-----------------------------------------------------------------------------
McpStep(m) ==
    \/ RegisterMcp(m) \/ ReadDirective(m) \/ McpReconnects(m)
    \/ ReportActivationFailed(m) \/ ReleaseMcp(m) \/ McpCrashes(m)
    \/ FinishRelease(m) \/ ExpireMcp(m) \/ NominateRelaunch(m)
    \/ LaunchWorker(m) \/ GiveUp(m)

WorkerStep(w) ==
    \/ RegisterWorker(w) \/ RecoverWorker(w) \/ StageWorker(w) \/ StageFails(w)
    \/ BeginReady(w) \/ RejectReady(w) \/ ReadyAgain(w) \/ ProbeFails(w)
    \/ FailRecovery(w) \/ PublishFails(w) \/ PublishGeneration(w) \/ PublishTarget(w)
    \/ DisconnectWorker(w) \/ ExpireWorker(w) \/ WorkerFailed(w)
    \/ MarkFailed(w) \/ RevokeGeneration(w)
    \/ DrainRevoke(w) \/ DrainSend(w) \/ DrainFinish(w)
    \/ ReceiveDrain(w) \/ WorkerExits(w)

RequestStep(q) == Forward(q) \/ Answered(q) \/ CommunicationFails(q)

Next ==
    \/ \E m \in Mcp : McpStep(m)
    \/ \E w \in Worker : WorkerStep(w)
    \/ \E q \in Req : RequestStep(q)
    \/ \E a \in Act : RememberActivation(a) \/ ExpireActivation(a)
    \/ Restart \/ RestartWindowEnds

Spec == Init /\ [][Next]_vars

\* The daemon: the holder of a worker's gate goes on, a drain task goes on, a release
\* is finished and an MCP without a process expires, a nominated session is looked at,
\* and deadlines pass.
DaemonFairness ==
    /\ \A w \in Worker :
          /\ WF_vars(StageWorker(w) \/ FailRecovery(w) \/ PublishTarget(w) \/ WorkerFailed(w))
          /\ WF_vars(DrainRevoke(w) \/ DrainSend(w) \/ DrainFinish(w))
    /\ \A m \in Mcp : /\ WF_vars(FinishRelease(m) \/ ExpireMcp(m))
                       /\ WF_vars(NominateRelaunch(m))
    /\ \A a \in Act : WF_vars(RememberActivation(a)) /\ WF_vars(ExpireActivation(a))
    /\ WF_vars(RestartWindowEnds)

\* The MCP processes act on what they are told, and do not wait for ever.
McpFairness ==
    \A m \in Mcp : WF_vars(ReadDirective(m)) /\ WF_vars(LaunchWorker(m)) /\ WF_vars(GiveUp(m))

FairSpec == Spec /\ DaemonFairness /\ McpFairness

-----------------------------------------------------------------------------
(* Properties.                                                              *)

\* The worker requests are sent to.
Serving == IF route.state = "Ready" THEN route.target ELSE None

\* The daemon implements the lifecycle it promises: registration and release hold
\* and let go of the route, and a revoked generation is never published again, not
\* even by a recovery that was validated before the revocation.
Lifecycle == INSTANCE RouteLifecycle
    WITH holders <- route.refs, serving <- Serving, retired <- revoked
ImplementsLifecycle == Lifecycle!Spec

\* A route that needs somebody to act names a session that still holds it: the owner
\* of an activation or of a relaunch has a reference, and a route that serves or
\* passes through has at least one (after_reference_removed, transfer_owner_if_needed).
OwnerHoldsRoute ==
    /\ route.state \in {"Activating", "Recovering"} => route.owner \in route.refs
    /\ route.state \in {"Ready", "PassThrough"} => route.refs # {}

\* A ready route never points at a worker whose session is gone with nobody left to
\* say so: the failure mark or the expiry that removes it from the route is pending.
ReadyHasSession ==
    route.state = "Ready" =>
        LET w == route.target
        IN  sess[w] # "none" \/ w \in failing \/ gate[w] = "expire"

\* While a persisted generation may still come back after a restart, no MCP holds a
\* launch directive for the current activation (Hub::directive, defer_launch).
NoLaunchInWindow ==
    restarting # None =>
        \A m \in Mcp : seen[m].d = "launch" => seen[m].a # route.act

\* An activation grant is good for one worker: no two workers are staged for it.
OneWorkerPerGrant ==
    \A v, w \in Worker :
        /\ v # w /\ permit[v].k = "activation"
        => permit[v] # permit[w]

\* No transition of a route is left half done: an activation ends (published, failed,
\* released or expired), a nominated relaunch begins, and a drain finishes.
TransitionsEnd ==
    \A s \in {"Activating", "Recovering", "Draining"} : route.state = s ~> route.state # s

\* "A new MCP must wait for that termination, then begins a fresh activation": an MCP
\* that registers during a drain sees the route activated, unless it asks to leave.
WaitingActivates ==
    \A m \in Mcp :
        route.state = "Draining" /\ m \in route.refs /\ proc[m] = "run"
            ~> route.state \in {"Activating", "Ready", "PassThrough"} \/ mcp[m] = "released"
=============================================================================
