---------------------------- MODULE BrokerProofs ----------------------------
(***************************************************************************)
(* Proofs about the broker, for any MCP sessions, activations, workers,    *)
(* requests and faults: what the registry operations leave true of a       *)
(* route, which steps change what, the types, the invariants, and that the *)
(* broker implements the lifecycle of a route.                             *)
(***************************************************************************)
EXTENDS Broker, TLAPS

-----------------------------------------------------------------------------
(* The registry: what every operation on a route leaves true of it.         *)

RouteOK(r) ==
    /\ r \in Route
    /\ r.state \in {"Activating", "Recovering"} => r.owner \in r.refs
    /\ r.state \in {"Ready", "PassThrough"} => r.refs # {}
    /\ r.state = "Activating" => r.act \in Act
    /\ r.state \in {"Ready", "Draining"} => r.target \in Worker

\* A set of session ids has a first one.
LEMMA FirstIn ==
    ASSUME NEW S, S \subseteq Mcp, S # {}
    PROVE  First(S) \in S
BY ZenonT(60), RegistryAssumption DEF First

\* A new route refers to nothing.
LEMMA NewRouteOK == RouteOK(NewRoute)
BY DEF RouteOK, NewRoute, Route, States

\* An emptied route keeps its references only.
LEMMA EmptyOK ==
    ASSUME NEW r, RouteOK(r)
    PROVE  /\ RouteOK(Empty(r)) /\ Empty(r).state = "Empty"
           /\ Empty(r).refs = r.refs /\ Empty(r).act = None /\ Empty(r).target = None
BY DEF RouteOK, Empty, NewRoute, Route, States

\* A failed route passes through, or is empty without references.
LEMMA FailedOK ==
    ASSUME NEW r, RouteOK(r)
    PROVE  /\ RouteOK(Failed(r)) /\ Failed(r).state \in {"Empty", "PassThrough"}
           /\ Failed(r).refs = r.refs /\ Failed(r).act = None /\ Failed(r).target = None
BY ZenonT(60) DEF RouteOK, Failed, Empty, NewRoute, Route, States

\* register_mcp adds a reference, and begins an activation on an empty route only.
LEMMA RegisterOK ==
    ASSUME NEW r, RouteOK(r), NEW m \in Mcp, NEW a \in Act
    PROVE  /\ RouteOK(register_mcp(r, m, a))
           /\ register_mcp(r, m, a).refs = r.refs \cup {m}
           /\ \/ register_mcp(r, m, a).state = "Activating" /\ register_mcp(r, m, a).act = a
                 /\ r.state = "Empty" /\ register_mcp(r, m, a).target = None
              \/ /\ r.state # "Empty"
                 /\ register_mcp(r, m, a).state = r.state /\ register_mcp(r, m, a).act = r.act
                 /\ register_mcp(r, m, a).target = r.target
<1> DEFINE added == [r EXCEPT !.refs = @ \cup {m}]
<1>1. added \in Route /\ added.refs = r.refs \cup {m} /\ added.state = r.state
      /\ added.owner = r.owner /\ added.act = r.act /\ added.target = r.target
  BY DEF RouteOK, Route
<1>2. register_mcp(r, m, a) = IF r.state = "Empty" THEN Activating(added, m, a) ELSE added
  BY DEF register_mcp
<1> HIDE DEF added
<1>3. CASE r.state = "Empty"
  BY <1>1, <1>2, <1>3 DEF RouteOK, Activating, Route, States
<1>4. CASE r.state # "Empty"
  BY ZenonT(60), <1>1, <1>2, <1>4 DEF RouteOK
<1> QED
  BY <1>3, <1>4

\* release_mcp removes a reference; the last one drains a ready route.
LEMMA ReleaseOK ==
    ASSUME NEW r, RouteOK(r), NEW m \in Mcp
    PROVE  /\ RouteOK(release_mcp(r, m))
           /\ release_mcp(r, m).refs = r.refs \ {m}
           /\ release_mcp(r, m).act \in {r.act, None}
           /\ release_mcp(r, m).target \in {r.target, None}
           /\ release_mcp(r, m).state = "Recovering" => release_mcp(r, m).owner \in Mcp
           /\ release_mcp(r, m).state = "Activating" => r.state = "Activating"
           /\ release_mcp(r, m).state = "Ready" <=> r.state = "Ready" /\ r.refs \ {m} # {}
           /\ release_mcp(r, m).state \in {"Ready", "Draining"}
                 => release_mcp(r, m).target = r.target
<1> DEFINE s == [r EXCEPT !.refs = @ \ {m}]
<1>1. s \in Route /\ s.refs = r.refs \ {m} /\ s.state = r.state
      /\ s.owner = r.owner /\ s.act = r.act /\ s.target = r.target
  BY DEF RouteOK, Route
<1>2. release_mcp(r, m) = IF m \notin r.refs THEN r
                          ELSE IF s.refs = {} THEN after_reference_removed(s)
                          ELSE transfer_owner_if_needed(s, m)
  BY DEF release_mcp
<1> HIDE DEF s
<1>3. CASE m \notin r.refs
  <2>1. release_mcp(r, m) = r
    BY <1>2, <1>3
  <2>2. r.refs \ {m} = r.refs
    BY <1>3
  <2> QED
    BY <2>1, <2>2 DEF RouteOK, Route
<1>4. CASE m \in r.refs /\ s.refs = {}
  <2>1. release_mcp(r, m) = after_reference_removed(s)
    BY ZenonT(60), <1>2, <1>4
  <2>2. after_reference_removed(s) \in Route
    BY <1>1 DEF after_reference_removed, Route, States, Empty, NewRoute
  <2> QED
    BY <1>1, <1>4, <2>1, <2>2 DEF after_reference_removed, RouteOK, Empty, NewRoute, Route
<1>5. CASE m \in r.refs /\ s.refs # {}
  <2>1. release_mcp(r, m) = transfer_owner_if_needed(s, m)
    BY ZenonT(60), <1>2, <1>5
  <2>2. First(s.refs) \in s.refs /\ s.refs \subseteq Mcp
    BY ZenonT(60), <1>1, <1>5, FirstIn DEF Route
  <2> QED
    BY <1>1, <1>5, <2>1, <2>2 DEF transfer_owner_if_needed, RouteOK, Route
<1> QED
  BY ZenonT(60), <1>3, <1>4, <1>5

\* begin_relaunch turns a recovery into an activation.
LEMMA RelaunchOK ==
    ASSUME NEW r, RouteOK(r), NEW m \in Mcp, NEW a \in Act
    PROVE  /\ RouteOK(begin_relaunch(r, m, a))
           /\ begin_relaunch(r, m, a).refs = r.refs
           /\ \/ begin_relaunch(r, m, a) = r
              \/ /\ begin_relaunch(r, m, a).state = "Activating" /\ begin_relaunch(r, m, a).act = a
                 /\ r.state = "Recovering" /\ begin_relaunch(r, m, a).target = None
BY ZenonT(60) DEF RouteOK, begin_relaunch, Activating, Route, States

\* A publication makes the worker the target of a route that is referred to.
LEMMA ReadyOK ==
    ASSUME NEW r, RouteOK(r), NEW w \in Worker, NEW p, mark_worker_ready(r, p, w)
    PROVE  /\ RouteOK(Ready(r, w)) /\ Ready(r, w).refs = r.refs /\ Ready(r, w).state = "Ready"
           /\ Ready(r, w).act = None /\ Ready(r, w).target = w
BY DEF RouteOK, mark_worker_ready, Ready, Route, States

\* worker_failed ends the service of that worker only, and nominates a session.
LEMMA WorkerFailedOK ==
    ASSUME NEW r, RouteOK(r), NEW w \in Worker
    PROVE  /\ RouteOK(worker_failed(r, w))
           /\ worker_failed(r, w).refs = r.refs
           /\ \/ worker_failed(r, w) = r /\ ~(r.state = "Ready" /\ r.target = w)
              \/ /\ worker_failed(r, w).state \in {"Empty", "Recovering"}
                 /\ worker_failed(r, w).act = None /\ worker_failed(r, w).target = None
                 /\ r.state = "Ready" /\ r.target = w
<1>1. CASE r.state # "Ready" \/ r.target # w
  <2>1. worker_failed(r, w) = r
    BY <1>1 DEF worker_failed
  <2> QED
    BY ZenonT(60), <1>1, <2>1
<1>2. CASE r.state = "Ready" /\ r.target = w
  <2>1. First(r.refs) \in r.refs /\ r.refs \subseteq Mcp
    BY ZenonT(60), <1>2, FirstIn DEF RouteOK, Route
  <2>2. worker_failed(r, w) = [Empty(r) EXCEPT !.state = "Recovering", !.owner = First(r.refs)]
    BY ZenonT(60), <1>2 DEF worker_failed, RouteOK
  <2> QED
    BY ZenonT(60), <1>2, <2>1, <2>2 DEF RouteOK, Route, States, Empty, NewRoute
<1> QED
  BY ZenonT(60), <1>1, <1>2

-----------------------------------------------------------------------------
(* Which steps change what.                                                 *)

\* The steps that change the route.
RouteStep ==
    \/ \E m \in Mcp : RegisterMcp(m) \/ ReportActivationFailed(m) \/ FinishRelease(m)
                      \/ ExpireMcp(m) \/ NominateRelaunch(m)
    \/ \E w \in Worker : StageFails(w) \/ ProbeFails(w) \/ FailRecovery(w)
                         \/ PublishFails(w) \/ PublishTarget(w) \/ WorkerFailed(w)
                         \/ MarkFailed(w) \/ DrainFinish(w)
    \/ \E a \in Act : ExpireActivation(a)
    \/ Restart

\* Every other step leaves the route alone.
LEMMA RouteFrame ==
    ASSUME [Next]_vars, ~RouteStep
    PROVE  UNCHANGED route
<1>1. ASSUME NEW m \in Mcp, McpStep(m) PROVE UNCHANGED route
  BY ZenonT(60), <1>1 DEF McpStep, RouteStep, ReadDirective, McpReconnects, ReleaseMcp, McpCrashes,
        LaunchWorker, GiveUp
<1>2. ASSUME NEW w \in Worker, WorkerStep(w) PROVE UNCHANGED route
  BY ZenonT(60), <1>2 DEF WorkerStep, RouteStep, RegisterWorker, RecoverWorker, StageWorker, BeginReady,
        RejectReady, ReadyAgain, PublishGeneration, DisconnectWorker, ExpireWorker,
        RevokeGeneration, DrainRevoke, DrainSend, ReceiveDrain, WorkerExits
<1>3. ASSUME NEW q \in Req, RequestStep(q) PROVE UNCHANGED route
  BY ZenonT(60), <1>3 DEF RequestStep, RouteStep, Forward, Answered, CommunicationFails
<1>4. CASE (\E a \in Act : RememberActivation(a) \/ ExpireActivation(a))
           \/ Restart \/ RestartWindowEnds \/ UNCHANGED vars
  BY ZenonT(60), <1>4 DEF RouteStep, RememberActivation, RestartWindowEnds, vars
<1> QED
  BY ZenonT(60), <1>1, <1>2, <1>3, <1>4 DEF Next

\* The steps that only take grants back or drop permits.
TakeBackStep ==
    \/ \E m \in Mcp : ReportActivationFailed(m) \/ FinishRelease(m) \/ ExpireMcp(m)
    \/ \E w \in Worker : StageFails(w) \/ ProbeFails(w) \/ FailRecovery(w) \/ PublishFails(w)
                         \/ PublishGeneration(w) \/ PublishTarget(w)
                         \/ DisconnectWorker(w) \/ ExpireWorker(w) \/ MarkFailed(w)
    \/ \E q \in Req : CommunicationFails(q)
    \/ \E a \in Act : ExpireActivation(a)

\* The steps that change a grant or a permit.
GrantStep ==
    \/ TakeBackStep
    \/ \E m \in Mcp : RegisterMcp(m) \/ NominateRelaunch(m)
    \/ \E w \in Worker : RegisterWorker(w) \/ RecoverWorker(w)
    \/ \E a \in Act : RememberActivation(a)
    \/ Restart

\* Every other step leaves the grants and the permits alone.
LEMMA GrantFrame ==
    ASSUME [Next]_vars, ~GrantStep
    PROVE  UNCHANGED <<grants, remember, permit>>
<1>1. ASSUME NEW m \in Mcp, McpStep(m) PROVE UNCHANGED <<grants, remember, permit>>
  BY ZenonT(60), <1>1 DEF McpStep, GrantStep, TakeBackStep, ReadDirective, McpReconnects, ReleaseMcp, McpCrashes,
        LaunchWorker, GiveUp, launches, sessions
<1>2. ASSUME NEW w \in Worker, WorkerStep(w) PROVE UNCHANGED <<grants, remember, permit>>
  BY ZenonT(60), <1>2 DEF WorkerStep, GrantStep, TakeBackStep, StageWorker, BeginReady, RejectReady, ReadyAgain,
        WorkerFailed, RevokeGeneration, DrainRevoke, DrainSend, DrainFinish, ReceiveDrain,
        WorkerExits, launches, sessions
<1>3. ASSUME NEW q \in Req, RequestStep(q) PROVE UNCHANGED <<grants, remember, permit>>
  BY ZenonT(60), <1>3 DEF RequestStep, GrantStep, TakeBackStep, Forward, Answered, launches, sessions
<1>4. CASE (\E a \in Act : RememberActivation(a) \/ ExpireActivation(a))
           \/ Restart \/ RestartWindowEnds \/ UNCHANGED vars
  BY ZenonT(60), <1>4 DEF GrantStep, TakeBackStep, RestartWindowEnds, vars, launches, sessions
<1> QED
  BY ZenonT(60), <1>1, <1>2, <1>3, <1>4 DEF Next

\* The steps that change what is known of the MCP sessions.
RegistryStep ==
    \/ \E m \in Mcp : RegisterMcp(m) \/ ReleaseMcp(m) \/ FinishRelease(m) \/ ExpireMcp(m)
                      \/ NominateRelaunch(m)
    \/ \E w \in Worker : WorkerFailed(w)
    \/ Restart

\* Every other step leaves the MCP sessions alone.
LEMMA RegistryFrame ==
    ASSUME [Next]_vars, ~RegistryStep
    PROVE  UNCHANGED <<mcp, nominate>>
<1>1. ASSUME NEW m \in Mcp, McpStep(m) PROVE UNCHANGED <<mcp, nominate>>
  BY ZenonT(60), <1>1 DEF McpStep, RegistryStep, ReadDirective, McpReconnects, ReportActivationFailed,
        McpCrashes, LaunchWorker, GiveUp, launches
<1>2. ASSUME NEW w \in Worker, WorkerStep(w) PROVE UNCHANGED <<mcp, nominate>>
  BY ZenonT(60), <1>2 DEF WorkerStep, RegistryStep, RegisterWorker, RecoverWorker, StageWorker,
        StageFails, BeginReady, RejectReady, ReadyAgain, ProbeFails, FailRecovery,
        PublishFails, PublishGeneration, PublishTarget, DisconnectWorker, ExpireWorker,
        MarkFailed, RevokeGeneration, DrainRevoke, DrainSend, DrainFinish, ReceiveDrain,
        WorkerExits, launches
<1>3. ASSUME NEW q \in Req, RequestStep(q) PROVE UNCHANGED <<mcp, nominate>>
  BY ZenonT(60), <1>3 DEF RequestStep, RegistryStep, Forward, Answered, CommunicationFails, launches
<1>4. CASE (\E a \in Act : RememberActivation(a) \/ ExpireActivation(a))
           \/ Restart \/ RestartWindowEnds \/ UNCHANGED vars
  BY ZenonT(60), <1>4 DEF RegistryStep, RememberActivation, ExpireActivation, RestartWindowEnds, vars,
        launches
<1> QED
  BY ZenonT(60), <1>1, <1>2, <1>3, <1>4 DEF Next

\* The steps that change the session of a worker.
SessionStep ==
    \/ \E w \in Worker : RegisterWorker(w) \/ RecoverWorker(w) \/ StageWorker(w)
                         \/ StageFails(w) \/ BeginReady(w) \/ RejectReady(w)
                         \/ ReadyAgain(w) \/ ProbeFails(w) \/ FailRecovery(w)
                         \/ PublishFails(w) \/ PublishGeneration(w) \/ PublishTarget(w)
                         \/ DisconnectWorker(w) \/ ExpireWorker(w) \/ WorkerFailed(w)
                         \/ DrainRevoke(w)
    \/ \E q \in Req : CommunicationFails(q)
    \/ Restart

\* Every other step leaves the sessions and the mutex alone.
LEMMA SessionFrame ==
    ASSUME [Next]_vars, ~SessionStep
    PROVE  UNCHANGED <<sess, permit, peer, gate, probe, lock>>
<1>1. ASSUME NEW m \in Mcp, McpStep(m) PROVE UNCHANGED <<sess, permit, peer, gate, probe, lock>>
  BY ZenonT(60), <1>1 DEF McpStep, SessionStep, RegisterMcp, ReadDirective, McpReconnects,
        ReportActivationFailed, ReleaseMcp, McpCrashes, FinishRelease, ExpireMcp,
        NominateRelaunch, LaunchWorker, GiveUp, sessions, publication
<1>2. ASSUME NEW w \in Worker, WorkerStep(w) PROVE UNCHANGED <<sess, permit, peer, gate, probe, lock>>
  BY ZenonT(60), <1>2 DEF WorkerStep, SessionStep, MarkFailed, RevokeGeneration, DrainSend, DrainFinish,
        ReceiveDrain, WorkerExits, sessions, publication
<1>3. ASSUME NEW q \in Req, RequestStep(q) PROVE UNCHANGED <<sess, permit, peer, gate, probe, lock>>
  BY ZenonT(60), <1>3 DEF RequestStep, SessionStep, Forward, Answered, sessions, publication
<1>4. CASE (\E a \in Act : RememberActivation(a) \/ ExpireActivation(a))
           \/ Restart \/ RestartWindowEnds \/ UNCHANGED vars
  BY ZenonT(60), <1>4 DEF SessionStep, RememberActivation, ExpireActivation, RestartWindowEnds, vars,
        sessions, publication
<1> QED
  BY ZenonT(60), <1>1, <1>2, <1>3, <1>4 DEF Next

\* The steps that change what is known of the worker behind a session.
ControlStep ==
    \/ \E w \in Worker : RecoverWorker(w) \/ StageWorker(w) \/ ReadyAgain(w)
                         \/ PublishTarget(w) \/ DisconnectWorker(w) \/ ExpireWorker(w)
                         \/ WorkerFailed(w) \/ DrainSend(w)
    \/ Restart

\* Every other step leaves the control connections alone.
LEMMA ControlFrame ==
    ASSUME [Next]_vars, ~ControlStep
    PROVE  UNCHANGED <<control, drained>>
<1>1. ASSUME NEW m \in Mcp, McpStep(m) PROVE UNCHANGED <<control, drained>>
  BY ZenonT(60), <1>1 DEF McpStep, ControlStep, RegisterMcp, ReadDirective, McpReconnects,
        ReportActivationFailed, ReleaseMcp, McpCrashes, FinishRelease, ExpireMcp,
        NominateRelaunch, LaunchWorker, GiveUp, sessions
<1>2. ASSUME NEW w \in Worker, WorkerStep(w) PROVE UNCHANGED <<control, drained>>
  BY ZenonT(60), <1>2 DEF WorkerStep, ControlStep, RegisterWorker, StageFails, BeginReady, RejectReady,
        ProbeFails, FailRecovery, PublishFails, PublishGeneration, MarkFailed,
        RevokeGeneration, DrainRevoke, DrainFinish, ReceiveDrain, WorkerExits, sessions
<1>3. ASSUME NEW q \in Req, RequestStep(q) PROVE UNCHANGED <<control, drained>>
  BY ZenonT(60), <1>3 DEF RequestStep, ControlStep, Forward, Answered, CommunicationFails, sessions
<1>4. CASE (\E a \in Act : RememberActivation(a) \/ ExpireActivation(a))
           \/ Restart \/ RestartWindowEnds \/ UNCHANGED vars
  BY ZenonT(60), <1>4 DEF ControlStep, RememberActivation, ExpireActivation, RestartWindowEnds, vars,
        sessions
<1> QED
  BY ZenonT(60), <1>1, <1>2, <1>3, <1>4 DEF Next

\* The steps that begin or end a task of the daemon.
TaskStep ==
    \/ \E m \in Mcp : FinishRelease(m) \/ ExpireMcp(m)
    \/ \E w \in Worker : MarkFailed(w) \/ RevokeGeneration(w) \/ DrainRevoke(w)
                         \/ DrainSend(w) \/ DrainFinish(w)
    \/ \E q \in Req : Forward(q) \/ Answered(q) \/ CommunicationFails(q)
    \/ Restart

\* Every other step leaves the tasks alone.
LEMMA TaskFrame ==
    ASSUME [Next]_vars, ~TaskStep
    PROVE  UNCHANGED <<revokes, failing, draining, flight>>
<1>1. ASSUME NEW m \in Mcp, McpStep(m) PROVE UNCHANGED <<revokes, failing, draining, flight>>
  BY ZenonT(60), <1>1 DEF McpStep, TaskStep, RegisterMcp, ReadDirective, McpReconnects,
        ReportActivationFailed, ReleaseMcp, McpCrashes, NominateRelaunch, LaunchWorker,
        GiveUp, tasks
<1>2. ASSUME NEW w \in Worker, WorkerStep(w) PROVE UNCHANGED <<revokes, failing, draining, flight>>
  BY ZenonT(60), <1>2 DEF WorkerStep, TaskStep, RegisterWorker, RecoverWorker, StageWorker, StageFails,
        BeginReady, RejectReady, ReadyAgain, ProbeFails, FailRecovery, PublishFails,
        PublishGeneration, PublishTarget, DisconnectWorker, ExpireWorker, WorkerFailed,
        ReceiveDrain, WorkerExits, tasks
<1>3. ASSUME NEW q \in Req, RequestStep(q) PROVE UNCHANGED <<revokes, failing, draining, flight>>
  BY <1>3 DEF RequestStep, TaskStep, tasks
<1>4. CASE (\E a \in Act : RememberActivation(a) \/ ExpireActivation(a))
           \/ Restart \/ RestartWindowEnds \/ UNCHANGED vars
  BY ZenonT(60), <1>4 DEF TaskStep, RememberActivation, ExpireActivation, RestartWindowEnds, vars, tasks
<1> QED
  BY ZenonT(60), <1>1, <1>2, <1>3, <1>4 DEF Next

\* The steps that change the durable record.
RecordStep ==
    \/ \E w \in Worker : StageFails(w) \/ ProbeFails(w) \/ PublishGeneration(w)
                         \/ PublishTarget(w) \/ ExpireWorker(w) \/ RevokeGeneration(w)
                         \/ DrainRevoke(w)
    \/ Restart \/ RestartWindowEnds

\* Every other step leaves the durable record alone.
LEMMA RecordFrame ==
    ASSUME [Next]_vars, ~RecordStep
    PROVE  UNCHANGED <<publication, restarting>>
<1>1. ASSUME NEW m \in Mcp, McpStep(m) PROVE UNCHANGED <<publication, restarting>>
  BY ZenonT(60), <1>1 DEF McpStep, RecordStep, RegisterMcp, ReadDirective, McpReconnects,
        ReportActivationFailed, ReleaseMcp, McpCrashes, FinishRelease, ExpireMcp,
        NominateRelaunch, LaunchWorker, GiveUp, publication, daemon
<1>2. ASSUME NEW w \in Worker, WorkerStep(w) PROVE UNCHANGED <<publication, restarting>>
  BY ZenonT(60), <1>2 DEF WorkerStep, RecordStep, RegisterWorker, RecoverWorker, StageWorker,
        BeginReady, RejectReady, ReadyAgain, FailRecovery, PublishFails, DisconnectWorker,
        WorkerFailed, MarkFailed, DrainSend, DrainFinish, ReceiveDrain, WorkerExits,
        publication, daemon
<1>3. ASSUME NEW q \in Req, RequestStep(q) PROVE UNCHANGED <<publication, restarting>>
  BY ZenonT(60), <1>3 DEF RequestStep, RecordStep, Forward, Answered, CommunicationFails, publication,
        daemon
<1>4. CASE (\E a \in Act : RememberActivation(a) \/ ExpireActivation(a))
           \/ Restart \/ RestartWindowEnds \/ UNCHANGED vars
  BY ZenonT(60), <1>4 DEF RecordStep, RememberActivation, ExpireActivation, vars, publication, daemon
<1> QED
  BY ZenonT(60), <1>1, <1>2, <1>3, <1>4 DEF Next

\* The steps of an MCP process.
LaunchStep ==
    \/ \E m \in Mcp : RegisterMcp(m) \/ ReadDirective(m) \/ McpReconnects(m)
                      \/ ReportActivationFailed(m) \/ ReleaseMcp(m) \/ McpCrashes(m)
                      \/ LaunchWorker(m) \/ GiveUp(m)

\* Every other step leaves the MCP processes alone.
LEMMA LaunchFrame ==
    ASSUME [Next]_vars, ~LaunchStep
    PROVE  UNCHANGED <<seen, child, proc>>
<1>1. ASSUME NEW m \in Mcp, McpStep(m) PROVE UNCHANGED <<seen, child, proc>>
  BY ZenonT(60), <1>1 DEF McpStep, LaunchStep, FinishRelease, ExpireMcp, NominateRelaunch, mcps
<1>2. ASSUME NEW w \in Worker, WorkerStep(w) PROVE UNCHANGED <<seen, child, proc>>
  BY ZenonT(60), <1>2 DEF WorkerStep, LaunchStep, RegisterWorker, RecoverWorker, StageWorker,
        StageFails, BeginReady, RejectReady, ReadyAgain, ProbeFails, FailRecovery,
        PublishFails, PublishGeneration, PublishTarget, DisconnectWorker, ExpireWorker,
        WorkerFailed, MarkFailed, RevokeGeneration, DrainRevoke, DrainSend, DrainFinish,
        ReceiveDrain, WorkerExits, mcps
<1>3. ASSUME NEW q \in Req, RequestStep(q) PROVE UNCHANGED <<seen, child, proc>>
  BY ZenonT(60), <1>3 DEF RequestStep, LaunchStep, Forward, Answered, CommunicationFails, mcps
<1>4. CASE (\E a \in Act : RememberActivation(a) \/ ExpireActivation(a))
           \/ Restart \/ RestartWindowEnds \/ UNCHANGED vars
  BY ZenonT(60), <1>4 DEF LaunchStep, RememberActivation, ExpireActivation, Restart, RestartWindowEnds,
        vars, mcps
<1> QED
  BY ZenonT(60), <1>1, <1>2, <1>3, <1>4 DEF Next

\* The steps that change a worker process.
ProcessStep ==
    \/ \E m \in Mcp : RegisterMcp(m) \/ ReadDirective(m) \/ ReportActivationFailed(m)
                      \/ ReleaseMcp(m) \/ McpCrashes(m) \/ LaunchWorker(m) \/ GiveUp(m)
    \/ \E w \in Worker : StageWorker(w) \/ ReceiveDrain(w) \/ WorkerExits(w)

\* Every other step leaves the worker processes alone.
LEMMA ProcessFrame ==
    ASSUME [Next]_vars, ~ProcessStep
    PROVE  UNCHANGED <<wproc, wgrant>>
<1>1. ASSUME NEW m \in Mcp, McpStep(m) PROVE UNCHANGED <<wproc, wgrant>>
  BY ZenonT(60), <1>1 DEF McpStep, ProcessStep, McpReconnects, FinishRelease, ExpireMcp,
        NominateRelaunch, workers
<1>2. ASSUME NEW w \in Worker, WorkerStep(w) PROVE UNCHANGED <<wproc, wgrant>>
  BY ZenonT(60), <1>2 DEF WorkerStep, ProcessStep, RegisterWorker, RecoverWorker, StageFails,
        BeginReady, RejectReady, ReadyAgain, ProbeFails, FailRecovery, PublishFails,
        PublishGeneration, PublishTarget, DisconnectWorker, ExpireWorker, WorkerFailed,
        MarkFailed, RevokeGeneration, DrainRevoke, DrainSend, DrainFinish, workers
<1>3. ASSUME NEW q \in Req, RequestStep(q) PROVE UNCHANGED <<wproc, wgrant>>
  BY ZenonT(60), <1>3 DEF RequestStep, ProcessStep, Forward, Answered, CommunicationFails, workers
<1>4. CASE (\E a \in Act : RememberActivation(a) \/ ExpireActivation(a))
           \/ Restart \/ RestartWindowEnds \/ UNCHANGED vars
  BY ZenonT(60), <1>4 DEF ProcessStep, RememberActivation, ExpireActivation, Restart, RestartWindowEnds,
        vars, workers
<1> QED
  BY <1>1, <1>2, <1>3, <1>4 DEF Next

\* The steps that count as faults.
FaultStep ==
    \/ \E m \in Mcp : McpReconnects(m) \/ McpCrashes(m)
    \/ \E w \in Worker : StageFails(w) \/ ProbeFails(w) \/ PublishFails(w)
                         \/ DisconnectWorker(w) \/ WorkerExits(w)
    \/ \E q \in Req : CommunicationFails(q)
    \/ Restart

\* Every other step leaves the count of faults alone.
LEMMA FaultFrame ==
    ASSUME [Next]_vars, ~FaultStep
    PROVE  UNCHANGED faults
<1>1. ASSUME NEW m \in Mcp, McpStep(m) PROVE UNCHANGED faults
  BY ZenonT(60), <1>1 DEF McpStep, FaultStep, RegisterMcp, ReadDirective, ReportActivationFailed,
        ReleaseMcp, FinishRelease, ExpireMcp, NominateRelaunch, LaunchWorker, GiveUp, daemon
<1>2. ASSUME NEW w \in Worker, WorkerStep(w) PROVE UNCHANGED faults
  BY ZenonT(60), <1>2 DEF WorkerStep, FaultStep, RegisterWorker, RecoverWorker, StageWorker, BeginReady,
        RejectReady, ReadyAgain, FailRecovery, PublishGeneration, PublishTarget,
        ExpireWorker, WorkerFailed, MarkFailed, RevokeGeneration, DrainRevoke, DrainSend,
        DrainFinish, ReceiveDrain, daemon
<1>3. ASSUME NEW q \in Req, RequestStep(q) PROVE UNCHANGED faults
  BY <1>3 DEF RequestStep, FaultStep, Forward, Answered, daemon
<1>4. CASE (\E a \in Act : RememberActivation(a) \/ ExpireActivation(a))
           \/ Restart \/ RestartWindowEnds \/ UNCHANGED vars
  BY ZenonT(60), <1>4 DEF FaultStep, RememberActivation, ExpireActivation, RestartWindowEnds, vars,
        daemon
<1> QED
  BY ZenonT(60), <1>1, <1>2, <1>3, <1>4 DEF Next

-----------------------------------------------------------------------------
(* The route.                                                               *)

\* fresh_launch: nothing refers to the activation.
LEMMA FreshIn ==
    ASSUME FreshActs # {}
    PROVE  /\ FreshAct \in Act
           /\ route.act # FreshAct /\ grants[FreshAct] = "none" /\ FreshAct \notin remember
           /\ \A m \in Mcp : seen[m].a # FreshAct
           /\ \A w \in Worker : permit[w].a # FreshAct
<1>1. FreshAct \in FreshActs
  BY DEF FreshAct
<1> QED
  BY ZenonT(60), <1>1 DEF FreshActs

\* Only a publication gives a route a target.
TargetKept ==
    /\ route'.target \in {route.target, None}
    /\ route'.state = "Ready" => route.state = "Ready" /\ route'.target = route.target

\* Only a fresh launch gives a route an activation.
ActKept ==
    /\ route'.act \in {route.act, None}
    /\ route'.state = "Activating" => route.state = "Activating" /\ route'.act = route.act

Calm == RouteOK(route') /\ TargetKept /\ ActKept

\* A route that fails, is emptied or stays as it is takes on nothing new.
LEMMA CalmIf ==
    ASSUME RouteOK(route), route' \in {route, Failed(route), Empty(route), NewRoute}
    PROVE  Calm
<1>1. CASE route' = route
  BY <1>1 DEF Calm, TargetKept, ActKept
<1>2. CASE route' = Failed(route)
  BY Zenon, <1>2, FailedOK DEF Calm, TargetKept, ActKept
<1>3. CASE route' = Empty(route)
  BY Zenon, <1>3, EmptyOK DEF Calm, TargetKept, ActKept
<1>4. CASE route' = NewRoute
  <2>1. NewRoute.state = "Empty" /\ NewRoute.act = None /\ NewRoute.target = None
    BY DEF NewRoute
  <2> QED
    BY Zenon, <1>4, <2>1, NewRouteOK DEF Calm, TargetKept, ActKept
<1> QED
  BY ZenonT(60), <1>1, <1>2, <1>3, <1>4

\* What a step does to a route.
LEMMA RouteMoves ==
    ASSUME RouteOK(route), [Next]_vars
    PROVE  /\ RouteOK(route')
           /\ \/ TargetKept
              \/ \E w \in Worker : /\ PublishTarget(w) /\ mark_worker_ready(route, permit[w], w)
                                  /\ route' = Ready(route, w)
           /\ \/ ActKept
              \/ FreshActs # {} /\ route'.act = FreshAct
                 /\ \E m \in Mcp : RegisterMcp(m) \/ NominateRelaunch(m)
<1> DEFINE Goal == /\ RouteOK(route')
                   /\ \/ TargetKept
                      \/ \E w \in Worker : /\ PublishTarget(w) /\ mark_worker_ready(route, permit[w], w)
                                          /\ route' = Ready(route, w)
                   /\ \/ ActKept
                      \/ FreshActs # {} /\ route'.act = FreshAct
                         /\ \E m \in Mcp : RegisterMcp(m) \/ NominateRelaunch(m)
<1>1. ASSUME NEW m \in Mcp, RegisterMcp(m) PROVE Goal
  <2>1. route' = register_mcp(route, m, FreshAct) /\ FreshActs # {} /\ FreshAct \in Act
    BY Zenon, <1>1, FreshIn DEF RegisterMcp
  <2>2. RouteOK(route') /\ TargetKept
    BY <2>1, RegisterOK DEF TargetKept
  <2>3. ActKept \/ route'.act = FreshAct
    BY ZenonT(60), <2>1, RegisterOK DEF ActKept
  <2> QED
    BY Zenon, <1>1, <2>1, <2>2, <2>3
<1>2. ASSUME NEW m \in Mcp, FinishRelease(m) \/ ExpireMcp(m) PROVE Calm
  <2>1. route' = release_mcp(route, m)
    BY Zenon, <1>2 DEF FinishRelease, ExpireMcp, ReleaseReference
  <2>2. RouteOK(route') /\ TargetKept
    BY <2>1, ReleaseOK DEF TargetKept
  <2>3. ActKept
    BY ZenonT(60), <2>1, <2>2, ReleaseOK, RegistryAssumption DEF ActKept, RouteOK
  <2> QED
    BY Zenon, <2>2, <2>3 DEF Calm
<1>3. ASSUME NEW m \in Mcp, NominateRelaunch(m) PROVE Goal
  <2>1. CASE route' = route
    BY Zenon, <2>1, CalmIf DEF Calm
  <2>2. CASE route' # route
    <3>1. route' = begin_relaunch(route, m, FreshAct) /\ FreshActs # {} /\ FreshAct \in Act
      BY Zenon, <1>3, <2>2, FreshIn DEF NominateRelaunch
    <3>2. RouteOK(route') /\ TargetKept /\ route'.act = FreshAct
      BY <2>2, <3>1, RelaunchOK DEF TargetKept
    <3> QED
      BY Zenon, <1>3, <3>1, <3>2
  <2> QED
    BY <2>1, <2>2
<1>4. ASSUME NEW w \in Worker, PublishTarget(w) PROVE Goal
  <2>1. CASE mark_worker_ready(route, permit[w], w)
    <3>1. route' = Ready(route, w)
      BY Zenon, <1>4, <2>1 DEF PublishTarget
    <3>2. RouteOK(route') /\ ActKept
      BY ZenonT(60), <2>1, <3>1, ReadyOK DEF ActKept
    <3> QED
      BY Zenon, <1>4, <2>1, <3>1, <3>2
  <2>2. CASE ~mark_worker_ready(route, permit[w], w)
    <3>1. route' = route
      BY Zenon, <1>4, <2>2 DEF PublishTarget
    <3> QED
      BY Zenon, <3>1, CalmIf DEF Calm
  <2> QED
    BY ZenonT(60), <2>1, <2>2
<1>5. ASSUME NEW w \in Worker, WorkerFailed(w) PROVE Calm
  <2>1. route' = worker_failed(route, w)
    BY Zenon, <1>5 DEF WorkerFailed
  <2>2. RouteOK(route') /\ TargetKept
    BY <2>1, WorkerFailedOK DEF TargetKept
  <2>3. ActKept
    BY <2>1, WorkerFailedOK DEF ActKept
  <2> QED
    BY Zenon, <2>2, <2>3 DEF Calm
<1>6. ASSUME NEW m \in Mcp, ReportActivationFailed(m) PROVE route' \in {route, Failed(route)}
  BY Zenon, <1>6 DEF ReportActivationFailed, mark_activation_failed
<1>7. ASSUME NEW w \in Worker, StageFails(w) \/ ProbeFails(w) PROVE route' \in {route, Failed(route)}
  BY Zenon, <1>7 DEF StageFails, ProbeFails, FailActivation, mark_activation_failed
<1>8. ASSUME NEW w \in Worker, FailRecovery(w) \/ PublishFails(w) \/ MarkFailed(w)
      PROVE  route' \in {route, Failed(route)}
  BY Zenon, <1>8 DEF FailRecovery, PublishFails, MarkFailed, FailActivation, mark_activation_failed,
     mark_route_pass_through, mark_worker_communication_failed
<1>9. ASSUME NEW w \in Worker, DrainFinish(w) PROVE route' \in {route, Empty(route)}
  BY Zenon, <1>9 DEF DrainFinish, finish_draining
<1>10. ASSUME NEW a \in Act, ExpireActivation(a) PROVE route' \in {route, Failed(route)}
  BY Zenon, <1>10 DEF ExpireActivation, mark_activation_failed
<1>11. CASE Restart
  <2>1. route' = NewRoute
    BY Zenon, <1>11 DEF Restart
  <2> QED
    BY Zenon, <2>1, CalmIf DEF Calm
<1>12. CASE ~RouteStep
  BY Zenon, <1>12, RouteFrame, CalmIf DEF Calm
<1>13. ASSUME route' \in {route, Failed(route), Empty(route)} PROVE Goal
  BY Zenon, <1>13, CalmIf DEF Calm
<1>14. Calm => Goal
  BY Zenon DEF Calm
<1> QED
  BY Zenon, <1>1, <1>2, <1>3, <1>4, <1>5, <1>6, <1>7, <1>8, <1>9, <1>10, <1>11, <1>12, <1>13, <1>14
     DEF RouteStep

-----------------------------------------------------------------------------
(* Types.                                                                   *)

\* revoke_activation keeps the type of the grants.
LEMMA WithoutType ==
    ASSUME grants \in [Act -> {"none", "issued", "consumed"}], NEW a
    PROVE  /\ Without(a) \in [Act -> {"none", "issued", "consumed"}]
           /\ \A b \in Act : Without(a)[b] \in {grants[b], "none"}
BY ZenonT(60) DEF Without

\* Hub::directive: a launch is only for the activation of the route, outside the
\* restart window.
LEMMA DirectiveType ==
    ASSUME NEW r, r \in Route, NEW m \in Mcp
    PROVE  /\ directive(r, m).d \in {"launch", "reuse", "pass", "wait"}
           /\ directive(r, m).d = "launch" =>
                 /\ directive(r, m) = [d |-> "launch", a |-> r.act]
                 /\ r.state = "Activating" /\ restarting = None
BY DEF directive, current_directive

\* ActivationChild::drop ends at most the child.
LEMMA StoppedType ==
    ASSUME TypeOK, NEW m \in Mcp
    PROVE  /\ Stopped(m) \in [Worker -> {"idle", "starting", "up", "draining", "exited"}]
           /\ \A w \in Worker : Stopped(m)[w] = wproc[w] \/ (Stopped(m)[w] = "exited" /\ Alive(w))
BY ZenonT(60) DEF Stopped, TypeOK, ProcessTypes, Alive

\* What an MCP process heeds is a directive, and leaves it with a child or none.
LEMMA HeedTypes ==
    ASSUME TypeOK, NEW m \in Mcp, NEW d, Heed(m, d),
           d.d = "launch" => d = [d |-> "launch", a |-> d.a] /\ d.a \in Act
    PROVE  /\ seen' \in [Mcp -> Directives]
           /\ child' \in [Mcp -> [w : Worker \cup {None}, a : Act \cup {None}]]
<1>1. (IF d.d = "launch" THEN d ELSE Told("told")) \in Directives
  BY DEF Told, Directives
<1>2. NoChild \in [w : Worker \cup {None}, a : Act \cup {None}]
  BY DEF NoChild
<1> QED
  BY ZenonT(60), <1>1, <1>2 DEF Heed, TypeOK, ProcessTypes

\* The worker process that is spawned was not running.
LEMMA NewWorkerIn ==
    ASSUME NewWorkers # {} PROVE NewWorker \in Worker /\ wproc[NewWorker] = "idle"
<1>1. NewWorker \in NewWorkers
  BY DEF NewWorker
<1> QED
  BY ZenonT(60), <1>1 DEF NewWorkers

\* What taking back grants and dropping permits comes to.
TakesBack ==
    /\ remember' = remember
    /\ grants' \in [Act -> {"none", "issued", "consumed"}]
    /\ \A a \in Act : grants'[a] \in {grants[a], "none"}
    /\ permit' \in [Worker -> Permit]
    /\ \A w \in Worker : permit'[w] \in {permit[w], NoPermit}

\* At most one grant is taken back, and at most one permit dropped.
LEMMA TakesBackIf ==
    ASSUME TypeOK, remember' = remember,
           grants' = grants \/ \E a : grants' = Without(a),
           \/ permit' = permit
           \/ \E w \in Worker : \/ permit' = [permit EXCEPT ![w] = NoPermit]
                               \/ permit' = [permit EXCEPT ![w] = permit[w]]
    PROVE  TakesBack
<1>1. /\ grants \in [Act -> {"none", "issued", "consumed"}] /\ permit \in [Worker -> Permit]
  BY DEF TypeOK, RegistryTypes, SessionTypes
<1>2. NoPermit \in Permit
  BY DEF NoPermit, Permit
<1>3. /\ grants' \in [Act -> {"none", "issued", "consumed"}]
      /\ \A a \in Act : grants'[a] \in {grants[a], "none"}
  BY <1>1, WithoutType
<1>4. /\ permit' \in [Worker -> Permit]
      /\ \A w \in Worker : permit'[w] \in {permit[w], NoPermit}
  BY ZenonT(60), <1>1, <1>2
<1> QED
  BY Zenon, <1>3, <1>4 DEF TakesBack

\* revoke_activation and the end of a session take back grants and permits only.
LEMMA TakeBack ==
    ASSUME TypeOK, TakeBackStep
    PROVE  TakesBack
<1>1. ASSUME NEW m \in Mcp, ReportActivationFailed(m) \/ FinishRelease(m) \/ ExpireMcp(m)
      PROVE  TakesBack
  BY ZenonT(60), <1>1, TakesBackIf
     DEF ReportActivationFailed, FinishRelease, ExpireMcp, ReleaseReference, sessions
<1>2. ASSUME NEW w \in Worker, StageFails(w) PROVE TakesBack
  BY ZenonT(60), <1>2, TakesBackIf DEF StageFails, FailActivation, DropSession
<1>3. ASSUME NEW w \in Worker, ProbeFails(w) PROVE TakesBack
  BY ZenonT(60), <1>3, TakesBackIf DEF ProbeFails, FailActivation, DropSession
<1>4. ASSUME NEW w \in Worker, FailRecovery(w) \/ PublishFails(w) PROVE TakesBack
  BY ZenonT(60), <1>4, TakesBackIf DEF FailRecovery, PublishFails, FailActivation, DropSession
<1>5. ASSUME NEW w \in Worker, PublishGeneration(w) PROVE TakesBack
  BY ZenonT(60), <1>5, TakesBackIf DEF PublishGeneration, DropSession, launches
<1>6. ASSUME NEW w \in Worker, PublishTarget(w) \/ MarkFailed(w) PROVE TakesBack
  BY ZenonT(60), <1>6, TakesBackIf DEF PublishTarget, MarkFailed, DropSession, sessions
<1>7. ASSUME NEW w \in Worker, DisconnectWorker(w) PROVE TakesBack
  BY ZenonT(60), <1>7, TakesBackIf DEF DisconnectWorker, launches
<1>8. ASSUME NEW w \in Worker, ExpireWorker(w) PROVE TakesBack
  BY ZenonT(60), <1>8, TakesBackIf DEF ExpireWorker, DropSession, launches
<1>9. ASSUME NEW q \in Req, CommunicationFails(q) PROVE TakesBack
  <2>1. flight[q] \in Worker
    BY ZenonT(60), <1>9 DEF CommunicationFails, TypeOK, TaskTypes
  <2> QED
    BY ZenonT(60), <1>9, <2>1, TakesBackIf DEF CommunicationFails, launches
<1>10. ASSUME NEW a \in Act, ExpireActivation(a) PROVE TakesBack
  BY ZenonT(60), <1>10, TakesBackIf DEF ExpireActivation, sessions
<1> QED
  BY Zenon, <1>1, <1>2, <1>3, <1>4, <1>5, <1>6, <1>7, <1>8, <1>9, <1>10 DEF TakeBackStep

\* The grants, and the permits of the worker sessions.
LEMMA GrantTypes ==
    ASSUME TypeOK, [Next]_vars
    PROVE  (/\ grants \in [Act -> {"none", "issued", "consumed"}]
            /\ remember \in SUBSET Act /\ permit \in [Worker -> Permit])'
<1> DEFINE T == /\ grants \in [Act -> {"none", "issued", "consumed"}]
                /\ remember \in SUBSET Act /\ permit \in [Worker -> Permit]
           Goal == T'
<1>0. T /\ route \in Route /\ wgrant \in [Worker -> Act \cup {None}]
  BY DEF TypeOK, RegistryTypes, SessionTypes, ProcessTypes
<1>1. ASSUME NEW m \in Mcp, RegisterMcp(m) \/ NominateRelaunch(m) PROVE Goal
  <2>1. /\ UNCHANGED <<grants, permit>>
        /\ remember' \in {remember, remember \cup {FreshAct}} /\ (FreshActs # {} \/ UNCHANGED remember)
    BY ZenonT(60), <1>1 DEF RegisterMcp, NominateRelaunch, sessions
  <2> QED
    BY ZenonT(60), <1>0, <2>1, FreshIn
<1>2. ASSUME NEW w \in Worker, RegisterWorker(w) PROVE Goal
  <2>1. /\ grants' = [grants EXCEPT ![wgrant[w]] = "consumed"] /\ UNCHANGED remember
        /\ permit' = [permit EXCEPT ![w] = [k |-> "activation", a |-> wgrant[w]]]
    BY Zenon, <1>2 DEF RegisterWorker
  <2> QED
    BY ZenonT(60), <1>0, <2>1 DEF Permit
<1>3. ASSUME NEW w \in Worker, RecoverWorker(w) PROVE Goal
  <2>1. \A p \in authorize_worker_recovery(route, w) : p \in Permit
    BY <1>0 DEF authorize_worker_recovery, Route, Permit
  <2>2. UNCHANGED <<grants, remember>>
    BY Zenon, <1>3 DEF RecoverWorker, launches
  <2>3. UNCHANGED permit \/ \E p \in Permit : permit' = [permit EXCEPT ![w] = p]
    BY ZenonT(60), <1>3, <2>1 DEF RecoverWorker, ReplayRegistration
  <2> QED
    BY ZenonT(60), <1>0, <2>2, <2>3
<1>4. ASSUME NEW a \in Act, RememberActivation(a) PROVE Goal
  BY <1>0, <1>4 DEF RememberActivation, sessions
<1>5. CASE Restart
  BY ZenonT(60), <1>0, <1>5 DEF Restart, Permit, NoPermit
<1>6. CASE TakeBackStep
  BY Zenon, <1>0, <1>6, TakeBack DEF TakesBack
<1>7. CASE ~GrantStep
  BY Zenon, <1>0, <1>7, GrantFrame
<1> QED
  BY Zenon, <1>1, <1>2, <1>3, <1>4, <1>5, <1>6, <1>7 DEF GrantStep

\* What the daemon knows of the MCP sessions.
LEMMA McpTypes ==
    ASSUME TypeOK, RouteOK(route), [Next]_vars
    PROVE  (/\ mcp \in [Mcp -> {"absent", "live", "released"}]
            /\ nominate \in SUBSET Mcp)'
<1> DEFINE T == /\ mcp \in [Mcp -> {"absent", "live", "released"}]
                /\ nominate \in SUBSET Mcp
           Goal == T'
<1>0. T
  BY DEF TypeOK, RegistryTypes
<1>1. ASSUME NEW m \in Mcp, RegisterMcp(m) PROVE Goal
  BY ZenonT(60), <1>0, <1>1 DEF RegisterMcp
<1>2. ASSUME NEW m \in Mcp, ReleaseMcp(m) PROVE Goal
  BY ZenonT(60), <1>0, <1>2 DEF ReleaseMcp, launches
<1>3. ASSUME NEW m \in Mcp, FinishRelease(m) PROVE Goal
  BY <1>0, <1>3, ReleaseOK DEF FinishRelease, ReleaseReference
<1>4. ASSUME NEW m \in Mcp, ExpireMcp(m) PROVE Goal
  BY <1>0, <1>4, ReleaseOK DEF ExpireMcp, ReleaseReference
<1>5. ASSUME NEW m \in Mcp, NominateRelaunch(m) PROVE Goal
  BY <1>0, <1>5 DEF NominateRelaunch
<1>6. ASSUME NEW w \in Worker, WorkerFailed(w) PROVE Goal
  BY <1>0, <1>6, WorkerFailedOK DEF WorkerFailed, RouteOK, Route
<1>7. CASE Restart
  BY ZenonT(60), <1>0, <1>7 DEF Restart
<1>8. CASE ~RegistryStep
  BY ZenonT(60), <1>0, <1>8, RegistryFrame
<1> QED
  BY ZenonT(60), <1>1, <1>2, <1>3, <1>4, <1>5, <1>6, <1>7, <1>8
     DEF RegistryStep

\* The sessions of the workers.
LEMMA SessionTypesStep ==
    ASSUME TypeOK, [Next]_vars
    PROVE  (/\ sess \in [Worker -> {"none", "staged", "published"}]
            /\ peer \in [Worker -> {"none", "up", "down"}]
            /\ gate \in [Worker -> {"free", "stage", "publish", "fail", "expire"}]
            /\ probe \in [Worker -> {"none", "staged", "published"}]
            /\ lock \in Worker \cup {None})'
<1> DEFINE T == /\ sess \in [Worker -> {"none", "staged", "published"}]
                /\ peer \in [Worker -> {"none", "up", "down"}]
                /\ gate \in [Worker -> {"free", "stage", "publish", "fail", "expire"}]
                /\ probe \in [Worker -> {"none", "staged", "published"}]
                /\ lock \in Worker \cup {None}
           Goal == T'
<1>0. T
  BY DEF TypeOK, SessionTypes, TaskTypes
<1>1. ASSUME NEW w \in Worker, RegisterWorker(w) PROVE Goal
  BY ZenonT(60), <1>0, <1>1 DEF RegisterWorker, publication
<1>2. ASSUME NEW w \in Worker, RecoverWorker(w) PROVE Goal
  BY ZenonT(60), <1>0, <1>2 DEF RecoverWorker, publication, ReplayRegistration
<1>3. ASSUME NEW w \in Worker, StageWorker(w) PROVE Goal
  BY ZenonT(60), <1>0, <1>3 DEF StageWorker, publication
<1>4. ASSUME NEW w \in Worker, StageFails(w) PROVE Goal
  BY ZenonT(60), <1>0, <1>4 DEF StageFails, DropSession, publication
<1>5. ASSUME NEW w \in Worker, BeginReady(w) PROVE Goal
  BY ZenonT(60), <1>0, <1>5 DEF BeginReady, publication
<1>6. ASSUME NEW w \in Worker, RejectReady(w) PROVE Goal
  BY <1>0, <1>6 DEF RejectReady, publication
<1>7. ASSUME NEW w \in Worker, ReadyAgain(w) PROVE Goal
  BY ZenonT(60), <1>0, <1>7 DEF ReadyAgain, publication
<1>8. ASSUME NEW w \in Worker, ProbeFails(w) PROVE Goal
  BY ZenonT(60), <1>0, <1>8 DEF ProbeFails, DropSession, publication
<1>9. ASSUME NEW w \in Worker, FailRecovery(w) PROVE Goal
  BY <1>0, <1>9 DEF FailRecovery, DropSession, publication
<1>10. ASSUME NEW w \in Worker, PublishFails(w) PROVE Goal
  BY ZenonT(60), <1>0, <1>10 DEF PublishFails, DropSession, publication
<1>11. ASSUME NEW w \in Worker, PublishGeneration(w) PROVE Goal
  BY ZenonT(60), <1>0, <1>11 DEF PublishGeneration, DropSession
<1>12. ASSUME NEW w \in Worker, PublishTarget(w) PROVE Goal
  BY ZenonT(60), <1>0, <1>12 DEF PublishTarget, DropSession
<1>13. ASSUME NEW w \in Worker, DisconnectWorker(w) PROVE Goal
  BY ZenonT(60), <1>0, <1>13 DEF DisconnectWorker, publication
<1>14. ASSUME NEW w \in Worker, ExpireWorker(w) PROVE Goal
  BY <1>0, <1>14 DEF ExpireWorker, DropSession, publication
<1>15. ASSUME NEW w \in Worker, WorkerFailed(w) PROVE Goal
  BY <1>0, <1>15 DEF WorkerFailed, publication
<1>16. ASSUME NEW w \in Worker, DrainRevoke(w) PROVE Goal
  BY <1>0, <1>16 DEF DrainRevoke, sessions, publication
<1>17. ASSUME NEW q \in Req, CommunicationFails(q) PROVE Goal
  BY ZenonT(60), <1>0, <1>17 DEF CommunicationFails, publication
<1>18. CASE Restart
  BY ZenonT(60), <1>0, <1>18 DEF Restart
<1>19. CASE ~SessionStep
  BY <1>0, <1>19, SessionFrame
<1> QED
  BY ZenonT(60), <1>1, <1>2, <1>3, <1>4, <1>5, <1>6, <1>7, <1>8, <1>9, <1>10, <1>11, <1>12, <1>13,
     <1>14, <1>15, <1>16, <1>17, <1>18, <1>19
     DEF SessionStep

\* What the daemon knows of the worker behind a session.
LEMMA ControlTypes ==
    ASSUME TypeOK, [Next]_vars
    PROVE  (/\ control \in [Worker -> BOOLEAN]
            /\ drained \in SUBSET Worker)'
<1> DEFINE T == /\ control \in [Worker -> BOOLEAN]
                /\ drained \in SUBSET Worker
           Goal == T'
<1>0. T
  BY DEF TypeOK, SessionTypes
<1>1. ASSUME NEW w \in Worker, RecoverWorker(w) PROVE Goal
  BY ZenonT(60), <1>0, <1>1 DEF RecoverWorker, ReplayRegistration
<1>2. ASSUME NEW w \in Worker, StageWorker(w) PROVE Goal
  BY <1>0, <1>2 DEF StageWorker
<1>3. ASSUME NEW w \in Worker, ReadyAgain(w) PROVE Goal
  BY ZenonT(60), <1>0, <1>3 DEF ReadyAgain
<1>4. ASSUME NEW w \in Worker, PublishTarget(w) PROVE Goal
  BY ZenonT(60), <1>0, <1>4 DEF PublishTarget
<1>5. ASSUME NEW w \in Worker, DisconnectWorker(w) PROVE Goal
  BY ZenonT(60), <1>0, <1>5 DEF DisconnectWorker
<1>6. ASSUME NEW w \in Worker, ExpireWorker(w) PROVE Goal
  BY <1>0, <1>6 DEF ExpireWorker
<1>7. ASSUME NEW w \in Worker, WorkerFailed(w) PROVE Goal
  BY <1>0, <1>7 DEF WorkerFailed
<1>8. ASSUME NEW w \in Worker, DrainSend(w) PROVE Goal
  BY <1>0, <1>8 DEF DrainSend
<1>9. CASE Restart
  BY <1>0, <1>9 DEF Restart
<1>10. CASE ~ControlStep
  BY <1>0, <1>10, ControlFrame
<1> QED
  BY ZenonT(60), <1>1, <1>2, <1>3, <1>4, <1>5, <1>6, <1>7, <1>8, <1>9, <1>10
     DEF ControlStep

\* The tasks of the daemon.
LEMMA TaskTypesStep ==
    ASSUME TypeOK, [Next]_vars
    PROVE  (/\ revokes \in SUBSET Worker /\ failing \in SUBSET Worker
            /\ draining \in [Worker -> {"none", "revoke", "send", "wait"}]
            /\ flight \in [Req -> Worker \cup {None}])'
<1> DEFINE T == /\ revokes \in SUBSET Worker /\ failing \in SUBSET Worker
                /\ draining \in [Worker -> {"none", "revoke", "send", "wait"}]
                /\ flight \in [Req -> Worker \cup {None}]
           Goal == T'
<1>0. T /\ route \in Route
  BY DEF TypeOK, TaskTypes, RegistryTypes
<1>1. ASSUME NEW m \in Mcp, FinishRelease(m) PROVE Goal
  BY ZenonT(60), <1>0, <1>1 DEF FinishRelease, ReleaseReference
<1>2. ASSUME NEW m \in Mcp, ExpireMcp(m) PROVE Goal
  BY ZenonT(60), <1>0, <1>2 DEF ExpireMcp, ReleaseReference
<1>3. ASSUME NEW w \in Worker, MarkFailed(w) PROVE Goal
  BY <1>0, <1>3 DEF MarkFailed
<1>4. ASSUME NEW w \in Worker, RevokeGeneration(w) PROVE Goal
  BY <1>0, <1>4 DEF RevokeGeneration
<1>5. ASSUME NEW w \in Worker, DrainRevoke(w) PROVE Goal
  BY <1>0, <1>5 DEF DrainRevoke
<1>6. ASSUME NEW w \in Worker, DrainSend(w) PROVE Goal
  BY <1>0, <1>6 DEF DrainSend
<1>7. ASSUME NEW w \in Worker, DrainFinish(w) PROVE Goal
  BY <1>0, <1>7 DEF DrainFinish
<1>8. ASSUME NEW q \in Req, Forward(q) PROVE Goal
  BY <1>0, <1>8 DEF Forward, tasks, Route
<1>9. ASSUME NEW q \in Req, Answered(q) PROVE Goal
  BY ZenonT(60), <1>0, <1>9 DEF Answered, tasks
<1>10. ASSUME NEW q \in Req, CommunicationFails(q) PROVE Goal
  BY ZenonT(60), <1>0, <1>10 DEF CommunicationFails
<1>11. CASE Restart
  BY ZenonT(60), <1>0, <1>11 DEF Restart
<1>12. CASE ~TaskStep
  BY <1>0, <1>12, TaskFrame
<1> QED
  BY ZenonT(60), <1>1, <1>2, <1>3, <1>4, <1>5, <1>6, <1>7, <1>8, <1>9, <1>10, <1>11, <1>12
     DEF TaskStep

\* The durable record.
LEMMA RecordTypes ==
    ASSUME TypeOK, [Next]_vars
    PROVE  (/\ active \in Worker \cup {None} /\ previous \in Worker \cup {None}
            /\ restarting \in Worker \cup {None} /\ revoked \in SUBSET Worker)'
<1> DEFINE T == /\ active \in Worker \cup {None} /\ previous \in Worker \cup {None}
                /\ restarting \in Worker \cup {None} /\ revoked \in SUBSET Worker
           Goal == T'
<1>0. T
  BY DEF TypeOK, TaskTypes
<1>1. ASSUME NEW w \in Worker, StageFails(w) PROVE Goal
  BY ZenonT(60), <1>0, <1>1 DEF StageFails, Revoke, publication
<1>2. ASSUME NEW w \in Worker, ProbeFails(w) PROVE Goal
  BY ZenonT(60), <1>0, <1>2 DEF ProbeFails, Revoke, publication
<1>3. ASSUME NEW w \in Worker, PublishGeneration(w) PROVE Goal
  BY ZenonT(60), <1>0, <1>3 DEF PublishGeneration, daemon
<1>4. ASSUME NEW w \in Worker, PublishTarget(w) PROVE Goal
  BY ZenonT(60), <1>0, <1>4 DEF PublishTarget
<1>5. ASSUME NEW w \in Worker, ExpireWorker(w) PROVE Goal
  BY <1>0, <1>5 DEF ExpireWorker, Revoke, publication, daemon
<1>6. ASSUME NEW w \in Worker, RevokeGeneration(w) PROVE Goal
  BY <1>0, <1>6 DEF RevokeGeneration, Revoke, daemon
<1>7. ASSUME NEW w \in Worker, DrainRevoke(w) PROVE Goal
  BY ZenonT(60), <1>0, <1>7 DEF DrainRevoke, Revoke, publication, daemon
<1>8. CASE Restart
  BY ZenonT(60), <1>0, <1>8 DEF Restart
<1>9. CASE RestartWindowEnds
  BY ZenonT(60), <1>0, <1>9 DEF RestartWindowEnds, Revoke
<1>10. CASE ~RecordStep
  BY <1>0, <1>10, RecordFrame DEF publication
<1> QED
  BY ZenonT(60), <1>1, <1>2, <1>3, <1>4, <1>5, <1>6, <1>7, <1>8, <1>9, <1>10
     DEF RecordStep

\* The MCP processes.
LEMMA McpProcessTypes ==
    ASSUME TypeOK, RouteOK(route), [Next]_vars
    PROVE  (/\ proc \in [Mcp -> {"new", "run", "exited"}]
            /\ seen \in [Mcp -> Directives]
            /\ child \in [Mcp -> [w : Worker \cup {None}, a : Act \cup {None}]])'
<1> DEFINE T == /\ proc \in [Mcp -> {"new", "run", "exited"}]
                /\ seen \in [Mcp -> Directives]
                /\ child \in [Mcp -> [w : Worker \cup {None}, a : Act \cup {None}]]
           Goal == T'
<1>0. T
  BY DEF TypeOK, ProcessTypes
<1>1. ASSUME NEW m \in Mcp, RegisterMcp(m) PROVE Goal
  <2>1. RouteOK(route') /\ route' = register_mcp(route, m, FreshAct)
    BY ZenonT(60), <1>1, RouteMoves DEF RegisterMcp
  <2>2. Heed(m, directive(route', m)) /\ proc' = [proc EXCEPT ![m] = "run"]
    BY ZenonT(60), <1>1, <2>1 DEF RegisterMcp
  <2>3. route' \in Route /\ (route'.state = "Activating" => route'.act \in Act)
    BY ZenonT(60), <2>1 DEF RouteOK
  <2> QED
    BY ZenonT(60), <1>0, <2>2, <2>3, HeedTypes, DirectiveType
<1>2. ASSUME NEW m \in Mcp, ReadDirective(m) PROVE Goal
  BY ZenonT(60), <1>0, <1>2, HeedTypes, DirectiveType DEF ReadDirective, RouteOK
<1>3. ASSUME NEW m \in Mcp, McpReconnects(m) PROVE Goal
  BY ZenonT(60), <1>0, <1>3 DEF McpReconnects, Directives, Told
<1>4. ASSUME NEW m \in Mcp, ReportActivationFailed(m) PROVE Goal
  BY ZenonT(60), <1>0, <1>4 DEF ReportActivationFailed, Directives, Told, NoChild
<1>5. ASSUME NEW m \in Mcp, ReleaseMcp(m) PROVE Goal
  BY ZenonT(60), <1>0, <1>5 DEF ReleaseMcp, Directives, Told, NoChild
<1>6. ASSUME NEW m \in Mcp, McpCrashes(m) PROVE Goal
  BY ZenonT(60), <1>0, <1>6 DEF McpCrashes, Directives, Told, NoChild
<1>7. ASSUME NEW m \in Mcp, LaunchWorker(m) PROVE Goal
  BY ZenonT(60), <1>0, <1>7, NewWorkerIn DEF LaunchWorker, Directives
<1>8. ASSUME NEW m \in Mcp, GiveUp(m) PROVE Goal
  BY ZenonT(60), <1>0, <1>8 DEF GiveUp, Directives, Told, NoChild
<1>9. CASE ~LaunchStep
  BY ZenonT(60), <1>0, <1>9, LaunchFrame
<1> QED
  BY ZenonT(60), <1>1, <1>2, <1>3, <1>4, <1>5, <1>6, <1>7, <1>8, <1>9
     DEF LaunchStep

\* The worker processes.
LEMMA WorkerProcessTypes ==
    ASSUME TypeOK, [Next]_vars
    PROVE  (/\ wproc \in [Worker -> {"idle", "starting", "up", "draining", "exited"}]
            /\ wgrant \in [Worker -> Act \cup {None}])'
<1> DEFINE T == /\ wproc \in [Worker -> {"idle", "starting", "up", "draining", "exited"}]
                /\ wgrant \in [Worker -> Act \cup {None}]
           Goal == T'
<1>0. T /\ seen \in [Mcp -> Directives]
  BY ZenonT(60) DEF TypeOK, ProcessTypes
<1>1. ASSUME NEW m \in Mcp, RegisterMcp(m) PROVE Goal
  BY ZenonT(60), <1>0, <1>1 DEF RegisterMcp, Heed
<1>2. ASSUME NEW m \in Mcp, ReadDirective(m) PROVE Goal
  BY ZenonT(60), <1>0, <1>2 DEF ReadDirective, Heed
<1>3. ASSUME NEW m \in Mcp, ReportActivationFailed(m) PROVE Goal
  BY ZenonT(60), <1>0, <1>3, StoppedType DEF ReportActivationFailed
<1>4. ASSUME NEW m \in Mcp, ReleaseMcp(m) PROVE Goal
  BY ZenonT(60), <1>0, <1>4, StoppedType DEF ReleaseMcp
<1>5. ASSUME NEW m \in Mcp, McpCrashes(m) PROVE Goal
  BY ZenonT(60), <1>0, <1>5, StoppedType DEF McpCrashes
<1>6. ASSUME NEW m \in Mcp, LaunchWorker(m) PROVE Goal
  BY ZenonT(60), <1>0, <1>6, StoppedType, NewWorkerIn DEF LaunchWorker, Directives
<1>7. ASSUME NEW m \in Mcp, GiveUp(m) PROVE Goal
  BY ZenonT(60), <1>0, <1>7, StoppedType DEF GiveUp
<1>8. ASSUME NEW w \in Worker, StageWorker(w) PROVE Goal
  BY ZenonT(60), <1>0, <1>8 DEF StageWorker
<1>9. ASSUME NEW w \in Worker, ReceiveDrain(w) PROVE Goal
  BY ZenonT(60), <1>0, <1>9 DEF ReceiveDrain
<1>10. ASSUME NEW w \in Worker, WorkerExits(w) PROVE Goal
  BY <1>0, <1>10 DEF WorkerExits
<1>11. CASE ~ProcessStep
  BY ZenonT(60), <1>0, <1>11, ProcessFrame
<1> QED
  BY ZenonT(60), <1>1, <1>2, <1>3, <1>4, <1>5, <1>6, <1>7, <1>8, <1>9, <1>10, <1>11
     DEF ProcessStep

\* The bound on the faults.
LEMMA FaultTypes ==
    ASSUME TypeOK, [Next]_vars
    PROVE  (faults \in 0 .. MaxFaults)'
<1>1. ASSUME NEW m \in Mcp, McpReconnects(m) \/ McpCrashes(m) PROVE Fault \/ UNCHANGED faults
  BY ZenonT(60), <1>1 DEF McpReconnects, McpCrashes, FaultUnless
<1>2. ASSUME NEW w \in Worker, \/ StageFails(w) \/ ProbeFails(w) \/ PublishFails(w)
                               \/ DisconnectWorker(w) \/ WorkerExits(w)
      PROVE  Fault \/ UNCHANGED faults
  BY ZenonT(60), <1>2
     DEF StageFails, ProbeFails, PublishFails, DisconnectWorker, WorkerExits, FaultUnless
<1>3. ASSUME NEW q \in Req, CommunicationFails(q) PROVE Fault \/ UNCHANGED faults
  BY ZenonT(60), <1>3 DEF CommunicationFails, FaultUnless
<1>4. ASSUME Restart PROVE Fault
  BY Zenon, <1>4 DEF Restart
<1>5. ASSUME ~FaultStep PROVE UNCHANGED faults
  BY Zenon, <1>5, FaultFrame
<1>6. Fault \/ UNCHANGED faults
  BY Zenon, <1>1, <1>2, <1>3, <1>4, <1>5 DEF FaultStep
<1> QED
  BY <1>6, FaultAssumption DEF Fault, TypeOK, ProcessTypes

\* Every step keeps the types.
LEMMA TypeStep ==
    ASSUME TypeOK, RouteOK(route), [Next]_vars
    PROVE  TypeOK'
BY ZenonT(60), RouteMoves, GrantTypes, McpTypes, SessionTypesStep, ControlTypes, TaskTypesStep, RecordTypes,
   McpProcessTypes, WorkerProcessTypes, FaultTypes
   DEF TypeOK, RegistryTypes, SessionTypes, TaskTypes, ProcessTypes, RouteOK

-----------------------------------------------------------------------------
(* The invariants *)

\* Who is asked to launch is asked for an activation, and a worker that starts has one.
LaunchInv ==
    /\ route.state = "Activating" => route.act \in Act
    /\ route.state \in {"Ready", "Draining"} => route.target \in Worker
    /\ \A m \in Mcp : seen[m].d = "launch" => seen[m].a \in Act
    /\ \A w \in Worker : wproc[w] = "starting" => wgrant[w] \in Act

\* An activation whose grant can still be consumed has no worker staged for it.
GrantInv ==
    /\ \A a \in remember : grants[a] = "none"
    /\ \A a \in Act : a \in remember \/ grants[a] = "issued"
                      => \A w \in Worker : permit[w] # [k |-> "activation", a |-> a]
    /\ OneWorkerPerGrant

\* A worker is only known to the session tables once it has registered, and one thing
\* at a time is done to it.
Early(w) == wproc[w] \in {"idle", "starting"}
GateOK(w) ==
    /\ Early(w) => sess[w] = "none" /\ peer[w] = "none" /\ gate[w] \in {"free", "stage"}
    /\ Early(w) /\ gate[w] = "stage" => wproc[w] = "starting" /\ permit[w].k = "activation"
    /\ gate[w] = "publish" <=> lock = w
    /\ gate[w] = "stage" => sess[w] = "none"
    /\ gate[w] = "expire" => peer[w] # "up"
    /\ probe[w] # "none" => peer[w] = "up" /\ gate[w] = "free"
    /\ probe[w] = "staged" \/ lock = w => sess[w] # "published"
GateInv == \A w \in Worker : GateOK(w)

\* A worker in its first publication has never been the target of the route, nor has
\* its generation ever been the subject of a revocation.
Untouched(w) ==
    /\ w \notin revoked /\ w \notin revokes /\ w \notin failing
    /\ draining[w] = "none"
    /\ route.target # w /\ restarting # w /\ previous # w
    /\ \A q \in Req : flight[q] # w
Fresh(w) == Early(w) \/ permit[w].k = "activation"
FirstInv == \A w \in Worker : Fresh(w) => Untouched(w) /\ (active = w => lock = w)

\* The durable record never names a revoked generation, nor would undoing a publication.
RecordInv ==
    /\ active # None => active \notin revoked
    /\ previous # None => previous \notin revoked
    /\ lock # None => active = lock
    /\ lock = None => previous = None

\* A route that is ready has a published session, or its failure is under way; a
\* publication whose session is gone is not current, or its failure is under way.
Served(w) == sess[w] = "published" \/ w \in failing \/ gate[w] = "expire"
Stale(w) == (probe[w] = "staged" \/ lock = w) /\ sess[w] = "none" /\ w \notin failing
SessionInv ==
    /\ route.state = "Ready" => Served(route.target)
    /\ \A w \in Worker : Stale(w) => ~mark_worker_ready(route, permit[w], w)

BrokerInv ==
    /\ TypeOK /\ OwnerHoldsRoute /\ LaunchInv /\ GrantInv /\ GateInv /\ FirstInv
    /\ RecordInv /\ SessionInv /\ NoLaunchInWindow

-----------------------------------------------------------------------------
(* Grants.                                                                  *)

\* Nothing is issued and no permit of an activation is given out.
Quiet ==
    /\ remember' \subseteq remember
    /\ \A a \in Act : grants'[a] \in {grants[a], "none"}
    /\ \A w \in Worker : permit'[w] = permit[w] \/ permit'[w].k # "activation"

\* Such a step does not hand a grant to a second worker.
LEMMA QuietKeepsGrants ==
    ASSUME TypeOK, GrantInv, Quiet PROVE GrantInv'
<1>1. remember \subseteq Act
  BY DEF TypeOK, RegistryTypes
<1>2. \A w \in Worker, a \in Act : permit'[w] = [k |-> "activation", a |-> a] => permit'[w] = permit[w]
  BY DEF Quiet
<1>3. \A a \in remember' : grants'[a] = "none"
  BY ZenonT(60), <1>1 DEF Quiet, GrantInv
<1>4. \A a \in Act : a \in remember' \/ grants'[a] = "issued" => a \in remember \/ grants[a] = "issued"
  BY DEF Quiet
<1>5. \A a \in Act : a \in remember' \/ grants'[a] = "issued"
                     => \A w \in Worker : permit'[w] # [k |-> "activation", a |-> a]
  BY ZenonT(60), <1>2, <1>4 DEF GrantInv
<1>6. OneWorkerPerGrant'
  BY DEF Quiet, GrantInv, OneWorkerPerGrant
<1> QED
  BY ZenonT(60), <1>3, <1>5, <1>6 DEF GrantInv

\* A fresh activation is remembered: nobody has a permit for it.
LEMMA FreshKeepsGrants ==
    ASSUME TypeOK, GrantInv, FreshActs # {}, remember' \subseteq remember \cup {FreshAct},
           UNCHANGED <<grants, permit>>
    PROVE  GrantInv'
BY FreshIn DEF GrantInv, OneWorkerPerGrant

\* The steps that issue a grant or hand it to a worker.
Issues ==
    \/ \E m \in Mcp : RegisterMcp(m) \/ NominateRelaunch(m)
    \/ \E a \in Act : RememberActivation(a)
    \/ \E w \in Worker : RegisterWorker(w)

\* Every other step only takes grants and permits back.
LEMMA QuietStep ==
    ASSUME TypeOK, [Next]_vars, ~Issues
    PROVE  Quiet
<1>0. grants \in [Act -> {"none", "issued", "consumed"}] /\ permit \in [Worker -> Permit]
  BY DEF TypeOK, RegistryTypes, SessionTypes
<1>1. ASSUME NEW w \in Worker, RecoverWorker(w) PROVE Quiet
  <2>1. \A p \in authorize_worker_recovery(route, w) : p.k # "activation"
    BY DEF authorize_worker_recovery
  <2>2. UNCHANGED <<grants, remember>>
    BY Zenon, <1>1 DEF RecoverWorker, launches
  <2>3. \/ UNCHANGED permit
        \/ \E p \in authorize_worker_recovery(route, w) : permit' = [permit EXCEPT ![w] = p]
    BY ZenonT(60), <1>1 DEF RecoverWorker, ReplayRegistration
  <2>4. \A v \in Worker : permit'[v] = permit[v] \/ permit'[v].k # "activation"
    BY <1>0, <2>1, <2>3
  <2> QED
    BY Zenon, <2>2, <2>4 DEF Quiet
<1>2. ASSUME TakeBackStep PROVE Quiet
  <2>1. NoPermit.k # "activation"
    BY DEF NoPermit
  <2> QED
    BY Zenon, <1>2, <2>1, TakeBack DEF TakesBack, Quiet
<1>3. ASSUME Restart PROVE Quiet
  BY ZenonT(60), <1>3 DEF Restart, NoPermit, Quiet
<1>4. ASSUME ~GrantStep PROVE Quiet
  BY ZenonT(60), <1>0, <1>4, GrantFrame DEF Quiet
<1> QED
  BY Zenon, <1>1, <1>2, <1>3, <1>4 DEF GrantStep, Issues

\* An activation grant is consumed once.
LEMMA GrantInvStep ==
    ASSUME TypeOK, LaunchInv, GrantInv, [Next]_vars
    PROVE  GrantInv'
<1>0. /\ grants \in [Act -> {"none", "issued", "consumed"}]
      /\ permit \in [Worker -> Permit]
  BY DEF TypeOK, RegistryTypes, SessionTypes
<1>1. ASSUME NEW m \in Mcp, RegisterMcp(m) PROVE GrantInv'
  BY ZenonT(60), <1>1, FreshKeepsGrants DEF RegisterMcp, sessions
<1>2. ASSUME NEW m \in Mcp, NominateRelaunch(m) PROVE GrantInv'
  <2>1. CASE remember' = remember
    <3>1. Quiet
      BY ZenonT(60), <1>2, <2>1 DEF NominateRelaunch, sessions, Quiet
    <3> QED
      BY <3>1, QuietKeepsGrants
  <2>2. CASE remember' # remember
    BY ZenonT(60), <1>2, <2>2, FreshKeepsGrants DEF NominateRelaunch, sessions
  <2> QED
    BY <2>1, <2>2
<1>3. ASSUME NEW w \in Worker, RegisterWorker(w) PROVE GrantInv'
  <2> DEFINE b == wgrant[w]
  <2>1. b \in Act /\ grants[b] = "issued" /\ b \notin remember /\ remember' = remember
    BY <1>3 DEF RegisterWorker, LaunchInv, GrantInv
  <2>2. grants' = [grants EXCEPT ![b] = "consumed"]
        /\ permit' = [permit EXCEPT ![w] = [k |-> "activation", a |-> b]]
    BY <1>3 DEF RegisterWorker
  <2> HIDE DEF b
  <2>3. \A v \in Worker : permit[v] # [k |-> "activation", a |-> b]
    BY ZenonT(60), <2>1 DEF GrantInv
  <2>4. OneWorkerPerGrant'
    BY ZenonT(60), <1>0, <2>2, <2>3 DEF GrantInv, OneWorkerPerGrant
  <2>5. \A a \in Act : a # b => [k |-> "activation", a |-> a] # [k |-> "activation", a |-> b]
    OBVIOUS
  <2>6. \A a \in Act : a \in remember' \/ grants'[a] = "issued" => a # b
    BY ZenonT(60), <1>0, <2>1, <2>2
  <2>7. \A a \in Act : a \in remember' \/ grants'[a] = "issued"
                       => \A v \in Worker : permit'[v] # [k |-> "activation", a |-> a]
    BY ZenonT(60), <1>0, <2>1, <2>2, <2>5, <2>6 DEF GrantInv
  <2>8. \A a \in remember' : grants'[a] = "none"
    BY <1>0, <2>1, <2>2 DEF GrantInv
  <2> QED
    BY ZenonT(60), <2>4, <2>7, <2>8 DEF GrantInv
<1>4. ASSUME NEW a \in Act, RememberActivation(a) PROVE GrantInv'
  BY <1>0, <1>4 DEF RememberActivation, sessions, GrantInv, OneWorkerPerGrant
<1>5. CASE ~Issues
  BY Zenon, <1>5, QuietStep, QuietKeepsGrants
<1> QED
  BY Zenon, <1>1, <1>2, <1>3, <1>4, <1>5 DEF Issues

-----------------------------------------------------------------------------
(* Launches.                                                                *)

\* What an MCP process is told: a launch it did not hold before is one for the
\* activation of the route, outside the restart window.
LEMMA SeenMoves ==
    ASSUME TypeOK, RouteOK(route), [Next]_vars, NEW m \in Mcp, seen'[m].d = "launch"
    PROVE  seen'[m] = seen[m] \/ (seen'[m].a = route'.act /\ route'.state = "Activating"
                                    /\ restarting = None /\ restarting' = None)
<1>0. seen \in [Mcp -> Directives]
  BY DEF TypeOK, ProcessTypes
<1>1. ASSUME NEW n \in Mcp, RegisterMcp(n)
      PROVE  seen'[m] = seen[m] \/ (seen'[m].a = route'.act /\ route'.state = "Activating"
                                      /\ restarting = None /\ restarting' = None)
  <2>1. route' \in Route /\ route' = register_mcp(route, n, FreshAct)
    BY ZenonT(60), <1>1, RouteMoves DEF RouteOK, RegisterMcp
  <2> DEFINE e == directive(route', n)
  <2>2. seen' = [seen EXCEPT ![n] = IF e.d = "launch" THEN e ELSE Told("told")]
    BY ZenonT(60), <1>1, <2>1 DEF RegisterMcp, Heed
  <2>3. restarting' = restarting
    BY ZenonT(60), <1>1 DEF RegisterMcp, daemon
  <2>4. e.d = "launch" => e = [d |-> "launch", a |-> route'.act] /\ route'.state = "Activating"
                          /\ restarting = None
    BY <2>1, DirectiveType
  <2> HIDE DEF e
  <2> QED
    BY <1>0, <2>2, <2>3, <2>4 DEF Told
<1>2. ASSUME NEW n \in Mcp, ReadDirective(n)
      PROVE  seen'[m] = seen[m] \/ (seen'[m].a = route'.act /\ route'.state = "Activating"
                                      /\ restarting = None /\ restarting' = None)
  <2> DEFINE e == directive(route, n)
  <2>1. seen' = [seen EXCEPT ![n] = IF e.d = "launch" THEN e ELSE Told("told")]
        /\ route' = route /\ restarting' = restarting
    BY ZenonT(60), <1>2 DEF ReadDirective, Heed, daemon
  <2>2. route \in Route
    BY DEF RouteOK
  <2>3. e.d = "launch" => e = [d |-> "launch", a |-> route.act] /\ route.state = "Activating"
                          /\ restarting = None
    BY <2>2, DirectiveType
  <2> HIDE DEF e
  <2> QED
    BY <1>0, <2>1, <2>3 DEF Told
<1>3. ASSUME NEW n \in Mcp, \/ McpReconnects(n) \/ ReportActivationFailed(n) \/ ReleaseMcp(n)
                            \/ McpCrashes(n) \/ GiveUp(n)
      PROVE  seen'[m] = seen[m]
  <2>1. seen' = [seen EXCEPT ![n] = Told("none")]
    BY ZenonT(60), <1>3 DEF McpReconnects, ReportActivationFailed, ReleaseMcp, McpCrashes, GiveUp
  <2> QED
    BY ZenonT(60), <1>0, <2>1 DEF Told
<1>4. ASSUME ~LaunchStep PROVE seen'[m] = seen[m]
  BY <1>4, LaunchFrame
<1>5. ASSUME NEW n \in Mcp, LaunchWorker(n) PROVE seen'[m] = seen[m]
  BY <1>5 DEF LaunchWorker
<1> QED
  BY ZenonT(60), <1>1, <1>2, <1>3, <1>4, <1>5 DEF LaunchStep

\* What a step does to a worker process.
LEMMA ProcessMoves ==
    ASSUME TypeOK, [Next]_vars, NEW w \in Worker
    PROVE  \/ wproc'[w] = wproc[w] /\ (wgrant'[w] = wgrant[w] \/ wproc[w] # "starting")
           \/ wproc'[w] = "exited" /\ Alive(w)
           \/ wproc[w] = "up" /\ wproc'[w] = "draining"
           \/ StageWorker(w) /\ wproc[w] = "starting" /\ wproc'[w] = "up"
           \/ /\ wproc[w] = "idle" /\ wproc'[w] = "starting"
              /\ \E m \in Mcp : seen[m].d = "launch" /\ wgrant'[w] = seen[m].a
<1> DEFINE Goal ==
        \/ wproc'[w] = wproc[w] /\ (wgrant'[w] = wgrant[w] \/ wproc[w] # "starting")
        \/ wproc'[w] = "exited" /\ Alive(w)
        \/ wproc[w] = "up" /\ wproc'[w] = "draining"
        \/ StageWorker(w) /\ wproc[w] = "starting" /\ wproc'[w] = "up"
        \/ /\ wproc[w] = "idle" /\ wproc'[w] = "starting"
           /\ \E m \in Mcp : seen[m].d = "launch" /\ wgrant'[w] = seen[m].a
<1>0. wproc \in [Worker -> {"idle", "starting", "up", "draining", "exited"}]
      /\ wgrant \in [Worker -> Act \cup {None}]
  BY DEF TypeOK, ProcessTypes
<1>1. ASSUME NEW m \in Mcp, RegisterMcp(m) \/ ReadDirective(m) PROVE Goal
  BY ZenonT(60), <1>0, <1>1 DEF RegisterMcp, ReadDirective, Heed, Alive
<1>2. ASSUME NEW m \in Mcp, ReportActivationFailed(m) \/ ReleaseMcp(m) \/ McpCrashes(m) \/ GiveUp(m)
      PROVE  Goal
  <2>1. wproc' \in {wproc, Stopped(m)} /\ wgrant' = wgrant
    BY ZenonT(60), <1>2 DEF ReportActivationFailed, ReleaseMcp, McpCrashes, GiveUp
  <2> QED
    BY ZenonT(60), <1>0, <2>1, StoppedType
<1>3. ASSUME NEW m \in Mcp, LaunchWorker(m) PROVE Goal
  BY ZenonT(60), <1>0, <1>3, StoppedType, NewWorkerIn DEF LaunchWorker
<1>4. ASSUME NEW v \in Worker, StageWorker(v) PROVE Goal
  BY ZenonT(60), <1>0, <1>4 DEF StageWorker
<1>5. ASSUME NEW v \in Worker, ReceiveDrain(v) \/ WorkerExits(v) PROVE Goal
  BY ZenonT(60), <1>0, <1>5 DEF ReceiveDrain, WorkerExits, Alive
<1>6. CASE ~ProcessStep
  BY ZenonT(60), <1>6, ProcessFrame
<1> QED
  BY ZenonT(60), <1>1, <1>2, <1>3, <1>4, <1>5, <1>6 DEF ProcessStep

\* Every step keeps the launches in order.
LEMMA LaunchInvStep ==
    ASSUME TypeOK, RouteOK(route), LaunchInv, [Next]_vars
    PROVE  LaunchInv'
<1>1. RouteOK(route')
  BY RouteMoves
<1>2. \A m \in Mcp : seen'[m].d = "launch" => seen'[m].a \in Act
  BY ZenonT(60), <1>1, SeenMoves DEF LaunchInv, RouteOK
<1>3. \A w \in Worker : wproc'[w] = "starting" => wgrant'[w] \in Act
  BY ProcessMoves DEF LaunchInv
<1> QED
  BY ZenonT(60), <1>1, <1>2, <1>3 DEF LaunchInv, RouteOK

-----------------------------------------------------------------------------
(* Worker sessions.                                                         *)

\* The steps that change the session of one worker.
WorkerAct(v) ==
    \/ RegisterWorker(v) \/ RecoverWorker(v) \/ StageWorker(v) \/ StageFails(v)
    \/ BeginReady(v) \/ RejectReady(v) \/ ReadyAgain(v) \/ ProbeFails(v)
    \/ FailRecovery(v) \/ PublishFails(v) \/ PublishGeneration(v) \/ PublishTarget(v)
    \/ DisconnectWorker(v) \/ ExpireWorker(v) \/ WorkerFailed(v)
    \/ \E q \in Req : CommunicationFails(q) /\ flight[q] = v
    \/ Restart

\* The session tables keep what they have on a worker.
Kept(v) ==
    /\ sess'[v] = sess[v] /\ permit'[v] = permit[v] /\ peer'[v] = peer[v]
    /\ gate'[v] = gate[v] /\ probe'[v] = probe[v]
    /\ lock' = v <=> lock = v

\* A step on the session of another worker leaves this one alone.
LEMMA KeptIf ==
    ASSUME TypeOK, NEW v \in Worker, NEW w \in Worker, v # w,
           sess' = sess \/ \E x : sess' = [sess EXCEPT ![w] = x],
           permit' = permit \/ \E x : permit' = [permit EXCEPT ![w] = x],
           peer' = peer \/ \E x : peer' = [peer EXCEPT ![w] = x],
           gate' = gate \/ \E x : gate' = [gate EXCEPT ![w] = x],
           probe' = probe \/ \E x : probe' = [probe EXCEPT ![w] = x],
           lock' = lock \/ (lock' = w /\ lock = None) \/ (lock' = None /\ lock = w)
    PROVE  Kept(v)
<1>1. /\ sess \in [Worker -> {"none", "staged", "published"}] /\ permit \in [Worker -> Permit]
      /\ peer \in [Worker -> {"none", "up", "down"}]
      /\ gate \in [Worker -> {"free", "stage", "publish", "fail", "expire"}]
      /\ probe \in [Worker -> {"none", "staged", "published"}]
  BY DEF TypeOK, SessionTypes
<1>2. v # None
  BY RegistryAssumption
<1>3. sess'[v] = sess[v] /\ permit'[v] = permit[v]
  BY ZenonT(60), <1>1
<1>4. peer'[v] = peer[v] /\ gate'[v] = gate[v] /\ probe'[v] = probe[v]
  BY <1>1
<1> QED
  BY Zenon, <1>2, <1>3, <1>4 DEF Kept

\* What is known of one worker changes by its own steps only.
LEMMA WorkerFrame ==
    ASSUME TypeOK, [Next]_vars, NEW v \in Worker, ~WorkerAct(v)
    PROVE  Kept(v)
<1>1. ASSUME NEW w \in Worker, RegisterWorker(w) PROVE Kept(v)
  BY ZenonT(60), <1>1, KeptIf DEF WorkerAct, RegisterWorker, publication
<1>2. ASSUME NEW w \in Worker, RecoverWorker(w) PROVE Kept(v)
  BY ZenonT(60), <1>2, KeptIf DEF WorkerAct, RecoverWorker, ReplayRegistration, publication
<1>3. ASSUME NEW w \in Worker, StageWorker(w) PROVE Kept(v)
  BY ZenonT(60), <1>3, KeptIf DEF WorkerAct, StageWorker, publication
<1>4. ASSUME NEW w \in Worker, StageFails(w) PROVE Kept(v)
  BY ZenonT(60), <1>4, KeptIf DEF WorkerAct, StageFails, DropSession, publication
<1>5. ASSUME NEW w \in Worker, BeginReady(w) PROVE Kept(v)
  BY ZenonT(60), <1>5, KeptIf DEF WorkerAct, BeginReady, publication
<1>6. ASSUME NEW w \in Worker, RejectReady(w) PROVE Kept(v)
  BY ZenonT(60), <1>6, KeptIf DEF WorkerAct, RejectReady, publication
<1>7. ASSUME NEW w \in Worker, ReadyAgain(w) PROVE Kept(v)
  BY ZenonT(60), <1>7, KeptIf DEF WorkerAct, ReadyAgain, publication
<1>8. ASSUME NEW w \in Worker, ProbeFails(w) PROVE Kept(v)
  BY ZenonT(60), <1>8, KeptIf DEF WorkerAct, ProbeFails, DropSession, publication
<1>9. ASSUME NEW w \in Worker, FailRecovery(w) PROVE Kept(v)
  BY ZenonT(60), <1>9, KeptIf DEF WorkerAct, FailRecovery, DropSession, publication
<1>10. ASSUME NEW w \in Worker, PublishFails(w) PROVE Kept(v)
  BY ZenonT(60), <1>10, KeptIf DEF WorkerAct, PublishFails, DropSession, publication
<1>11. ASSUME NEW w \in Worker, PublishGeneration(w) PROVE Kept(v)
  BY ZenonT(60), <1>11, KeptIf DEF WorkerAct, PublishGeneration, DropSession
<1>12. ASSUME NEW w \in Worker, PublishTarget(w) PROVE Kept(v)
  BY ZenonT(60), <1>12, KeptIf DEF WorkerAct, PublishTarget, DropSession
<1>13. ASSUME NEW w \in Worker, DisconnectWorker(w) PROVE Kept(v)
  BY ZenonT(60), <1>13, KeptIf DEF WorkerAct, DisconnectWorker, publication
<1>14. ASSUME NEW w \in Worker, ExpireWorker(w) PROVE Kept(v)
  BY ZenonT(60), <1>14, KeptIf DEF WorkerAct, ExpireWorker, DropSession, publication
<1>15. ASSUME NEW w \in Worker, WorkerFailed(w) PROVE Kept(v)
  BY ZenonT(60), <1>15, KeptIf DEF WorkerAct, WorkerFailed, publication
<1>16. ASSUME NEW q \in Req, CommunicationFails(q) PROVE Kept(v)
  <2>1. flight[q] \in Worker
    BY ZenonT(60), <1>16 DEF CommunicationFails, TypeOK, TaskTypes
  <2> QED
    BY ZenonT(60), <1>16, <2>1, KeptIf DEF WorkerAct, CommunicationFails, publication
<1>17. ASSUME NEW w \in Worker, DrainRevoke(w) PROVE Kept(v)
  BY ZenonT(60), <1>17 DEF DrainRevoke, sessions, publication, Kept
<1>18. CASE ~SessionStep
  BY ZenonT(60), <1>18, SessionFrame DEF Kept
<1> QED
  BY ZenonT(60), <1>1, <1>2, <1>3, <1>4, <1>5, <1>6, <1>7, <1>8, <1>9, <1>10, <1>11, <1>12,
     <1>13, <1>14, <1>15, <1>16, <1>17, <1>18 DEF SessionStep, WorkerAct

\* One thing at a time is done to a worker.
LEMMA GateInvStep ==
    ASSUME TypeOK, GateInv, [Next]_vars
    PROVE  GateInv'
<1> SUFFICES ASSUME NEW v \in Worker PROVE GateOK(v)'
  BY Zenon DEF GateInv
<1>0. /\ sess \in [Worker -> {"none", "staged", "published"}] /\ permit \in [Worker -> Permit]
      /\ peer \in [Worker -> {"none", "up", "down"}]
      /\ gate \in [Worker -> {"free", "stage", "publish", "fail", "expire"}]
      /\ probe \in [Worker -> {"none", "staged", "published"}]
      /\ wproc \in [Worker -> {"idle", "starting", "up", "draining", "exited"}]
  BY DEF TypeOK, SessionTypes, ProcessTypes
<1>00. GateOK(v) /\ v # None
  BY RegistryAssumption DEF GateInv
<1>1. CASE RegisterWorker(v)
  BY ZenonT(60), <1>0, <1>00, <1>1 DEF RegisterWorker, publication, workers, GateOK, Early
<1>2. CASE RecoverWorker(v)
  BY ZenonT(60), <1>0, <1>00, <1>2 DEF RecoverWorker, ReplayRegistration, publication, workers, GateOK,
     Early
<1>3. CASE StageWorker(v)
  BY ZenonT(60), <1>0, <1>00, <1>3 DEF StageWorker, publication, GateOK, Early
<1>4. CASE StageFails(v)
  BY ZenonT(60), <1>0, <1>00, <1>4 DEF StageFails, DropSession, publication, workers, GateOK, Early
<1>5. CASE BeginReady(v)
  BY ZenonT(60), <1>0, <1>00, <1>5 DEF BeginReady, publication, workers, GateOK, Early
<1>6. CASE RejectReady(v)
  BY ZenonT(60), <1>0, <1>00, <1>6 DEF RejectReady, publication, workers, GateOK, Early
<1>7. CASE ReadyAgain(v)
  BY ZenonT(60), <1>0, <1>00, <1>7 DEF ReadyAgain, Validated, publication, workers, GateOK, Early
<1>8. CASE ProbeFails(v)
  BY ZenonT(60), <1>0, <1>00, <1>8 DEF ProbeFails, Validated, DropSession, publication, workers, GateOK,
     Early
<1>9. CASE FailRecovery(v)
  BY ZenonT(60), <1>0, <1>00, <1>9 DEF FailRecovery, DropSession, publication, workers, GateOK, Early
<1>10. CASE PublishFails(v)
  BY ZenonT(60), <1>0, <1>00, <1>10 DEF PublishFails, Validated, DropSession, publication, workers,
     GateOK, Early
<1>11. CASE PublishGeneration(v)
  BY ZenonT(60), <1>0, <1>00, <1>11 DEF PublishGeneration, Validated, DropSession, workers, GateOK,
     Early
<1>12. CASE PublishTarget(v)
  BY ZenonT(60), <1>0, <1>00, <1>12 DEF PublishTarget, DropSession, workers, GateOK, Early
<1>13. CASE DisconnectWorker(v)
  BY ZenonT(60), <1>0, <1>00, <1>13 DEF DisconnectWorker, publication, workers, GateOK, Early, NoPermit
<1>14. CASE ExpireWorker(v)
  BY ZenonT(60), <1>0, <1>00, <1>14 DEF ExpireWorker, DropSession, publication, workers, GateOK, Early
<1>15. CASE WorkerFailed(v)
  BY ZenonT(60), <1>0, <1>00, <1>15 DEF WorkerFailed, publication, workers, GateOK, Early
<1>16. ASSUME NEW q \in Req, CommunicationFails(q), flight[q] = v PROVE GateOK(v)'
  BY ZenonT(60), <1>0, <1>00, <1>16 DEF CommunicationFails, publication, workers, GateOK, Early
<1>17. CASE Restart
  BY ZenonT(60), <1>0, <1>00, <1>17 DEF Restart, workers, GateOK, Early
<1>18. CASE ~WorkerAct(v)
  <2>1. Kept(v) /\ (wproc'[v] = wproc[v] \/ ~Early(v)' \/ (wproc[v] = "idle" /\ wproc'[v] = "starting"))
    BY ZenonT(60), <1>18, WorkerFrame, ProcessMoves DEF Early
  <2> QED
    BY ZenonT(60), <1>00, <2>1 DEF Kept, GateOK, Early
<1> QED
  BY ZenonT(60), <1>1, <1>2, <1>3, <1>4, <1>5, <1>6, <1>7, <1>8, <1>9, <1>10, <1>11, <1>12,
     <1>13, <1>14, <1>15, <1>16, <1>17, <1>18 DEF WorkerAct

-----------------------------------------------------------------------------
(* First publications.                                                      *)

\* A worker only gets the permit of an activation when it registers.
LEMMA FreshMoves ==
    ASSUME TypeOK, GateInv, [Next]_vars, NEW v \in Worker, Fresh(v)'
    PROVE  /\ Fresh(v)
           /\ Early(v)' => Early(v)
           /\ Early(v) => sess[v] = "none" /\ peer[v] = "none" /\ lock # v /\ probe[v] = "none"
           /\ gate[v] = "stage" => permit[v].k = "activation"
<1>0. permit \in [Worker -> Permit]
  BY DEF TypeOK, SessionTypes
<1>1. Early(v)' => Early(v)
  BY ProcessMoves DEF Early
<1>2. ASSUME permit'[v].k = "activation" PROVE permit'[v] = permit[v] \/ Early(v)
  <2>1. ASSUME NEW m \in Mcp, RegisterMcp(m) \/ NominateRelaunch(m) PROVE permit' = permit
    BY ZenonT(60), <2>1 DEF RegisterMcp, NominateRelaunch, sessions
  <2>2. ASSUME NEW a \in Act, RememberActivation(a) PROVE permit' = permit
    BY ZenonT(60), <2>2 DEF RememberActivation, sessions
  <2>3. ASSUME NEW w \in Worker, RegisterWorker(w) PROVE permit'[v] = permit[v] \/ Early(v)
    BY ZenonT(60), <1>0, <2>3 DEF RegisterWorker, Early
  <2>4. CASE ~Issues
    BY Zenon, <1>2, <2>4, QuietStep DEF Quiet
  <2> QED
    BY Zenon, <2>1, <2>2, <2>3, <2>4 DEF Issues
<1>3. Fresh(v)
  BY Zenon, <1>1, <1>2 DEF Fresh
<1>4. GateOK(v)
  BY DEF GateInv
<1> QED
  BY ZenonT(60), <1>1, <1>3, <1>4 DEF GateOK, Fresh

\* Tasks are begun for workers the route or a request has had.
LEMMA TasksUntouched ==
    ASSUME TypeOK, RouteOK(route), [Next]_vars, NEW v \in Worker, Untouched(v)
    PROVE  /\ v \notin revokes' /\ v \notin failing' /\ draining'[v] = "none"
           /\ \A q \in Req : flight'[q] # v
<1> DEFINE Goal == /\ v \notin revokes' /\ v \notin failing' /\ draining'[v] = "none"
                   /\ \A q \in Req : flight'[q] # v
<1>0. /\ draining \in [Worker -> {"none", "revoke", "send", "wait"}]
      /\ flight \in [Req -> Worker \cup {None}] /\ v # None
  BY ZenonT(60), RegistryAssumption DEF TypeOK, TaskTypes
<1>1. ASSUME NEW m \in Mcp, FinishRelease(m) \/ ExpireMcp(m) PROVE Goal
  <2>1. UNCHANGED <<revokes, failing, flight>> /\ ReleaseReference(m)
    BY ZenonT(60), <1>1 DEF FinishRelease, ExpireMcp
  <2>2. draining' = draining \/ draining' = [draining EXCEPT ![release_mcp(route, m).target] = "revoke"]
    BY ZenonT(60), <2>1 DEF ReleaseReference
  <2>3. release_mcp(route, m).target # v
    BY <1>0, ReleaseOK DEF Untouched
  <2>4. draining'[v] = draining[v]
    BY Zenon, <1>0, <2>2, <2>3
  <2> QED
    BY Zenon, <2>1, <2>4 DEF Untouched
<1>2. ASSUME NEW w \in Worker, MarkFailed(w) \/ RevokeGeneration(w) PROVE Goal
  BY ZenonT(60), <1>2 DEF MarkFailed, RevokeGeneration, Untouched
<1>3. ASSUME NEW w \in Worker, DrainRevoke(w) \/ DrainSend(w) \/ DrainFinish(w) PROVE Goal
  BY ZenonT(60), <1>0, <1>3 DEF DrainRevoke, DrainSend, DrainFinish, Untouched
<1>4. ASSUME NEW q \in Req, Forward(q) \/ Answered(q) PROVE Goal
  BY ZenonT(60), <1>0, <1>4 DEF Forward, Answered, tasks, Untouched
<1>5. ASSUME NEW q \in Req, CommunicationFails(q) PROVE Goal
  BY ZenonT(60), <1>0, <1>5 DEF CommunicationFails, Untouched
<1>6. CASE Restart
  BY ZenonT(60), <1>0, <1>6 DEF Restart
<1>7. CASE ~TaskStep
  BY ZenonT(60), <1>7, TaskFrame DEF Untouched
<1> QED
  BY ZenonT(60), <1>1, <1>2, <1>3, <1>4, <1>5, <1>6, <1>7 DEF TaskStep

\* The durable record only names a worker in its first publication for as long as the
\* publication lasts.
LEMMA RecordUntouched ==
    ASSUME TypeOK, GateInv, [Next]_vars, NEW v \in Worker, Untouched(v), active = v => lock = v,
           Fresh(v)'
    PROVE  /\ v \notin revoked' /\ restarting' # v /\ previous' # v
           /\ active' = v => lock' = v
<1> DEFINE Goal == /\ v \notin revoked' /\ restarting' # v /\ previous' # v
                   /\ active' = v => lock' = v
<1>0. permit \in [Worker -> Permit] /\ v # None
  BY RegistryAssumption DEF TypeOK, SessionTypes
<1>1. NoPermit.k # "activation"
  BY DEF NoPermit
<1>2. permit'[v] = NoPermit => Early(v)
  BY Zenon, <1>1, FreshMoves DEF Fresh
<1>3. ASSUME NEW w, w # v, lock' = lock, Revoke(w), UNCHANGED <<previous, restarting>> PROVE Goal
  BY Zenon, <1>0, <1>3 DEF Revoke, Untouched
<1>4. ASSUME UNCHANGED <<publication, restarting>> PROVE Goal
  BY Zenon, <1>4 DEF publication, Untouched
<1>5. ASSUME NEW w \in Worker, StageFails(w) PROVE Goal
  <2>1. \/ UNCHANGED publication
        \/ gate[w] = "stage" /\ permit[w].k # "activation" /\ Revoke(w) /\ UNCHANGED <<lock, previous>>
    BY ZenonT(60), <1>5 DEF StageFails
  <2>2. restarting' = restarting
    BY <1>5 DEF StageFails
  <2> QED
    BY Zenon, <1>3, <1>4, <2>1, <2>2, FreshMoves
<1>6. ASSUME NEW w \in Worker, ProbeFails(w) PROVE Goal
  <2>1. \/ UNCHANGED publication
        \/ probe[w] = "staged" /\ permit[w].k # "activation" /\ Revoke(w) /\ UNCHANGED <<lock, previous>>
    BY ZenonT(60), <1>6 DEF ProbeFails
  <2>2. restarting' = restarting
    BY ZenonT(60), <1>6 DEF ProbeFails
  <2>3. "staged" # "none"
    OBVIOUS
  <2> QED
    BY Zenon, <1>3, <1>4, <2>1, <2>2, <2>3, FreshMoves DEF Fresh
<1>7. ASSUME NEW w \in Worker, PublishGeneration(w) PROVE Goal
  <2>1. /\ lock = None /\ revoked' = revoked /\ restarting' = restarting
        /\ \/ lock' = w /\ active' = w /\ previous' = active
           \/ UNCHANGED <<lock, previous, active>>
    BY ZenonT(60), <1>7 DEF PublishGeneration, daemon
  <2> QED
    BY Zenon, <1>0, <2>1 DEF Untouched
<1>8. ASSUME NEW w \in Worker, PublishTarget(w) PROVE Goal
  <2>1. /\ lock = w /\ previous' = None /\ active' \in {active, previous} /\ revoked' = revoked
        /\ restarting' \in {None, restarting}
        /\ permit' = [permit EXCEPT ![w] = NoPermit]
    BY ZenonT(60), <1>8 DEF PublishTarget, DropSession
  <2>2. w # v
    BY Zenon, <1>0, <1>2, <2>1, FreshMoves
  <2> QED
    BY Zenon, <1>0, <2>1, <2>2 DEF Untouched
<1>9. ASSUME NEW w \in Worker, ExpireWorker(w) PROVE Goal
  <2>1. /\ restarting' = restarting
        /\ \/ UNCHANGED publication
           \/ sess[w] # "none" /\ Revoke(w) /\ UNCHANGED <<lock, previous>>
              /\ permit' = [permit EXCEPT ![w] = NoPermit]
    BY ZenonT(60), <1>9 DEF ExpireWorker, DropSession, daemon
  <2>2. UNCHANGED publication \/ w # v
    BY Zenon, <1>0, <1>2, <2>1, FreshMoves
  <2> QED
    BY Zenon, <1>3, <1>4, <2>1, <2>2
<1>10. ASSUME NEW w \in Worker, RevokeGeneration(w) PROVE Goal
  BY ZenonT(60), <1>3, <1>10 DEF RevokeGeneration, Untouched, daemon
<1>11. ASSUME NEW w \in Worker, DrainRevoke(w) PROVE Goal
  <2>1. /\ draining[w] = "revoke" /\ restarting' = restarting
        /\ UNCHANGED publication \/ (Revoke(w) /\ UNCHANGED <<lock, previous>>)
    BY ZenonT(60), <1>11 DEF DrainRevoke, daemon
  <2>2. w # v
    BY <2>1 DEF Untouched
  <2> QED
    BY Zenon, <1>3, <1>4, <2>1, <2>2
<1>12. CASE Restart
  <2>1. /\ UNCHANGED <<active, revoked>> /\ previous' = None /\ restarting' = active
        /\ permit' = [w \in Worker |-> NoPermit]
    BY ZenonT(60), <1>12 DEF Restart
  <2>2. lock # v
    BY Zenon, <1>2, <2>1, FreshMoves
  <2> QED
    BY Zenon, <1>0, <2>1, <2>2 DEF Untouched
<1>13. CASE RestartWindowEnds
  <2>1. /\ Revoke(restarting) /\ restarting' = None /\ UNCHANGED <<lock, previous>>
    BY Zenon, <1>13 DEF RestartWindowEnds
  <2> QED
    BY Zenon, <1>0, <2>1 DEF Revoke, Untouched
<1>14. CASE ~RecordStep
  BY Zenon, <1>4, <1>14, RecordFrame
<1> QED
  BY Zenon, <1>5, <1>6, <1>7, <1>8, <1>9, <1>10, <1>11, <1>12, <1>13, <1>14 DEF RecordStep

\* A first publication stays one until it ends.
LEMMA FirstInvStep ==
    ASSUME TypeOK, RouteOK(route), GateInv, FirstInv, [Next]_vars
    PROVE  FirstInv'
<1> SUFFICES ASSUME NEW v \in Worker, Fresh(v)'
             PROVE  Untouched(v)' /\ (active' = v => lock' = v)
  BY Zenon DEF FirstInv
<1>1. Untouched(v) /\ (active = v => lock = v)
  BY Zenon, FreshMoves DEF FirstInv
<1>2. route'.target # v
  <2>1. v # None
    BY RegistryAssumption
  <2>2. CASE TargetKept
    BY Zenon, <1>1, <2>1, <2>2 DEF TargetKept, Untouched
  <2>3. ASSUME NEW w \in Worker, PublishTarget(w), mark_worker_ready(route, permit[w], w),
               route' = Ready(route, w)
        PROVE  route'.target # v
    <3>1. lock = w /\ permit' = [permit EXCEPT ![w] = NoPermit]
      BY ZenonT(60), <2>3 DEF PublishTarget
    <3>2. permit \in [Worker -> Permit] /\ NoPermit.k # "activation"
      BY DEF TypeOK, SessionTypes, NoPermit
    <3>3. w # v
      BY Zenon, <3>1, <3>2, FreshMoves DEF Fresh
    <3> QED
      BY ZenonT(60), <2>3, <3>3 DEF Ready
  <2> QED
    BY Zenon, <2>2, <2>3, RouteMoves
<1> QED
  BY Zenon, <1>1, <1>2, TasksUntouched, RecordUntouched DEF Untouched

-----------------------------------------------------------------------------
(* The durable record.                                                      *)

\* A step that revokes has the publication mutex to itself.
Revokes == lock = None /\ UNCHANGED <<lock, previous>> /\ \E w \in Worker : Revoke(w)

\* What a step does to the durable record.
LEMMA RecordMoves ==
    ASSUME TypeOK, [Next]_vars
    PROVE  /\ restarting' \in {restarting, None} \/ Restart
           /\ \/ UNCHANGED publication
              \/ Revokes
              \/ \E w \in Worker : PublishGeneration(w) \/ PublishTarget(w)
              \/ Restart
<1> DEFINE Goal == /\ restarting' \in {restarting, None} \/ Restart
                   /\ \/ UNCHANGED publication
                      \/ Revokes
                      \/ \E w \in Worker : PublishGeneration(w) \/ PublishTarget(w)
                      \/ Restart
<1>1. ASSUME NEW w \in Worker, StageFails(w) \/ ProbeFails(w) PROVE Goal
  BY ZenonT(60), <1>1 DEF StageFails, ProbeFails, Revokes
<1>2. ASSUME NEW w \in Worker, ExpireWorker(w) \/ DrainRevoke(w) PROVE Goal
  BY ZenonT(60), <1>2 DEF ExpireWorker, DrainRevoke, Revokes, daemon
<1>3. ASSUME NEW w \in Worker, RevokeGeneration(w) PROVE Goal
  BY ZenonT(60), <1>3 DEF RevokeGeneration, Revokes, daemon
<1>4. ASSUME NEW w \in Worker, PublishGeneration(w) \/ PublishTarget(w) PROVE Goal
  BY ZenonT(60), <1>4 DEF PublishGeneration, PublishTarget, daemon
<1>5. CASE RestartWindowEnds
  <2>1. restarting \in Worker
    BY ZenonT(60), <1>5 DEF RestartWindowEnds, TypeOK, TaskTypes
  <2> QED
    BY ZenonT(60), <1>5, <2>1 DEF RestartWindowEnds, Revokes
<1>6. CASE Restart
  BY Zenon, <1>6
<1>7. CASE ~RecordStep
  BY Zenon, <1>7, RecordFrame
<1> QED
  BY Zenon, <1>1, <1>2, <1>3, <1>4, <1>5, <1>6, <1>7 DEF RecordStep

\* The record is kept free of revoked generations.
LEMMA RecordInvStep ==
    ASSUME TypeOK, FirstInv, RecordInv, [Next]_vars
    PROVE  RecordInv'
<1>0. None \notin Worker
  BY RegistryAssumption
<1>1. CASE UNCHANGED publication
  BY Zenon, <1>1 DEF publication, RecordInv
<1>2. CASE Revokes
  BY Zenon, <1>2 DEF Revokes, Revoke, RecordInv
<1>3. ASSUME NEW w \in Worker, PublishGeneration(w) PROVE RecordInv'
  <2>1. /\ lock = None /\ revoked' = revoked
        /\ \/ /\ permit[w].k = "activation" \/ active = w
              /\ lock' = w /\ active' = w /\ previous' = active
           \/ UNCHANGED <<lock, previous, active>>
    BY ZenonT(60), <1>3 DEF PublishGeneration
  <2>2. permit[w].k = "activation" => w \notin revoked
    BY Zenon DEF FirstInv, Fresh, Untouched
  <2> QED
    BY Zenon, <1>0, <2>1, <2>2 DEF RecordInv
<1>4. ASSUME NEW w \in Worker, PublishTarget(w) PROVE RecordInv'
  <2>1. lock' = None /\ previous' = None /\ active' \in {active, previous} /\ revoked' = revoked
    BY ZenonT(60), <1>4 DEF PublishTarget
  <2> QED
    BY Zenon, <2>1 DEF RecordInv
<1>5. CASE Restart
  BY Zenon, <1>5 DEF Restart, RecordInv
<1> QED
  BY Zenon, <1>1, <1>2, <1>3, <1>4, <1>5, RecordMoves

-----------------------------------------------------------------------------
(* The session of the target.                                               *)

\* A failure that is under way is taken to the registry, unless the daemon restarts.
LEMMA FailingMoves ==
    ASSUME TypeOK, [Next]_vars, NEW w \in failing, w \notin failing'
    PROVE  MarkFailed(w) \/ Restart
<1>1. ASSUME NEW m \in Mcp, FinishRelease(m) \/ ExpireMcp(m) PROVE FALSE
  BY ZenonT(60), <1>1 DEF FinishRelease, ExpireMcp
<1>2. ASSUME NEW v \in Worker, MarkFailed(v) PROVE MarkFailed(w)
  <2>1. failing' = failing \ {v}
    BY <1>2 DEF MarkFailed
  <2> QED
    BY Zenon, <1>2, <2>1
<1>3. ASSUME NEW v \in Worker, RevokeGeneration(v) \/ DrainRevoke(v) \/ DrainSend(v) \/ DrainFinish(v)
      PROVE  FALSE
  BY ZenonT(60), <1>3 DEF RevokeGeneration, DrainRevoke, DrainSend, DrainFinish
<1>4. ASSUME NEW q \in Req, Forward(q) \/ Answered(q) \/ CommunicationFails(q) PROVE FALSE
  BY ZenonT(60), <1>4 DEF Forward, Answered, CommunicationFails, tasks
<1>5. CASE ~TaskStep
  BY Zenon, <1>5, TaskFrame
<1> QED
  BY ZenonT(60), <1>1, <1>2, <1>3, <1>4, <1>5 DEF TaskStep

\* A published session goes by its expiry, a failed request, or a failed recovery.
LEMMA PublishedMoves ==
    ASSUME TypeOK, GateInv, [Next]_vars, NEW v \in Worker, sess[v] = "published"
    PROVE  \/ sess'[v] = "published" \/ gate'[v] = "expire" \/ v \in failing'
           \/ FailRecovery(v) \/ Restart
<1> DEFINE Goal == \/ sess'[v] = "published" \/ gate'[v] = "expire" \/ v \in failing'
                   \/ FailRecovery(v) \/ Restart
<1>0. /\ sess \in [Worker -> {"none", "staged", "published"}]
      /\ gate \in [Worker -> {"free", "stage", "publish", "fail", "expire"}]
  BY DEF TypeOK, SessionTypes
<1>1. gate[v] # "stage" /\ probe[v] # "staged" /\ lock # v
  BY DEF GateInv, GateOK
<1>2. CASE StageWorker(v) \/ StageFails(v)
  BY ZenonT(60), <1>1, <1>2 DEF StageWorker, StageFails
<1>3. CASE ProbeFails(v) \/ PublishFails(v) \/ PublishGeneration(v) \/ PublishTarget(v)
  BY ZenonT(60), <1>1, <1>3 DEF ProbeFails, PublishFails, PublishGeneration, PublishTarget
<1>4. CASE RegisterWorker(v) \/ RecoverWorker(v) \/ BeginReady(v) \/ RejectReady(v)
           \/ ReadyAgain(v) \/ DisconnectWorker(v) \/ WorkerFailed(v)
  BY ZenonT(60), <1>4 DEF RegisterWorker, RecoverWorker, BeginReady, RejectReady, ReadyAgain,
     DisconnectWorker, WorkerFailed
<1>5. CASE ExpireWorker(v)
  BY ZenonT(60), <1>0, <1>5 DEF ExpireWorker
<1>6. ASSUME NEW q \in Req, CommunicationFails(q), flight[q] = v PROVE Goal
  BY ZenonT(60), <1>6 DEF CommunicationFails
<1>7. CASE ~WorkerAct(v)
  BY Zenon, <1>7, WorkerFrame DEF Kept
<1> QED
  BY ZenonT(60), <1>2, <1>3, <1>4, <1>5, <1>6, <1>7 DEF WorkerAct

\* The expiry of a session ends in the registry.
LEMMA ExpiryMoves ==
    ASSUME TypeOK, GateInv, [Next]_vars, NEW v \in Worker, gate[v] = "expire"
    PROVE  gate'[v] = "expire" \/ WorkerFailed(v) \/ Restart
<1>1. /\ gate[v] \notin {"free", "stage", "fail"}
      /\ lock # v /\ probe[v] = "none"
  BY DEF GateInv, GateOK
<1>2. CASE RegisterWorker(v) \/ RecoverWorker(v) \/ StageWorker(v) \/ StageFails(v)
           \/ BeginReady(v) \/ RejectReady(v) \/ ReadyAgain(v) \/ ProbeFails(v)
           \/ FailRecovery(v) \/ PublishFails(v) \/ PublishGeneration(v)
           \/ DisconnectWorker(v) \/ ExpireWorker(v)
  BY ZenonT(60), <1>1, <1>2 DEF RegisterWorker, RecoverWorker, StageWorker, StageFails, BeginReady,
     RejectReady, ReadyAgain, ProbeFails, FailRecovery, PublishFails, PublishGeneration, Validated,
     DisconnectWorker, ExpireWorker
<1>3. CASE PublishTarget(v)
  BY Zenon, <1>1, <1>3 DEF PublishTarget
<1>4. ASSUME NEW q \in Req, CommunicationFails(q), flight[q] = v PROVE gate'[v] = "expire"
  BY ZenonT(60), <1>4 DEF CommunicationFails
<1>5. CASE ~WorkerAct(v)
  BY Zenon, <1>5, WorkerFrame DEF Kept
<1> QED
  BY ZenonT(60), <1>2, <1>3, <1>4, <1>5 DEF WorkerAct

\* A publication that has lost its session was one before, for the same permit, unless
\* the registry has just been told of the failure.
LEMMA StaleMoves ==
    ASSUME TypeOK, GateInv, [Next]_vars, NEW v \in Worker, Stale(v)'
    PROVE  MarkFailed(v) \/ (Stale(v) /\ permit'[v] = permit[v])
<1> DEFINE Goal == MarkFailed(v) \/ (Stale(v) /\ permit'[v] = permit[v])
<1>0. /\ sess \in [Worker -> {"none", "staged", "published"}]
      /\ probe \in [Worker -> {"none", "staged", "published"}] /\ v # None
  BY RegistryAssumption DEF TypeOK, SessionTypes
<1>1. /\ Early(v) => gate[v] \in {"free", "stage"} /\ peer[v] = "none"
      /\ gate[v] = "publish" <=> lock = v
      /\ probe[v] = "staged" => peer[v] = "up" /\ gate[v] = "free"
  BY DEF GateInv, GateOK
<1>2. probe'[v] = "staged" \/ lock' = v
  BY DEF Stale
<1>3. sess'[v] = "none" /\ v \notin failing'
  BY DEF Stale
<1>4. CASE gate[v] = "free" /\ probe[v] = "none" /\ probe' = probe /\ lock' = lock
  BY ZenonT(60), <1>1, <1>2, <1>4
<1>5. CASE gate[v] \in {"stage", "fail", "expire"} /\ probe' = probe /\ lock' = lock
  BY ZenonT(60), <1>1, <1>2, <1>5
<1>6. CASE gate[v] = "free" /\ probe' = [probe EXCEPT ![v] = "none"] /\ lock' = lock
  BY ZenonT(60), <1>0, <1>1, <1>2, <1>6
<1>7. CASE RegisterWorker(v)
  <2>1. gate[v] = "free" /\ probe' = probe /\ lock' = lock /\ Early(v)
    BY ZenonT(60), <1>7 DEF RegisterWorker, publication, Early
  <2> QED
    BY ZenonT(60), <1>1, <1>2, <2>1
<1>8. CASE RecoverWorker(v)
  <2>1. gate[v] = "free" /\ peer[v] # "up" /\ probe' = probe /\ lock' = lock
    BY ZenonT(60), <1>8 DEF RecoverWorker, publication
  <2> QED
    BY ZenonT(60), <1>1, <1>2, <2>1
<1>9. CASE StageWorker(v) \/ StageFails(v)
  BY ZenonT(60), <1>5, <1>9 DEF StageWorker, StageFails, publication
<1>10. CASE BeginReady(v)
  BY ZenonT(60), <1>3, <1>10 DEF BeginReady
<1>11. CASE RejectReady(v) \/ ReadyAgain(v) \/ ProbeFails(v) \/ PublishFails(v) \/ DisconnectWorker(v)
  BY ZenonT(60), <1>6, <1>11 DEF RejectReady, ReadyAgain, ProbeFails, PublishFails, DisconnectWorker,
     Validated, publication
<1>12. CASE FailRecovery(v) \/ WorkerFailed(v)
  BY ZenonT(60), <1>5, <1>12 DEF FailRecovery, WorkerFailed, publication
<1>13. CASE PublishGeneration(v)
  <2>1. /\ gate[v] = "free" /\ probe[v] = "staged" /\ probe' = [probe EXCEPT ![v] = "none"]
        /\ failing' = failing
        /\ lock' = lock \/ UNCHANGED <<sess, permit>>
    BY ZenonT(60), <1>13 DEF PublishGeneration, Validated, tasks
  <2> QED
    BY ZenonT(60), <1>3, <1>6, <2>1 DEF Stale
<1>14. CASE PublishTarget(v)
  <2>1. lock = v /\ lock' = None /\ probe' = probe
    BY Zenon, <1>14 DEF PublishTarget
  <2> QED
    BY ZenonT(60), <1>0, <1>1, <1>2, <2>1
<1>15. CASE ExpireWorker(v)
  <2>1. gate[v] = "free" /\ peer[v] = "down" /\ probe' = probe /\ lock' = lock
    BY ZenonT(60), <1>15 DEF ExpireWorker, publication
  <2> QED
    BY ZenonT(60), <1>1, <1>2, <2>1
<1>16. ASSUME NEW q \in Req, CommunicationFails(q), flight[q] = v PROVE Goal
  BY ZenonT(60), <1>3, <1>16 DEF CommunicationFails
<1>17. CASE Restart
  <2>1. probe' = [w \in Worker |-> "none"] /\ lock' = None
    BY Zenon, <1>17 DEF Restart
  <2> QED
    BY ZenonT(60), <1>0, <1>2, <2>1
<1>18. CASE ~WorkerAct(v)
  <2>1. v \in failing => MarkFailed(v)
    BY Zenon, <1>3, <1>18, FailingMoves DEF WorkerAct
  <2> QED
    BY Zenon, <1>2, <1>3, <1>18, <2>1, WorkerFrame DEF Kept, Stale
<1> QED
  BY ZenonT(60), <1>7, <1>8, <1>9, <1>10, <1>11, <1>12, <1>13, <1>14, <1>15, <1>16, <1>17, <1>18
     DEF WorkerAct

\* The failure of a worker on a ready route ends its service.
LEMMA FailedTarget ==
    ASSUME RouteOK(route), NEW w \in Worker,
           route.state = "Ready", route.target = w,
           MarkFailed(w) \/ FailRecovery(w) \/ WorkerFailed(w) \/ Restart
    PROVE  route'.state # "Ready"
<1>1. route' \in {Failed(route), worker_failed(route, w), NewRoute}
  BY ZenonT(60) DEF MarkFailed, mark_worker_communication_failed, FailRecovery,
     mark_route_pass_through, WorkerFailed, Restart
<1>2. Failed(route).state # "Ready" /\ worker_failed(route, w).state # "Ready"
  BY ZenonT(60), FailedOK, WorkerFailedOK
<1>3. NewRoute.state # "Ready"
  BY DEF NewRoute
<1> QED
  BY Zenon, <1>1, <1>2, <1>3

\* The target of a ready route has its session, or is about to be given up.
LEMMA ServedStep ==
    ASSUME TypeOK, RouteOK(route), GateInv, SessionInv, [Next]_vars, route'.state = "Ready"
    PROVE  Served(route.target)'
<1>1. ASSUME NEW w \in Worker, PublishTarget(w), mark_worker_ready(route, permit[w], w),
             route' = Ready(route, w)
      PROVE  Served(route.target)'
  <2>1. route'.target = w
    BY Zenon, <1>1, ReadyOK
  <2>2. /\ lock = w /\ failing' = failing
        /\ sess' = [sess EXCEPT ![w] = IF @ = "none" THEN @ ELSE "published"]
    BY ZenonT(60), <1>1 DEF PublishTarget, tasks
  <2>3. sess[w] = "none" => w \in failing
    BY Zenon, <1>1, <2>2 DEF SessionInv, Stale
  <2>4. sess \in [Worker -> {"none", "staged", "published"}]
    BY DEF TypeOK, SessionTypes
  <2>5. sess'[w] = "published" \/ w \in failing'
    BY Zenon, <2>2, <2>3, <2>4
  <2> QED
    BY Zenon, <2>1, <2>5 DEF Served
<1>2. CASE TargetKept
  <2>1. /\ route.state = "Ready" /\ route'.target = route.target
        /\ route.target \in Worker /\ Served(route.target)
    BY ZenonT(60), <1>2 DEF TargetKept, RouteOK, SessionInv
  <2>2. PICK t \in Worker : t = route.target
    BY <2>1
  <2>3. ~(MarkFailed(t) \/ FailRecovery(t) \/ WorkerFailed(t) \/ Restart)
    BY Zenon, <2>1, <2>2, FailedTarget
  <2>4. Served(t)'
    BY Zenon, <2>1, <2>2, <2>3, PublishedMoves, ExpiryMoves, FailingMoves DEF Served
  <2> QED
    BY Zenon, <2>1, <2>2, <2>4 DEF Served
<1> QED
  BY Zenon, <1>1, <1>2, RouteMoves

\* A publication that has lost its session does not become current again.
LEMMA StaleStep ==
    ASSUME TypeOK, RouteOK(route), GateInv, SessionInv, [Next]_vars, NEW v \in Worker, Stale(v)'
    PROVE  ~mark_worker_ready(route', permit'[v], v)
<1>1. CASE MarkFailed(v)
  <2>1. route' = mark_worker_communication_failed(route, v)
    BY <1>1 DEF MarkFailed
  <2>2. \/ route'.state \in {"Empty", "PassThrough"}
        \/ route'.state # "Activating" /\ ~(route'.state = "Ready" /\ route'.target = v)
    BY Zenon, <2>1, FailedOK DEF mark_worker_communication_failed
  <2> QED
    BY <2>2 DEF mark_worker_ready
<1>2. CASE Stale(v) /\ permit'[v] = permit[v]
  <2>1. ~mark_worker_ready(route, permit[v], v)
    BY Zenon, <1>2 DEF SessionInv
  <2>2. route.state \in {"Activating", "Ready"} => route.refs # {}
    BY DEF RouteOK
  <2>3. ~(route.state = "Activating" /\ permit[v].k # "existing" /\ route.act = permit[v].a)
        /\ ~(route.state = "Ready" /\ permit[v].k = "existing" /\ route.target = v)
    BY ZenonT(60), <2>1, <2>2 DEF mark_worker_ready
  <2>4. ~(route'.state = "Activating" /\ permit[v].k # "existing" /\ route'.act = permit[v].a)
    BY Zenon, <2>3, RouteMoves, FreshIn DEF ActKept
  <2>5. ASSUME NEW w \in Worker, PublishTarget(w), route' = Ready(route, w), route'.target = v
        PROVE  FALSE
    <3>1. lock = w /\ lock' = None /\ probe' = probe
      BY Zenon, <2>5 DEF PublishTarget
    <3>2. w = v
      BY ZenonT(60), <2>5 DEF Ready
    <3>3. v # None
      BY RegistryAssumption
    <3> QED
      BY ZenonT(60), <3>1, <3>2, <3>3 DEF Stale, GateInv, GateOK
  <2>6. ~(route'.state = "Ready" /\ permit[v].k = "existing" /\ route'.target = v)
    BY Zenon, <2>3, <2>5, RouteMoves DEF TargetKept
  <2> QED
    BY Zenon, <1>2, <2>4, <2>6 DEF mark_worker_ready
<1> QED
  BY Zenon, <1>1, <1>2, StaleMoves

\* Every step keeps the sessions in order.
LEMMA SessionInvStep ==
    ASSUME TypeOK, RouteOK(route), GateInv, SessionInv, [Next]_vars
    PROVE  SessionInv'
BY Zenon, ServedStep, StaleStep DEF SessionInv, Served

\* No launch is handed out in the restart window, and none becomes current in it.
LEMMA WindowStep ==
    ASSUME TypeOK, RouteOK(route), LaunchInv, NoLaunchInWindow, [Next]_vars
    PROVE  NoLaunchInWindow'
<1> SUFFICES ASSUME restarting' # None, NEW m \in Mcp, seen'[m].d = "launch"
             PROVE  seen'[m].a # route'.act
  BY Zenon DEF NoLaunchInWindow
<1>1. seen'[m] = seen[m] /\ seen[m].a \in Act
  BY Zenon, SeenMoves DEF LaunchInv
<1>2. seen[m].a # None
  BY ZenonT(60), <1>1, RegistryAssumption
<1>3. CASE Restart
  BY ZenonT(60), <1>1, <1>2, <1>3 DEF Restart, NewRoute
<1>4. CASE restarting # None
  BY Zenon, <1>1, <1>2, <1>4, RouteMoves, FreshIn DEF NoLaunchInWindow, ActKept
<1> QED
  BY Zenon, <1>3, <1>4, RecordMoves

-----------------------------------------------------------------------------
(* The invariant.                                                           *)

\* The route of a state that satisfies the invariant is in order.
LEMMA InvRouteOK ==
    ASSUME BrokerInv PROVE RouteOK(route)
BY ZenonT(60) DEF BrokerInv, TypeOK, RegistryTypes, OwnerHoldsRoute, LaunchInv, RouteOK

\* The invariant holds before anything has been started.
LEMMA BrokerInit ==
    ASSUME Init PROVE BrokerInv
<1>1. RouteOK(route) /\ route.state = "Empty" /\ route.target = None
  BY ZenonT(60), NewRouteOK DEF Init, MemoryInit, NewRoute
<1>2. TypeOK
  <2>1. RegistryTypes
    BY <1>1 DEF Init, MemoryInit, RegistryTypes, RouteOK
  <2>2. SessionTypes
    BY DEF Init, MemoryInit, SessionTypes, NoPermit, Permit
  <2>3. TaskTypes
    BY DEF Init, MemoryInit, TaskTypes
  <2>4. ProcessTypes
    BY DEF Init, MemoryInit, ProcessTypes, Directives, Told, NoChild
  <2> QED
    BY Zenon, <2>1, <2>2, <2>3, <2>4 DEF TypeOK
<1>3. OwnerHoldsRoute
  BY <1>1 DEF OwnerHoldsRoute
<1>4. LaunchInv
  BY ZenonT(60), <1>1 DEF Init, Told, LaunchInv
<1>5. GrantInv
  BY DEF Init, MemoryInit, NoPermit, GrantInv, OneWorkerPerGrant
<1>6. GateInv
  BY ZenonT(60), RegistryAssumption DEF Init, MemoryInit, GateInv, GateOK, Early
<1>7. FirstInv
  BY ZenonT(60), <1>1, RegistryAssumption DEF Init, MemoryInit, FirstInv, Untouched
<1>8. RecordInv
  BY Zenon DEF Init, MemoryInit, RecordInv
<1>9. SessionInv
  BY ZenonT(60), <1>1, RegistryAssumption DEF Init, MemoryInit, SessionInv, Stale
<1>10. NoLaunchInWindow
  BY Zenon DEF Init, NoLaunchInWindow
<1> QED
  BY Zenon, <1>2, <1>3, <1>4, <1>5, <1>6, <1>7, <1>8, <1>9, <1>10 DEF BrokerInv

\* Every step of the broker, its clients and its workers keeps the invariant.
LEMMA BrokerStep ==
    ASSUME BrokerInv, [Next]_vars PROVE BrokerInv'
<1>1. RouteOK(route) /\ RouteOK(route')
  BY Zenon, InvRouteOK, RouteMoves
<1>2. /\ TypeOK /\ LaunchInv /\ GrantInv /\ GateInv /\ FirstInv /\ RecordInv /\ SessionInv
      /\ NoLaunchInWindow
  BY Zenon DEF BrokerInv
<1>3. OwnerHoldsRoute'
  BY Zenon, <1>1 DEF RouteOK, OwnerHoldsRoute
<1>4. TypeOK' /\ LaunchInv' /\ GrantInv' /\ GateInv'
  BY Zenon, <1>1, <1>2, TypeStep, LaunchInvStep, GrantInvStep, GateInvStep
<1>5. FirstInv' /\ RecordInv' /\ SessionInv' /\ NoLaunchInWindow'
  BY Zenon, <1>1, <1>2, FirstInvStep, RecordInvStep, SessionInvStep, WindowStep
<1> QED
  BY Zenon, <1>3, <1>4, <1>5 DEF BrokerInv

\* The inductive invariant of the broker.
THEOREM BrokerInvariant == Spec => []BrokerInv
<1>1. Init => BrokerInv
  BY ZenonT(60), BrokerInit
<1>2. BrokerInv /\ [Next]_vars => BrokerInv'
  BY BrokerStep
<1> QED
  BY <1>1, <1>2, PTL DEF Spec

\* Every variable of the broker keeps its type: in particular the route is always one
\* of the states of the registry, with ids of the right kind.
THEOREM BrokerTypeCorrect == Spec => []TypeOK
<1>1. BrokerInv => TypeOK
  BY Zenon DEF BrokerInv
<1> QED
  BY <1>1, BrokerInvariant, PTL

\* A route that needs somebody to act names a session that still holds it, and a route
\* that serves or passes through is held by one (after_reference_removed,
\* transfer_owner_if_needed).
THEOREM OwnersHoldRoutes == Spec => []OwnerHoldsRoute
<1>1. BrokerInv => OwnerHoldsRoute
  BY Zenon DEF BrokerInv
<1> QED
  BY <1>1, BrokerInvariant, PTL

\* A ready route points at a worker with a session, or its failure is about to be told.
THEOREM ReadyRoutesHaveSessions == Spec => []ReadyHasSession
<1>1. BrokerInv => ReadyHasSession
  BY DEF BrokerInv, SessionInv, Served, ReadyHasSession
<1> QED
  BY <1>1, BrokerInvariant, PTL

\* While a persisted generation may reconnect after a restart, no MCP holds a launch
\* for the current activation (Hub::directive, defer_launch).
THEOREM NoLaunchesInWindow == Spec => []NoLaunchInWindow
<1>1. BrokerInv => NoLaunchInWindow
  BY Zenon DEF BrokerInv
<1> QED
  BY <1>1, BrokerInvariant, PTL

\* No two workers are staged for one activation grant (register_worker).
THEOREM GrantsAreSingle == Spec => []OneWorkerPerGrant
<1>1. BrokerInv => OneWorkerPerGrant
  BY Zenon DEF BrokerInv, GrantInv
<1> QED
  BY <1>1, BrokerInvariant, PTL

-----------------------------------------------------------------------------
(* The broker implements the lifecycle of a route.                          *)

\* A step of the broker is a step of the lifecycle, or none.
Mapped == [Lifecycle!Next]_(Lifecycle!vars)

\* A route that keeps its holders, and its service or none, moves on or stops.
LEMMA MappedStop ==
    ASSUME route'.refs = route.refs, Serving' = Serving \/ Serving' = None, revoked' = revoked
    PROVE  Mapped
BY Zenon DEF Mapped, Lifecycle!Next, Lifecycle!vars, Lifecycle!Stop

\* A failed or emptied route serves nobody.
LEMMA MappedFailure ==
    ASSUME RouteOK(route), route' \in {route, Failed(route), Empty(route)}, revoked' = revoked
    PROVE  Mapped
<1>1. CASE route' = route
  BY Zenon, <1>1, MappedStop DEF Serving
<1>2. CASE route' = Failed(route)
  <2>1. Failed(route).state # "Ready" /\ Failed(route).refs = route.refs
    BY ZenonT(60), FailedOK
  <2> QED
    BY Zenon, <1>2, <2>1, MappedStop DEF Serving
<1>3. CASE route' = Empty(route)
  <2>1. Empty(route).state # "Ready" /\ Empty(route).refs = route.refs
    BY ZenonT(60), EmptyOK
  <2> QED
    BY Zenon, <1>3, <2>1, MappedStop DEF Serving
<1> QED
  BY Zenon, <1>1, <1>2, <1>3

\* A revocation retires a generation.
LEMMA MappedRevoke ==
    ASSUME UNCHANGED route, NEW w \in Worker, Revoke(w)
    PROVE  Mapped
BY Zenon DEF Mapped, Lifecycle!Next, Lifecycle!Retire, Revoke, Serving

\* register_mcp holds the route.
LEMMA MappedHold ==
    ASSUME RouteOK(route), NEW m \in Mcp, RegisterMcp(m)
    PROVE  Mapped
<1>1. FreshAct \in Act
  BY ZenonT(60), FreshIn DEF RegisterMcp
<1>2. route' = register_mcp(route, m, FreshAct) /\ revoked' = revoked
  BY ZenonT(60) DEF RegisterMcp, publication
<1>3. /\ route'.refs = route.refs \cup {m}
      /\ route'.state = "Ready" <=> route.state = "Ready"
      /\ route.state = "Ready" => route'.target = route.target
  <2> DEFINE r == register_mcp(route, m, FreshAct)
  <2>1. /\ r.refs = route.refs \cup {m}
        /\ \/ r.state = "Activating" /\ route.state = "Empty"
           \/ r.state = route.state /\ r.target = route.target
    BY <1>1, RegisterOK
  <2> HIDE DEF r
  <2>2. route' = r
    BY <1>2 DEF r
  <2> QED
    BY <2>1, <2>2
<1>4. Serving' = Serving
  BY Zenon, <1>3 DEF Serving
<1> QED
  BY Zenon, <1>2, <1>3, <1>4 DEF Mapped, Lifecycle!Next, Lifecycle!Hold

\* The release of a session, or its expiry, lets go of the route.
LEMMA MappedRelease ==
    ASSUME RouteOK(route), NEW m \in Mcp, FinishRelease(m) \/ ExpireMcp(m)
    PROVE  Mapped
<1>1. route' = release_mcp(route, m) /\ revoked' = revoked
  BY ZenonT(60) DEF FinishRelease, ExpireMcp, ReleaseReference, publication
<1>2. /\ route'.refs = route.refs \ {m}
      /\ route'.state = "Ready" <=> route.state = "Ready" /\ route.refs \ {m} # {}
      /\ route'.state \in {"Ready", "Draining"} => route'.target = route.target
  <2> DEFINE r == release_mcp(route, m)
  <2>1. /\ r.refs = route.refs \ {m}
        /\ r.state = "Ready" <=> route.state = "Ready" /\ route.refs \ {m} # {}
        /\ r.state \in {"Ready", "Draining"} => r.target = route.target
    BY ReleaseOK
  <2> HIDE DEF r
  <2>2. route' = r
    BY <1>1 DEF r
  <2> QED
    BY Zenon, <2>1, <2>2
<1>3. Serving' = IF route'.refs = {} THEN None ELSE Serving
  BY Zenon, <1>2 DEF Serving
<1> QED
  BY Zenon, <1>1, <1>2, <1>3 DEF Mapped, Lifecycle!Next, Lifecycle!Release

\* A publication takes over a route nobody serves, with a generation not revoked.
LEMMA MappedServe ==
    ASSUME TypeOK, RouteOK(route), RecordInv, NEW w \in Worker, PublishTarget(w)
    PROVE  Mapped
<1>1. revoked' = revoked /\ lock = w
  BY ZenonT(60) DEF PublishTarget
<1>2. CASE route' = route
  BY Zenon, <1>1, <1>2, MappedStop DEF Serving
<1>3. CASE route' # route
  <2>1. mark_worker_ready(route, permit[w], w) /\ route' = Ready(route, w)
    BY ZenonT(60), <1>3 DEF PublishTarget
  <2>2. route'.refs = route.refs /\ Serving' = w
    BY Zenon, <2>1, ReadyOK DEF Serving
  <2>3. route.refs # {} /\ (route.state = "Ready" => route.target = w)
    BY ZenonT(60), <2>1 DEF mark_worker_ready
  <2>4. w \notin revoked
    BY ZenonT(60), <1>1, RegistryAssumption DEF RecordInv
  <2>5. CASE route.state = "Ready"
    BY Zenon, <1>1, <2>2, <2>3, <2>5, MappedStop DEF Serving
  <2>6. CASE route.state # "Ready"
    <3>1. Serving = None
      BY ZenonT(60), <2>6 DEF Serving
    <3> QED
      BY Zenon, <1>1, <2>2, <2>3, <2>4, <3>1 DEF Mapped, Lifecycle!Next, Lifecycle!Serve
  <2> QED
    BY Zenon, <2>5, <2>6
<1> QED
  BY Zenon, <1>2, <1>3

\* A relaunch is not yet a service.
LEMMA MappedRelaunch ==
    ASSUME RouteOK(route), NEW m \in Mcp, NominateRelaunch(m)
    PROVE  Mapped
<1>1. revoked' = revoked
  BY Zenon DEF NominateRelaunch, publication
<1>2. CASE route' = route
  BY Zenon, <1>1, <1>2, MappedStop DEF Serving
<1>3. CASE route' # route
  <2>1. FreshActs # {} /\ route' = begin_relaunch(route, m, FreshAct)
    BY ZenonT(60), <1>3 DEF NominateRelaunch
  <2>2. FreshAct \in Act
    BY ZenonT(60), <2>1, FreshIn
  <2>3. route'.refs = route.refs /\ route'.state # "Ready"
    BY ZenonT(60), <1>3, <2>1, <2>2, RelaunchOK
  <2> QED
    BY Zenon, <1>1, <2>3, MappedStop DEF Serving
<1> QED
  BY Zenon, <1>2, <1>3

\* Every step of the broker is one of the lifecycle.
LEMMA MappedStep ==
    ASSUME BrokerInv, [Next]_vars
    PROVE  Mapped
<1>0. TypeOK /\ RouteOK(route) /\ RecordInv
  BY Zenon, InvRouteOK DEF BrokerInv
<1>1. ASSUME NEW m \in Mcp, ReportActivationFailed(m) PROVE Mapped
  BY ZenonT(60), <1>0, <1>1, MappedFailure DEF ReportActivationFailed, mark_activation_failed, publication
<1>2. ASSUME NEW w \in Worker, StageFails(w) \/ ProbeFails(w) PROVE Mapped
  <2>1. \/ route' \in {route, Failed(route)} /\ revoked' = revoked
        \/ route' = route /\ Revoke(w)
    BY ZenonT(60), <1>2 DEF StageFails, ProbeFails, FailActivation, mark_activation_failed, publication
  <2> QED
    BY Zenon, <1>0, <2>1, MappedFailure, MappedRevoke
<1>3. ASSUME NEW w \in Worker, FailRecovery(w) \/ PublishFails(w) PROVE Mapped
  <2>1. route' \in {route, Failed(route)} /\ revoked' = revoked
    BY ZenonT(60), <1>3 DEF FailRecovery, PublishFails, FailActivation, mark_activation_failed,
       mark_route_pass_through, publication
  <2> QED
    BY Zenon, <1>0, <2>1, MappedFailure
<1>4. ASSUME NEW w \in Worker, MarkFailed(w) \/ DrainFinish(w) PROVE Mapped
  <2>1. route' \in {route, Failed(route), Empty(route)} /\ revoked' = revoked
    BY ZenonT(60), <1>4 DEF MarkFailed, mark_worker_communication_failed, DrainFinish,
       finish_draining, publication
  <2> QED
    BY Zenon, <1>0, <2>1, MappedFailure
<1>5. ASSUME NEW w \in Worker, WorkerFailed(w) PROVE Mapped
  <2>1. route' = worker_failed(route, w) /\ revoked' = revoked
    BY ZenonT(60), <1>5 DEF WorkerFailed, publication
  <2>2. route' = route \/ (route'.refs = route.refs /\ route'.state # "Ready")
    BY ZenonT(60), <1>0, <2>1, WorkerFailedOK
  <2> QED
    BY Zenon, <2>1, <2>2, MappedStop DEF Serving
<1>6. ASSUME NEW a \in Act, ExpireActivation(a) PROVE Mapped
  BY ZenonT(60), <1>0, <1>6, MappedFailure DEF ExpireActivation, mark_activation_failed, publication
<1>7. CASE Restart
  <2>1. route'.refs = {} /\ route'.state # "Ready" /\ revoked' = revoked
    BY ZenonT(60), <1>7 DEF Restart, NewRoute
  <2> QED
    BY Zenon, <2>1 DEF Mapped, Lifecycle!Next, Lifecycle!Restart, Serving
<1>8. CASE ~RouteStep
  <2>1. route' = route
    BY Zenon, <1>8, RouteFrame
  <2>2. ASSUME NEW w \in Worker, PublishGeneration(w) PROVE revoked' = revoked
    BY Zenon, <2>2 DEF PublishGeneration
  <2>3. revoked' = revoked \/ \E w \in Worker : Revoke(w)
    BY Zenon, <1>0, <1>8, <2>2, RecordMoves DEF RouteStep, publication, Revokes
  <2> QED
    BY Zenon, <2>1, <2>3, MappedStop, MappedRevoke DEF Serving
<1> QED
  BY ZenonT(60), <1>0, <1>1, <1>2, <1>3, <1>4, <1>5, <1>6, <1>7, <1>8, MappedHold, MappedRelease,
     MappedServe, MappedRelaunch DEF RouteStep

\* The daemon implements the lifecycle it promises of a route: it is held and let go of
\* by registration and release, one worker gives way before another takes over, and a
\* revoked generation is never published again.
THEOREM BrokerImplementsLifecycle == Spec => ImplementsLifecycle
<1>1. Init => Lifecycle!Init
  BY DEF Init, MemoryInit, NewRoute, Lifecycle!Init, Serving
<1>2. BrokerInv /\ [Next]_vars => [Lifecycle!Next]_(Lifecycle!vars)
  BY MappedStep DEF Mapped
<1> QED
  BY <1>1, <1>2, BrokerInvariant, PTL DEF Spec, ImplementsLifecycle, Lifecycle!Spec
=============================================================================
