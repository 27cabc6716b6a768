# A TLA+ development of NeMo Relay

NeMo Relay is a runtime that agent frameworks embed. It keeps a stack of scopes
per thread of execution, runs middleware around LLM and tool calls, publishes
lifecycle events to subscribers and exporters, and hosts plugins that install
that middleware. Around the core crate there are plugins (adaptive, PII
redaction), language bindings and a command line program with a gateway and a
daemon.

This directory models the five parts of it where steps of several threads,
tasks or processes meet, checks them with TLC on small instances and proves
their safety properties with TLAPS for every size. `PROJECT.json` is the index:
the parts of the system, the runs, the source lines each definition models, the
hazards and the theorems.

## 1. The system and its modules

Paths are under `src/crates/`.

| Part | Module | State | Operations | What makes it hard |
| --- | --- | --- | --- | --- |
| Subscriber dispatcher (`core/src/api/runtime/subscriber_dispatcher.rs`) | `SubscriberDispatcher` | FIFO channel, permits and lineages, deferred flushes, buffers of nested and asynchronous publications | emit, register and complete a pending publication, reserve and finish an asynchronous one, flush, the dispatcher loop | messages between two owners, callbacks that emit, tasks that die, foreign threads, flushes inside callbacks |
| Plugin host (`core/src/plugin.rs`, `core/src/plugin/dynamic/`) | `PluginHost` | lifecycle executor, mutation lease, kind registry, active configuration, libraries and worker processes | initialize, roll back, close, drop, register and deregister a kind | failures at every step, cancelled callers, workers that cannot be stopped, retries |
| Scope stack (`core/src/api/runtime/scope_stack.rs`, `core/src/api/scope.rs`, `continuation_context.rs`) | `ScopeStack` | handles, scope-local registries, fresh agents, propagated parent and root | push, pop, register, consume and renew freshness, capture, import, isolate, bind | several locks per call, stacks shared by threads, forks, isolated copies |
| Daemon broker (`cli/src/daemon/broker/`) | `BrokerRegistry`, `Broker`, `RouteLifecycle` | the route of a user, launch grants, MCP and worker sessions, the durable record of generations | register, release, launch, register a worker, probe, publish, fail, recover, drain, revoke, restart | tables with a lock each, crashes between two writes, lost replies, late recoveries |
| Daemon worker (`cli/src/daemon/worker/runtime.rs`) | `WorkerRuntime` | three flags, a request counter, the tokens, a `Notify` | admit, release, probe, drain, recover, stop | flags read and written without a lock, a wakeup that may be lost |

How they meet: `push_scope`, `pop_scope` and the managed calls read the scope
stack and the registries, build an event, and hand it to the dispatcher with the
subscribers and sanitizers they collected. The dispatcher thread runs the
middleware of the event and then its subscribers, among them the exporters and
the adaptive plugin. Plugins install middleware and subscribers through the
plugin host. The daemon is a separate program: MCP processes register with its
broker, the broker tells one of them to launch a worker, and requests go to that
worker through the daemon's proxy. The worker's control connection is where
`Broker` and `WorkerRuntime` meet: `Broker` has the daemon's side of it, with a
worker that may do anything the protocol allows, and `WorkerRuntime` the inside
of the worker, with a daemon that may send any control message at any time.

A module with the suffix `Inv` holds the strengthened invariant, the suffixes
`Proofs`, `Ownership`, `Flush` and `Guarantees` mark the theorems, and the prefix
`MC` the instances for TLC.

### SubscriberDispatcher

The process has one dispatcher thread. `queue` is its mpsc channel, `stack` is
what the recursive `handle_message` still has to do, `delivering` the event in
`deliver_event` with its stage (transform, inject, sanitize, subscribe) and what
its subscribers would be shown (`view`), `nested` and `taskBuffer` are the
`PublicationBuffer`s, `active` and `pendingFlushes` the loop's own state. A
permit is named after the publication that owns it and a lineage after the one
that created it; `place` says where the message of a publication is.

Actions are the enqueues (`Emit`, `SubscriberEmit`, `NestedEmit`, `TaskEmit`, the
three stages of a publication from a foreign thread), the two calls of pending
publications, the end and the death of a task, the two flush calls, and one
action per step of the loop. Middleware that has no runtime, fails or panics is
an alternative of the action that enters or leaves its stage.

History variables record what a flush owes (`owed` is what the code waits for,
`promised` what the comment on `flush_subscribers` says), which flushes waited
when it was called (`ahead`), and to which channel position a publication
belongs (`turn`).

Left out: the hooks around `fork`, the death of the dispatcher thread, nested
publication contexts inside an asynchronous buffer, and barriers reserved by a
task. The contents of events are abstracted to what middleware did to them.

### PluginHost

A host is one activation attempt. Activations run one after another on the
lifecycle executor (`jobs`), close and drop on any thread, and the application
registers and deregisters kinds at any time. `phase` follows an activation
through load, init, rollback and the stages of a teardown (clear the
configuration, deregister kinds, stop and drop runtimes). Every callback that
may fail is a choice: a library or worker that does not load, a component that
fails after some of its callbacks were registered, a deregistration that fails,
a worker process that cannot be killed.

Left out: poisoned locks, several components of one kind, reports, configuration
layering, calls of the executor from inside itself, and the branch of
`initialize_plugins_exact_inner` that replaces a previous configuration, which
`LeaseExclusion` shows to be dead under the lease.

### ScopeStack

A stack is behind a `RwLock` and one call takes the lock several times; an
action is what a call does under one lock, and `call` holds what it has read so
far. `push_scope` reads the parent (`Push`), creates the handle (`CreateHandle`),
writes the stack, reads sanitizers and queues the start event; `pop_scope`
checks, reads sanitizers, takes its snapshot, removes (checking again) and
queues. `OwnStack`, `ForkStack` and `CopyStack` are the handles that
`create_scope_stack`, `create_scope_stack_from_propagation` and
`snapshot_scope_stack` return. The application is a parameter: `Home` and
`MayBind` say which threads use which stack, `Calls` and `Agents` what they call.

Left out: marks and metrics (no state), an application-supplied root, the check
for the nil uuid, the CLI sessions' direct `task_scope_push`, poisoned locks, and
the save and restore of thread bindings.

### BrokerRegistry, Broker and RouteLifecycle

`BrokerRegistry` has the operations of `broker/registry.rs` on one route. Each
runs under the registry's lock, so each is a function from the route before to
the route after. `Broker` has who calls them: the handlers of
`broker/server.rs`, the sessions, the activations (launch grants), the socket
hub with its gate per session, the publication of a worker's generation to
`active-worker-generations.json` under one mutex, the drain task, the restart
recovery window, and the MCP and worker processes as far as they drive it. A
step is what runs between two awaits or two locks. Faults are a crash of the
daemon, a lost connection, a lost reply or a failed write; `MaxFaults` bounds
their number.

`RouteLifecycle` is what the broker promises without how: a worker serves a
route only while some MCP session holds it, one gives way before another takes
over, and a retired generation never serves again, through restarts.
`ImplementsLifecycle` maps the route's references, its target while it is Ready
and the revoked generations to the three variables of that module.

Simplifications: one route; a worker has one generation and one target; an
activation id that nothing refers to may be used again (they are random in the
code); the expiry of an activation that maintenance or the next registration
notices is one action; an MCP process runs once and gives up only on an Empty
route; the directives waiting for a session are subsumed by the state of its
route; a replayed registration of a consumed grant is left out. Eviction of
routes at capacity, `--pass-through`, authentication and the encoding of control
messages are not modelled.

### WorkerRuntime

The tasks of one worker process: the request handlers (`admit`, the release of a
request), the readiness probes, the control task with its recoveries, the signal
task and `serve`. A step is one access to an atomic, the token lock or the
`Notify`. Atomics are taken to be sequentially consistent, and the two stores of
`request_exit` are one step. TLS, the proxying itself and the contents of control
messages are left out.

## 2. Runs

| Run | Instance | Properties | Seconds |
| --- | --- | --- | --- |
| `dispatcher_flush` | 2 events (one with transform and sanitizers), a task, a managed call, 2 flushes | `TypeOK`, `FailClosed`, `FlushCovers`, `PermitHeld`, `ReservedOrder`, `FlushOrder` | 117 |
| `dispatcher_liveness` | an event with injectors, a task, a managed call, 2 flushes | `FlushInv`, `QueuedFlushReturns`, `FlushReturns`, `PublicationsHandled` | 25 |
| `plugin_host` | 2 hosts; a worker with a native kind, or a builtin | `TypeOK`, `RuntimeOutlives`, `LeaseExclusion`, `FailedLeavesNothing`, `CallbacksTracked`, `HostInv`, `KindsOfOthersKept`, `ActivationsAnswered` | 120 |
| `scope_shared` | 2 threads on one stack, 2 scopes, a name, LLM starts and compactions | `TypeOK`, `OpenScopesOwn`, `EndCarriesMiddleware`, `EventsPaired`, `FreshOnce`, `StackDiscipline` | 84 |
| `scope_forks` | a thread, 2 scopes, a managed call, 2 forks and a copy | `ParentOnTop`, `SameRoot`, `ForkKeepsRoot` | 55 |
| `broker` | an MCP with 3 faults, or 2 with one; 2 workers, a request | `TypeOK`, `OwnerHoldsRoute`, `ReadyHasSession`, `NoLaunchInWindow`, `OneWorkerPerGrant`, `ImplementsLifecycle` | 88 |
| `broker_live` | an MCP with a fault, or 2 without; 2 workers | `TransitionsEnd` | 156 |
| `worker_runtime` | 2 requests, 2 probes, a recovery | `TypeOK`, `InFlightExact`, `NothingAfterIdle`, `OldTokenNeverReopens`, `DeadlineKept`, `DrainEnds` | 124 |

What each property says is in the comment above its definition; what can go
wrong in the code without it is under `hazards`.

Four runs end in a violation. Each states a sentence of the documentation or of
a test, and TLC finds a behaviour of the code that contradicts it; the sentences
are quoted under `findings`.

| Run | Sentence | The code |
| --- | --- | --- |
| `dispatcher_transitive_doc` | a flush waits for "publications emitted transitively by those callbacks" | a flush that was deferred before a managed call ended does not wait for what the callbacks of the terminal event emit |
| `dispatcher_overtake_doc` | "a ready later flush must not overtake an earlier pending flush" | a lineage that had drained is no longer active; a foreign thread with a captured buffer can still publish on it, which holds up the flush that waits for it and not the next one |
| `broker_waiting_doc` | "A new MCP must wait for that termination, then begins a fresh activation." | the drain task drops the result that names the MCP to be asked, so it waits on an Empty route until it gives up |
| `worker_accepted_doc` | "Already accepted requests have up to two minutes to finish" | `begin_drain` announces the drain before it closes admission; the waiter can stop the worker with a request admitted in between |

The second one came out of a proof attempt. `FlushOrder` first said that
acknowledged flushes have no waiting one before them, except for queued flushes
and managed calls. TLC agreed on two events. Its induction needs that a lineage
which a deferred flush waits for is active, and `complete_ready_flushes` retires
lineages that look drained; three events show the flush that overtakes. `FlushOrder`
now says exactly which flush may be overtaken and by whom, and is proved.

**Bounds.** The named bounds are the sizes of the constant sets, `MaxCallbacks`,
`MaxFaults`, `MaxAttempts`, and in the MC modules: `TwoFlushesAlone` and
`TwoFlushesWithOne` (what happens beside a second flush call),
`FullFlushesOneForeign` (the overtaking instance) and `MCInit` (faults against
MCP sessions). They are chosen so that the cases behind the hazards happen: two
events are enough for one to be emitted by a callback of the other and for one to
be buffered while the other is in the channel; two flushes for one to overtake
the other; two hosts for one to meet what the other left; two threads and two
scopes for racing pushes and pops; two forks for a fork of a fork; two workers
for a generation that is replaced and comes back; three faults for a crash in the
middle of the recovery from another; two requests and two probes for one to pass
a flag between the other's two looks at it. The theorems hold without bounds.

**Symmetry.** Uuids, and the threads of one shared stack, by `SYMMETRY`, in runs
without liveness. Flush calls and hosts by letting the first of two
interchangeable ones act first (`FlushesInOrder`, `HostsInOrder`), which is also
sound for liveness.

**Deadlock.** The dispatcher, the scope stack, the broker and the worker may stop:
their sets of events, uuids and processes are finite, an application may stop
calling and a process ends. Their configurations say so. The plugin host is
checked for deadlock.

**Fairness.**
- Dispatcher: `ThreadFairness` is weak fairness of the dispatcher thread, of tasks
  (they end or die) and of a foreign thread that holds a permit and is about to
  push. All are straight-line code on threads of their own; callbacks are assumed
  to return. `FlushReturns` and `PublicationsHandled` have the hypothesis `CallsEnd`
  (managed calls end), which `flush_subscribers` needs and `QueuedFlushReturns`
  does without.
- Plugin host: the lifecycle executor and a running teardown proceed. Nothing is
  assumed of the application, and a failing step may fail for ever: a teardown is
  then given up, not completed.
- Broker: the daemon's spawned tasks run and its deadlines pass
  (`DaemonFairness`). `broker_live` asks nothing of the MCP and worker processes.
  `broker_waiting_doc` adds that an MCP reads and acts on its directives
  (`McpFairness`), without which its failure would say nothing.
- Worker: tasks are polled and request handlers end. The drain deadline may never
  come, so `DrainEnds` does not rest on it.

## 3. Proofs

| Module | Theorems | Assumptions on the constants |
| --- | --- | --- |
| `SubscriberDispatcherProofs` | `TypeCorrect`, `FailsClosed`, `FlushesOrdered` | `DisjointIds`, `EventShapes`: the id sets are disjoint |
| `SubscriberDispatcherOwnership` | `OwnershipInvariant`, `PermitsHeld` | the same |
| `SubscriberDispatcherFlush` | the steps of `FlushInvariant`, as lemmas | the same |
| `SubscriberDispatcherGuarantees` | `PositionsInOrder`, `FlushInvariant`, `FlushesCover` | the same |
| `PluginHostProofs` | `HostTypeCorrect`, `HostInvariant`, `RuntimesOutlive`, `LeaseExclusive`, `CallbacksKnown`, `NothingLeftBehind`, `OthersKindsKept` | `HostAssumption`, `KindAssumption`, `ConfigAssumption` |
| `ScopeStackProofs` | `TypeCorrect`, `ScopesOwn`, `Discipline`, `EndCarries`; without forks and copies `EventsPair`, `FreshHistoryOnce`; with one task at a time on each stack `ParentsOnTop`, `RootsAgree`, `ForksKeepRoot` | `StackAssumption`, `UuidAssumption` |
| `BrokerProofs` | `BrokerInvariant`, `BrokerTypeCorrect`, `OwnersHoldRoutes`, `ReadyRoutesHaveSessions`, `NoLaunchesInWindow`, `GrantsAreSingle`, `BrokerImplementsLifecycle` | `RegistryAssumption`: session ids are ordered and every set of them has a first (the keys of a `BTreeMap`); `FaultAssumption` |
| `WorkerRuntimeProofs` | `RuntimeTypeCorrect`, `InFlightIsExact`, `NothingAdmittedAfterIdle`, `OldTokensNeverReopen`, `DeadlineNeverExtended` | `RuntimeAssumption`: finitely many requests, a bound on recoveries |

Every assumption is evaluated by TLC on the runs of its module.

**Dispatcher: permits.** `PermitHeld` says that whatever is on its way to a
subscriber cannot look drained. It is not inductive: that a message in the
channel has a permit needs that no publication is in two places, that buffers are
empty when no callback runs, that a task's publications are in its own buffer
until the barrier is released, and that a pending handle is completed once. Those
are `OwnedQueue`, `OwnedStack`, `OwnedNested`, `OwnedTask`, `OwnedDelivering`,
`PermitInv`, `LineageInv`, `TaskInv` and `PendingInv` of `SubscriberDispatcherInv`,
together `OwnershipInv`. `SubscriberDispatcherProofs` has the lemmas on sequences
of messages and the types, `SubscriberDispatcherOwnership` the moves of a message
from one owner to the next and the steps that concern permits and lineages.

**Dispatcher: flushes.** `FlushCovers` looks at a flush once it is acknowledged; the
invariant says, for each thing it owes that is not handled, why it will not be
missed. For a flush still in the channel (`SafeQueued`): it is already in the
dispatcher's hands, it stands before the flush in the channel or in the buffer of a
task that does, or its lineage is active and will be waited for. For a deferred
flush (`SafeDeferred`): its lineage is one the flush waits for, or it is handled
before the release of a task's barrier, or before the completion of a pending
publication, whose lineage the flush waits for. `AttachedBefore` covers a foreign
thread that had its permit when the flush was called and has not pushed yet.
`HistoryInv` ties what a flush owes to the permits. With `OwnershipInv` they are
`FlushInv`, which is inductive. In `SubscriberDispatcherFlush` a step either keeps
the reason of every waiting flush, or adds a publication that a flush does not owe
or has a reason of its own for; the dispatcher's step from the channel to the
deferred flushes turns the one account into the other. `FlushesCover` follows: a
flush is acknowledged when no permit is left on a lineage it waits for.

**Dispatcher: middleware.** `FailClosed` is about outcomes; `ShownInv` adds what the
delivery in progress may show at each stage.

**Dispatcher: order.** `FlushOrder` needs `FlushTurnInv`: a flush call that waits is
in the channel or deferred, once, and those called before it that still wait are
deferred before it or stand before it in the channel. Completing a prefix keeps
that and overtakes nothing. A flush that is acknowledged at the head of the
channel leaves a deferred one behind only if the first flush that is not ready
waits for a lineage that is not active or that this flush does not wait for.
`ReservedOrder` needs `TurnInv`, on top of `OwnershipInv`: what the dispatcher has in
hand belongs to one channel position, nothing in the channel to an earlier one,
the channel is in the order of positions, and the events in a task's buffer have
the task's position.

**Plugin host.** `HostInv` says that the lease is owned exactly while a host is
under way, that a configuration exists only under the lease, that registrations
in hand belong to a rollback or a teardown, that every registered kind and every
installed callback is tracked by the host that loaded its plugin, and that a
host at rest holds nothing. It is inductive with `TypeOK`; the properties follow
from it without another induction.

**Scope stack.** `OpenScopesOwn` needs that a uuid is nowhere before its handle is
pushed, even when another thread captured contexts or took copies meanwhile:
`MintedInv` (each thread's unpushed uuid is its own) and `SeenInv` (whatever a
stack, a context or a call names was pushed). `EndCarriesMiddleware` needs
`CarryInv`: what a pop owes is in the call's hands, or still on the stack, or the
scope was closed by another thread and the pop will fail its second check. These
four theorems have no hypothesis: threads, forks and copies are arbitrary.

**Scope stack: events and freshness.** `EventsPaired` and `FreshOnce` are about stacks
without forks and copies (`ForkStack = {}`, `CopyStack = {}`), shared by any number of
threads. The hypothesis is what the code needs: a fork opens its parent scope a
second time and a copy opens all of them, and both can be closed there once more; a
copy also has the freshness of the original. `StartInv` says that one call opens a
scope and queues its start event last, `EndInv` that the end event is queued after
the scope left the stack, `SingleInv` that a scope is on one stack, `PairInv` joins
them, and `FreshInv` says that an agent that is fresh has not been charged.

**Scope stack: traces.** `ParentOnTop`, `SameRoot` and `ForkKeepsRoot` are about forks and
copies of any depth, with one task at a time on each stack (`Unshared`: no two
threads may bind one stack): on a shared stack the parent that a thread has read
may be closed before it creates its handle. `TopInv` says that what a call has read
of its stack under one lock is still so under the next. `TraceInv` says that the
start event of each scope on a stack carried the root `EventRoot` gave when that
scope was on top, and that a root that has a start event is its own root. For
a fork this needs what is at the bottom of the stack it was captured in
(`BottomInv`), and for a start event that no other stack, context or closing call
names its scope yet (`UnqueuedInv`).

**Broker.** `BrokerInv` relates the tables: a grant that can still be consumed has no
worker staged for it (`GrantInv`); one thing at a time is done to a worker, and the
publication mutex is held exactly by the worker whose gate publishes (`GateInv`); a
worker in its first publication was never the target of the route nor the subject
of a revocation (`FirstInv`); the durable record never names a revoked generation,
nor would undoing a publication in progress (`RecordInv`); a Ready route has a
published session or its failure is under way, and a publication whose session is
gone is no longer current (`SessionInv`). Step by step it gives
`BrokerImplementsLifecycle`: initial states map to initial states, registration and
release to `Hold` and `Release`, a publication to `Serve` of a generation that is not
retired, the completed revocation to `Retire`, a crash to `Restart`, everything else
to `Stop` or a stutter.

**Worker.** `RuntimeInv` has the counter as the cardinality of the requests that are
counted, `closed` implying that admission is shut, and, for the tokens, that up to
readiness there is one registration with one probe, that after it no probe of the
first registration is on its way to open admission, and that admission open
without control was opened by the probe of a recovery.

**Checked by TLC and not proved.**
- The liveness properties `FlushReturns`, `QueuedFlushReturns`, `PublicationsHandled`,
  `ActivationsAnswered`, `TransitionsEnd`, `DrainEnds`: they need fairness, which is out
  of the prover's reach.

Every safety property of the passing runs has a theorem. The proofs use no
recursive definition.

## 4. Mutants

Each property of a passing run has an operator that changes one definition the
way a plausible bug would (a permit dropped early, a check left out, a lock
released before the write). They are in the module they mutate, in front of the
definition they replace, with a comment that says what the bug is; `PROJECT.json`
pairs them. Under the mutated definition the run reports the property violated.

## 5. Not modelled

Everything marked `not_modelled` in `PROJECT.json`, with the reason. Most of it is
data rather than control (codecs, JSON, translation to telemetry formats,
redaction, configuration, argument parsing, bindings), where tests over inputs say
more than a model. The parts with control of their own that are left out:

- managed LLM and tool calls and LLM streams (`core/src/api/llm.rs`, `tool.rs`,
  `core/src/stream.rs`): one end event on every path, cancellation between start and
  end. Their publications and the freshness they consume are in
  `SubscriberDispatcher` and `ScopeStack`;
- the claim of the process by one of several loaded runtimes
  (`core/src/shared_runtime.rs`, around lines 180 and 206), a check then act;
- the adaptive runtime (`adaptive/src/drain.rs:150`, `runtime/features.rs:268`) and its
  response cache;
- concurrent launches of a gateway (`cli/src/bootstrap/mod.rs:262`), sessions taken
  out of the table across awaits (`cli/src/sessions/idle.rs:163`), and the
  interrupted replacement of an installation (`cli/src/installation/generation.rs:610`).

Observations made while modelling that no run states: after a failed recovery the
broker passes requests through while the worker process is left running, and an
operator has to end it; an MCP process exits when its report of a failed launch is
rejected; a readiness handler that stalls between its check and its store can
reopen admission after a drain has closed it.

## Running

    tlc -config DispatcherFlush.cfg MCSubscriberDispatcher
    tlapm SubscriberDispatcherProofs.tla

The module and configuration of each run are in `PROJECT.json`. The seconds in
section 2 are for two workers. A proof module takes from two to twenty minutes
alone, and about a fifth longer beside another one on four cores.
