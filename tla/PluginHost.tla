------------------------------ MODULE PluginHost ------------------------------
(***************************************************************************)
(* The owned plugin host of crates/core/src/plugin.rs and plugin/dynamic:  *)
(* the process-wide lease, loading dynamic runtimes, registering plugin    *)
(* kinds, activating components, rolling a failed activation back, and     *)
(* closing or dropping the handle.                                         *)
(*                                                                         *)
(* A host is one activation attempt.  Activations run one after another on *)
(* the lifecycle executor; handles are closed on any thread, and the       *)
(* application registers and deregisters plugin kinds at any time.         *)
(***************************************************************************)
EXTENDS Integers, Sequences, Functions

CONSTANTS
    Host,           \* activation attempts (PluginMutationOwner::Host ids)
    StaticKind,     \* kinds of builtin plugins
    NativeKind,     \* kinds of rust_dynamic plugins (libraries)
    WorkerKind,     \* kinds of worker plugins (processes)
    Configs,        \* component lists an application may activate
    MaxCallbacks,   \* bound: callbacks one component registers
    None

Kind == StaticKind \cup NativeKind \cup WorkerKind
DynamicKind == NativeKind \cup WorkerKind

Builtin == "builtin"
User == "user"

ASSUME HostAssumption ==
    /\ None \notin Host /\ User \notin Host /\ Builtin \notin Host
    /\ None # User /\ None # Builtin

ASSUME KindAssumption ==
    /\ StaticKind \cap DynamicKind = {}
    /\ NativeKind \cap WorkerKind = {}

\* The dynamic plugins of a configuration in the order they are loaded.
OfType(s, T) == SelectSeq(s, LAMBDA k : k \in T)
LoadOrder(c) == OfType(c, NativeKind) \o OfType(c, WorkerKind)

ASSUME ConfigAssumption ==
    /\ Configs \subseteq Seq(Kind)
    /\ \A c \in Configs : LoadOrder(c) \in Seq(Kind)
    /\ MaxCallbacks \in Nat

\* A callback a component installed: by which activation, for which kind, by
\* whose plugin (the adapter of a host, or a plugin of the application).
Callback ==
    [host : Host, kind : Kind, by : Host \cup {User, Builtin}, n : 1 .. MaxCallbacks]

Phases == {"idle", "queued", "load", "init", "rollback", "drop", "active",
           "clear", "kinds", "closed", "failed", "retained"}

VARIABLES
    jobs,        \* PLUGIN_MUTATION_EXECUTOR: the queue of activations
    waiting,     \* hosts whose caller still waits for the activation
    owner,       \* PLUGIN_MUTATION_OWNER
    handlers,    \* PLUGIN_HANDLERS: who registered the plugin of each kind
    configured,  \* ACTIVE_PLUGIN_CONFIGURATION is Some
    config,      \* its registrations, the newest first
    installed,   \* callbacks in the runtime's registries
    phase,       \* where each activation or teardown is
    spec,        \* the components of each host
    todo,        \* components it has yet to load or to initialize
    regs,        \* registrations of an activation or teardown in progress, newest first
    kept,        \* registrations it could not undo
    nativeKinds, \* NativePluginActivation.plugin_registrations, newest first
    workerKinds, \* WorkerPluginActivation.plugin_registrations, newest first
    held,        \* kinds whose runtime the activation keeps (or has leaked)
    stopped,     \* worker kinds whose process was stopped
    dropping     \* hosts whose handle is being dropped, not closed

leaseVars == <<jobs, waiting, owner>>
localVars == <<todo, regs, kept, nativeKinds, workerKinds>>
runtimeVars == <<held, stopped>>
configVars == <<configured, config>>
vars == <<leaseVars, handlers, configVars, installed, phase, spec, localVars, runtimeVars, dropping>>

LeaseTypes ==
    /\ jobs \in Seq(Host) /\ waiting \subseteq Host /\ owner \in Host \cup {None}
    /\ dropping \subseteq Host

TableTypes ==
    /\ handlers \in [Kind -> Host \cup {User, Builtin, None}]
    /\ configured \in BOOLEAN /\ config \in Seq(Callback)
    /\ installed \subseteq Callback

PlanTypes ==
    /\ phase \in [Host -> Phases]
    /\ spec \in [Host -> Configs \cup {<<>>}]
    /\ \A h \in Host : phase[h] # "idle" => spec[h] \in Configs
    /\ todo \in [Host -> Seq(Kind)]

RegistrationTypes ==
    /\ regs \in [Host -> Seq(Callback)] /\ kept \in [Host -> Seq(Callback)]

RuntimeTypes ==
    /\ nativeKinds \in [Host -> Seq(NativeKind)] /\ workerKinds \in [Host -> Seq(WorkerKind)]
    /\ held \in [Host -> SUBSET Kind] /\ stopped \in [Host -> SUBSET Kind]

TypeOK == LeaseTypes /\ TableTypes /\ PlanTypes /\ RegistrationTypes /\ RuntimeTypes

Init ==
    /\ jobs = <<>> /\ waiting = {} /\ owner = None
    /\ handlers = [k \in Kind |-> None]
    /\ configured = FALSE /\ config = <<>>
    /\ installed = {}
    /\ phase = [h \in Host |-> "idle"]
    /\ spec = [h \in Host |-> <<>>]
    /\ todo = [h \in Host |-> <<>>]
    /\ regs = [h \in Host |-> <<>>]
    /\ kept = [h \in Host |-> <<>>]
    /\ nativeKinds = [h \in Host |-> <<>>]
    /\ workerKinds = [h \in Host |-> <<>>]
    /\ held = [h \in Host |-> {}]
    /\ stopped = [h \in Host |-> {}]
    /\ dropping = {}

GoTo(h, p) == phase' = [phase EXCEPT ![h] = p]

\* The job of h is done: the executor goes on to the next.
EndJob(h) == jobs' = IF jobs # <<>> /\ Head(jobs) = h THEN Tail(jobs) ELSE jobs

\* ensure_builtin_plugins_registered: restores a removed builtin, and fails
\* when the application has taken its kind.
BuiltinsOk == \A k \in StaticKind : handlers[k] \in {Builtin, None}
Restored(S) == [k \in Kind |-> IF k \in S /\ handlers[k] = None THEN Builtin ELSE handlers[k]]
RestoreAll == BuiltinsOk /\ handlers' = Restored(StaticKind)
RestoreSome == \E S \in SUBSET StaticKind : handlers' = Restored(S)

-------------------------------------------------------------------------------
(* The application *)

\* initialize: queue the activation of c on the lifecycle executor.
Submit(h, c) ==
    /\ phase[h] = "idle"
    /\ jobs' = Append(jobs, h)
    /\ waiting' = waiting \cup {h}
    /\ spec' = [spec EXCEPT ![h] = c]
    /\ GoTo(h, "queued")
    /\ UNCHANGED <<owner, handlers, configVars, installed, localVars, runtimeVars, dropping>>

\* The caller's future is dropped: nobody waits for the result.
Cancel(h) ==
    /\ h \in waiting
    /\ waiting' = waiting \ {h}
    /\ UNCHANGED <<jobs, owner, handlers, configVars, installed, phase, spec, localVars,
                   runtimeVars, dropping>>

\* register_plugin
UserRegister(k) ==
    /\ handlers[k] = None
    /\ handlers' = [handlers EXCEPT ![k] = User]
    /\ UNCHANGED <<leaseVars, configVars, installed, phase, spec, localVars, runtimeVars, dropping>>

\* deregister_plugin: by kind, whoever registered it.
UserDeregister(k) ==
    /\ handlers[k] # None
    /\ handlers' = [handlers EXCEPT ![k] = None]
    /\ UNCHANGED <<leaseVars, configVars, installed, phase, spec, localVars, runtimeVars, dropping>>

-------------------------------------------------------------------------------
(* Activation, on the executor *)

Running(h, p) == jobs # <<>> /\ Head(jobs) = h /\ phase[h] = p

\* Mutant: the executor is not told that the job is done.
RefuseStuck(h) ==
    /\ GoTo(h, "failed")
    /\ waiting' = waiting \ {h}
    /\ UNCHANGED <<jobs, owner, configVars, installed, spec, localVars, runtimeVars, dropping>>

\* The activation ends with an error and nothing to undo.
Refuse(h) ==
    /\ GoTo(h, "failed")
    /\ EndJob(h)
    /\ waiting' = waiting \ {h}
    /\ UNCHANGED <<owner, configVars, installed, spec, localVars, runtimeVars, dropping>>

\* Mutant: the lease is taken whoever holds it.
AcquireUnchecked(h) ==
    /\ Running(h, "queued")
    /\ owner' = h
    /\ RestoreAll
    /\ todo' = [todo EXCEPT ![h] = LoadOrder(spec[h])]
    /\ GoTo(h, "load")
    /\ UNCHANGED <<jobs, waiting, configVars, installed, spec, regs, kept, nativeKinds, workerKinds,
                   runtimeVars, dropping>>

\* acquire_plugin_host_lease, then the builtin kinds.
Acquire(h) ==
    /\ Running(h, "queued")
    /\ owner = None /\ ~configured
    /\ owner' = h
    /\ RestoreAll
    /\ todo' = [todo EXCEPT ![h] = LoadOrder(spec[h])]
    /\ GoTo(h, "load")
    /\ UNCHANGED <<jobs, waiting, configVars, installed, spec, regs, kept, nativeKinds, workerKinds,
                   runtimeVars, dropping>>

\* Another host owns the lease.
LeaseTaken(h) ==
    /\ Running(h, "queued")
    /\ owner # None \/ configured
    /\ Refuse(h)
    /\ UNCHANGED handlers

\* The application has taken a builtin kind: the lease is dropped again.
BuiltinTaken(h) ==
    /\ Running(h, "queued")
    /\ owner = None /\ ~configured /\ ~BuiltinsOk
    /\ RestoreSome
    /\ Refuse(h)

\* load_native_plugins, load_worker_plugins: the next runtime is loaded and
\* its kind registered.
LoadPlugin(h) ==
    /\ Running(h, "load") /\ todo[h] # <<>>
    /\ LET k == Head(todo[h]) IN
       /\ handlers[k] = None
       /\ handlers' = [handlers EXCEPT ![k] = h]
       /\ held' = [held EXCEPT ![h] = @ \cup {k}]
       /\ \/ /\ k \in NativeKind
             /\ nativeKinds' = [nativeKinds EXCEPT ![h] = <<k>> \o @]
             /\ UNCHANGED workerKinds
          \/ /\ k \in WorkerKind
             /\ workerKinds' = [workerKinds EXCEPT ![h] = <<k>> \o @]
             /\ UNCHANGED nativeKinds
    /\ todo' = [todo EXCEPT ![h] = Tail(@)]
    /\ UNCHANGED <<leaseVars, configVars, installed, phase, spec, regs, kept, stopped, dropping>>

\* Mutant: what was loaded so far is forgotten.
LoadFailsForgets(h) ==
    /\ Running(h, "load") /\ todo[h] # <<>>
    /\ Refuse(h)
    /\ UNCHANGED handlers

\* The runtime does not load, or its kind is taken: what was loaded is dropped.
LoadFails(h) ==
    /\ Running(h, "load") /\ todo[h] # <<>>
    /\ GoTo(h, "drop")
    /\ UNCHANGED <<leaseVars, handlers, configVars, installed, spec, localVars, runtimeVars, dropping>>

\* verify_plugin_host_owner and validation, then the components in order.
StartInit(h) ==
    /\ Running(h, "load") /\ todo[h] = <<>>
    /\ owner = h
    /\ RestoreAll
    /\ todo' = [todo EXCEPT ![h] = spec[h]]
    /\ GoTo(h, "init")
    /\ UNCHANGED <<leaseVars, configVars, installed, spec, regs, kept, nativeKinds, workerKinds,
                   runtimeVars, dropping>>

\* The configuration does not validate, a builtin kind that is taken included.
Invalid(h) ==
    /\ Running(h, "load") /\ todo[h] = <<>>
    /\ RestoreSome
    /\ GoTo(h, "drop")
    /\ UNCHANGED <<leaseVars, configVars, installed, spec, localVars, runtimeVars, dropping>>

\* Mutant: callbacks are counted from two.
RegisteredOffByOne(h, k) ==
    { [i \in 1 .. n |-> [host |-> h, kind |-> k, by |-> handlers[k], n |-> n + 2 - i]] :
        n \in 0 .. MaxCallbacks }

\* What the plugin of kind k may register when h asks it, newest first.  A
\* name that is already registered is refused.
Registered(h, k) ==
    { [i \in 1 .. n |-> [host |-> h, kind |-> k, by |-> handlers[k], n |-> n + 1 - i]] :
        n \in {m \in 0 .. MaxCallbacks : \A c \in installed : c.kind = k => c.n > m} }

\* initialize_plugin_components: the next component registers its callbacks.
InitComponent(h) ==
    /\ Running(h, "init") /\ todo[h] # <<>>
    /\ handlers[Head(todo[h])] # None
    /\ \E new \in Registered(h, Head(todo[h])) :
          /\ regs' = [regs EXCEPT ![h] = new \o @]
          /\ installed' = installed \cup Range(new)
    /\ todo' = [todo EXCEPT ![h] = Tail(@)]
    /\ UNCHANGED <<leaseVars, handlers, configVars, phase, spec, kept, nativeKinds, workerKinds,
                   runtimeVars, dropping>>

\* Its plugin is gone, or it fails or panics after registering some callbacks:
\* the pending registrations are dropped.
ComponentFails(h) ==
    /\ Running(h, "init") /\ todo[h] # <<>>
    /\ \E new \in {<<>>} \cup (IF handlers[Head(todo[h])] = None THEN {}
                               ELSE Registered(h, Head(todo[h]))) :
          /\ regs' = [regs EXCEPT ![h] = new \o @]
          /\ installed' = installed \cup Range(new)
    /\ GoTo(h, "rollback")
    /\ UNCHANGED <<leaseVars, handlers, configVars, spec, todo, kept, nativeKinds, workerKinds,
                   runtimeVars, dropping>>

\* store_active_plugin_configuration; the handle goes to the caller, or is
\* dropped on the executor when the caller is gone.
Activated(h) ==
    /\ Running(h, "init") /\ todo[h] = <<>>
    /\ configured' = TRUE
    /\ config' = regs[h]
    /\ regs' = [regs EXCEPT ![h] = <<>>]
    /\ GoTo(h, "active")
    /\ \/ h \in waiting /\ EndJob(h) /\ UNCHANGED dropping
       \/ h \notin waiting /\ dropping' = dropping \cup {h} /\ UNCHANGED jobs
    /\ waiting' = waiting \ {h}
    /\ UNCHANGED <<owner, handlers, installed, spec, todo, kept, nativeKinds, workerKinds,
                   runtimeVars>>

-------------------------------------------------------------------------------
(* Undoing registrations, and dropping what a failed activation loaded *)

\* rollback_registrations_checked: the newest registration is removed (with or
\* without a delivery error), or it cannot be removed and is kept.
Deregister(h) ==
    /\ phase[h] \in {"rollback", "clear"} /\ regs[h] # <<>>
    /\ regs' = [regs EXCEPT ![h] = Tail(@)]
    /\ \/ /\ installed' = installed \ {Head(regs[h])}
          /\ UNCHANGED kept
       \/ /\ kept' = [kept EXCEPT ![h] = Append(@, Head(regs[h]))]
          /\ UNCHANGED installed
    /\ UNCHANGED <<leaseVars, handlers, configVars, phase, spec, todo, nativeKinds, workerKinds,
                   runtimeVars, dropping>>

\* A clean rollback drops the runtimes; an incomplete one leaks them and the
\* lease, because callbacks may remain registered.
RolledBack(h) ==
    /\ phase[h] = "rollback" /\ regs[h] = <<>>
    /\ kept' = [kept EXCEPT ![h] = <<>>]
    /\ \/ /\ kept[h] = <<>>
          /\ GoTo(h, "drop")
          /\ UNCHANGED <<jobs, waiting>>
       \/ /\ kept[h] # <<>>
          /\ GoTo(h, "retained")
          /\ EndJob(h) /\ waiting' = waiting \ {h}
    /\ UNCHANGED <<owner, handlers, configVars, installed, spec, todo, regs, nativeKinds,
                   workerKinds, runtimeVars, dropping>>

\* Mutant: by kind, whoever registered it.
WithoutAnyKind(h, k) == [handlers EXCEPT ![k] = None]

\* deregister_plugin_registration_checked: only the registration of h itself.
WithoutKind(h, k) == [handlers EXCEPT ![k] = IF @ = h THEN None ELSE @]

\* Drop of WorkerPluginActivation: its kinds, the newest first.
DropWorkerKind(h) ==
    /\ phase[h] = "drop" /\ workerKinds[h] # <<>>
    /\ handlers' = WithoutKind(h, Head(workerKinds[h]))
    /\ workerKinds' = [workerKinds EXCEPT ![h] = Tail(@)]
    /\ UNCHANGED <<leaseVars, configVars, installed, phase, spec, todo, regs, kept, nativeKinds,
                   runtimeVars, dropping>>

\* Drop of WorkerPluginInstance: the process is stopped.
DropWorkers(h) ==
    /\ phase[h] = "drop" /\ workerKinds[h] = <<>> /\ held[h] \cap WorkerKind # {}
    /\ held' = [held EXCEPT ![h] = @ \ WorkerKind]
    /\ stopped' = [stopped EXCEPT ![h] = @ \cup (held[h] \cap WorkerKind)]
    /\ UNCHANGED <<leaseVars, handlers, configVars, installed, phase, spec, localVars, dropping>>

\* Drop of NativePluginActivation: its kinds; then its libraries, and the lease.
DropNativeKind(h) ==
    /\ phase[h] = "drop" /\ workerKinds[h] = <<>> /\ held[h] \cap WorkerKind = {}
    /\ nativeKinds[h] # <<>>
    /\ handlers' = WithoutKind(h, Head(nativeKinds[h]))
    /\ nativeKinds' = [nativeKinds EXCEPT ![h] = Tail(@)]
    /\ UNCHANGED <<leaseVars, configVars, installed, phase, spec, todo, regs, kept, workerKinds,
                   runtimeVars, dropping>>

\* Drop of PluginHostLease
ReleaseLease(h) == owner' = IF owner = h THEN None ELSE owner

DropLease(h) ==
    /\ phase[h] = "drop" /\ workerKinds[h] = <<>> /\ held[h] \cap WorkerKind = {}
    /\ nativeKinds[h] = <<>>
    /\ held' = [held EXCEPT ![h] = {}]
    /\ ReleaseLease(h)
    /\ GoTo(h, "failed")
    /\ EndJob(h) /\ waiting' = waiting \ {h}
    /\ UNCHANGED <<handlers, configVars, installed, spec, localVars, stopped, dropping>>

-------------------------------------------------------------------------------
(* Closing and dropping the handle, on any thread *)

\* clear_plugin_configuration_inner, up to the first unlock: the registrations
\* are taken out of the active configuration, which stays in place.
ClearConfiguration(h) ==
    /\ phase[h] = "active"
    /\ owner = h
    /\ regs' = [regs EXCEPT ![h] = config]
    /\ config' = <<>>
    /\ GoTo(h, "clear")
    /\ UNCHANGED <<leaseVars, handlers, configured, installed, spec, todo, kept, nativeKinds,
                   workerKinds, runtimeVars>>

\* PluginHostActivation::close
Close(h) ==
    /\ h \notin dropping
    /\ ClearConfiguration(h)
    /\ UNCHANGED dropping

\* Drop of PluginHostActivation
DropHandle(h) ==
    /\ ClearConfiguration(h)
    /\ dropping' = dropping \cup {h}

\* A teardown that cannot finish keeps the handle for a retry; a dropped handle
\* leaks its runtimes and the lease.
Incomplete(h) ==
    /\ GoTo(h, IF h \in dropping THEN "retained" ELSE "active")
    /\ IF h \in dropping THEN EndJob(h) ELSE UNCHANGED jobs

\* Mutant: the registrations that could not be removed are not put back.
ClearedLosing(h) ==
    /\ phase[h] = "clear" /\ regs[h] = <<>>
    /\ kept' = [kept EXCEPT ![h] = <<>>]
    /\ \/ /\ kept[h] = <<>>
          /\ configured' = FALSE
          /\ GoTo(h, "kinds")
          /\ UNCHANGED jobs
       \/ /\ kept[h] # <<>>
          /\ Incomplete(h)
          /\ UNCHANGED configured
    /\ UNCHANGED <<waiting, owner, handlers, config, installed, spec, todo, regs, nativeKinds,
                   workerKinds, runtimeVars, dropping>>

\* Mutant: the cleared configuration stays in place.
ClearedInPlace(h) ==
    /\ phase[h] = "clear" /\ regs[h] = <<>>
    /\ kept' = [kept EXCEPT ![h] = <<>>]
    /\ config' = kept[h]
    /\ \/ kept[h] = <<>> /\ GoTo(h, "kinds") /\ UNCHANGED jobs
       \/ kept[h] # <<>> /\ Incomplete(h)
    /\ UNCHANGED <<waiting, owner, handlers, configured, installed, spec, todo, regs, nativeKinds,
                   workerKinds, runtimeVars, dropping>>

\* clear_plugin_configuration_inner, after the second lock.
Cleared(h) ==
    /\ phase[h] = "clear" /\ regs[h] = <<>>
    /\ kept' = [kept EXCEPT ![h] = <<>>]
    /\ \/ /\ kept[h] = <<>>
          /\ configured' = FALSE
          /\ GoTo(h, "kinds")
          /\ UNCHANGED <<config, jobs>>
       \/ /\ kept[h] # <<>>
          /\ config' = kept[h]
          /\ Incomplete(h)
          /\ UNCHANGED configured
    /\ UNCHANGED <<waiting, owner, handlers, installed, spec, todo, regs, nativeKinds, workerKinds,
                   runtimeVars, dropping>>

\* deregister_tracked_registrations_checked: a kind that is missing or was
\* replaced is reported and skipped.
DeregisterNativeKind(h) ==
    /\ phase[h] = "kinds" /\ nativeKinds[h] # <<>>
    /\ handlers' = WithoutKind(h, Head(nativeKinds[h]))
    /\ nativeKinds' = [nativeKinds EXCEPT ![h] = Tail(@)]
    /\ UNCHANGED <<leaseVars, configVars, installed, phase, spec, todo, regs, kept, workerKinds,
                   runtimeVars, dropping>>

DeregisterWorkerKind(h) ==
    /\ phase[h] = "kinds" /\ nativeKinds[h] = <<>> /\ workerKinds[h] # <<>>
    /\ handlers' = WithoutKind(h, Head(workerKinds[h]))
    /\ workerKinds' = [workerKinds EXCEPT ![h] = Tail(@)]
    /\ UNCHANGED <<leaseVars, configVars, installed, phase, spec, todo, regs, kept, nativeKinds,
                   runtimeVars, dropping>>

\* Mutant: the workers are stopped before their kinds are deregistered.
ShutdownEarly(h) ==
    /\ phase[h] = "kinds" /\ nativeKinds[h] = <<>>
    /\ stopped' = [stopped EXCEPT ![h] = @ \cup (held[h] \cap WorkerKind)]
    /\ UNCHANGED <<leaseVars, handlers, configVars, installed, phase, spec, localVars, held,
                   dropping>>

\* shutdown_plugins_checked: the processes that cannot be killed are left for
\* a retry; otherwise the runtimes and the lease are dropped.
Shutdown(h) ==
    /\ phase[h] = "kinds" /\ nativeKinds[h] = <<>> /\ workerKinds[h] = <<>>
    /\ \E alive \in SUBSET ((held[h] \cap WorkerKind) \ stopped[h]) :
          /\ stopped' = [stopped EXCEPT ![h] = @ \cup ((held[h] \cap WorkerKind) \ alive)]
          /\ \/ /\ alive = {}
                /\ held' = [held EXCEPT ![h] = {}]
                /\ ReleaseLease(h)
                /\ GoTo(h, "closed")
                /\ IF h \in dropping THEN EndJob(h) ELSE UNCHANGED jobs
             \/ /\ alive # {}
                /\ Incomplete(h)
                /\ UNCHANGED <<held, owner>>
    /\ UNCHANGED <<waiting, handlers, configVars, installed, spec, localVars, dropping>>

-------------------------------------------------------------------------------
ActivationStep(h) ==
    \/ Acquire(h) \/ LeaseTaken(h) \/ BuiltinTaken(h)
    \/ LoadPlugin(h) \/ LoadFails(h) \/ StartInit(h) \/ Invalid(h)
    \/ InitComponent(h) \/ ComponentFails(h) \/ Activated(h)
    \/ Deregister(h) \/ RolledBack(h)
    \/ DropWorkerKind(h) \/ DropWorkers(h) \/ DropNativeKind(h) \/ DropLease(h)

TeardownStep(h) ==
    \/ Cleared(h) \/ DeregisterNativeKind(h) \/ DeregisterWorkerKind(h) \/ Shutdown(h)

Next ==
    \/ \E h \in Host :
         \/ \E c \in Configs : Submit(h, c)
         \/ Cancel(h) \/ Close(h) \/ DropHandle(h)
         \/ ActivationStep(h) \/ TeardownStep(h)
    \/ \E k \in Kind : UserRegister(k) \/ UserDeregister(k)

Spec == Init /\ [][Next]_vars

\* The executor runs its job, a thread that closes a handle finishes, and the
\* handle of a caller that is gone is dropped.
Fairness ==
    \A h \in Host :
        /\ WF_vars(ActivationStep(h) \/ TeardownStep(h))
        /\ WF_vars(h \in dropping /\ DropHandle(h))

FairSpec == Spec /\ Fairness

-------------------------------------------------------------------------------
(* Properties *)

\* No callback and no registered kind outlives the runtime it calls into.  While a
\* callback of a dynamic plugin is registered, the activation that loaded the plugin,
\* or its leaked remains, still holds the library or the running worker; and a worker
\* is stopped and a library released only when no new activation can look its adapter
\* up in the kind registry.
RuntimeOutlives ==
    /\ \A c \in installed :
          c.by \in Host => c.kind \in held[c.by] /\ c.kind \notin stopped[c.by]
    /\ \A k \in Kind :
          handlers[k] \in Host => k \in held[handlers[k]] /\ k \notin stopped[handlers[k]]

\* Every callback belongs to the host that owns the lease, so the lease is free
\* only when nothing is registered and no configuration is active.  A host that
\* is under way owns it, so verify_plugin_host_owner never fails, and it starts
\* without an active configuration: the branches of initialize_plugins_exact_inner
\* that replace or restore one are never taken.
LeaseExclusion ==
    /\ \A c \in installed : owner = c.host
    /\ configured => owner # None
    /\ \A h \in Host : phase[h] \notin {"idle", "queued", "failed", "closed"} => owner = h
    /\ \A h \in Host : phase[h] \in {"load", "init"} => ~configured

\* Whoever can still remove a callback knows of it: it is in the active
\* configuration or in the hands of the activation or teardown in progress,
\* unless the host was given up with its runtimes.
CallbacksTracked ==
    \A c \in installed :
        \/ c \in Range(config) \cup Range(regs[c.host]) \cup Range(kept[c.host])
        \/ phase[c.host] = "retained"

\* A failed activation leaves nothing behind: no callback, no kind, no runtime
\* and no lease.
FailedLeavesNothing ==
    \A h \in Host : phase[h] \in {"failed", "closed"} =>
        /\ owner # h
        /\ held[h] = {}
        /\ \A k \in Kind : handlers[k] # h
        /\ \A c \in installed : c.host # h

\* Loading and teardown never take away a kind somebody else registered.
KindsOfOthersKept ==
    [][ \A h \in Host : ActivationStep(h) \/ TeardownStep(h) =>
          \A k \in Kind : handlers[k] \in (Host \ {h}) \cup {User} => handlers'[k] = handlers[k] ]_vars

\* Every activation that was queued is answered: it becomes active, fails, or
\* is given up; and a dropped handle is closed or given up.
ActivationsAnswered ==
    \A h \in Host :
        /\ phase[h] = "queued" ~> phase[h] \in {"active", "failed", "retained", "closed"}
        /\ h \in dropping ~> phase[h] \in {"closed", "retained"}
===============================================================================
