------------------------------ MODULE ScopeStack ------------------------------
(***************************************************************************)
(* The scope stack of crates/core/src/api/runtime/scope_stack.rs and the   *)
(* calls that use it: opening and closing a scope, scope-local middleware, *)
(* the freshness of agents, capturing and importing a propagation context, *)
(* and the isolated copy every `next' continuation runs on.                *)
(*                                                                         *)
(* A stack is shared behind a RwLock, and one call takes the lock several  *)
(* times.  An action is what a call does under one lock.                   *)
(***************************************************************************)
EXTENDS Naturals, Sequences

CONSTANTS
    Thread,     \* threads and tasks
    Scope,      \* uuids push_scope mints (the bound on pushes)
    Managed,    \* uuids of managed calls in which a context is captured
    OwnStack,   \* handles of create_scope_stack
    ForkStack,  \* handles of create_scope_stack_from_propagation
    CopyStack,  \* handles of snapshot_scope_stack
    Home,       \* the stack each thread starts with
    MayBind,    \* which thread the application lets use which stack
    Calls,      \* the calls the application makes
    Agents,     \* whether it opens agents, other scopes, or both
    Name,       \* names of scope-local registrations
    Global,     \* a process-wide subscriber is registered
    None

Stack == OwnStack \cup ForkStack \cup CopyStack

\* The implicit root of a stack of create_scope_stack is named after it.
Uuid == Scope \cup Managed \cup OwnStack
Field == {"sanitizer", "subscriber"}

ASSUME StackAssumption ==
    /\ OwnStack \cap ForkStack = {} /\ OwnStack \cap CopyStack = {}
    /\ ForkStack \cap CopyStack = {}
    /\ Home \in [Thread -> OwnStack]
    /\ MayBind \subseteq Thread \X Stack
    /\ Global \in BOOLEAN
    /\ Calls \subseteq Field \cup {"explicit", "llm", "capture"}
    /\ Agents \subseteq BOOLEAN

ASSUME UuidAssumption ==
    /\ Scope \cap OwnStack = {} /\ Scope \cap Managed = {} /\ Managed \cap OwnStack = {}
    /\ None \notin Uuid

Handle == [uuid : Uuid, agent : BOOLEAN]
Entry == [scope : Uuid, field : Field, name : Name]

VARIABLES
    stacks,   \* what is behind each ScopeStackHandle
    visible,  \* current_scope_stack of each thread
    call,     \* the call each thread is in, and what it has read so far
    minted,   \* the uuids that were given to a handle
    starts,   \* how often the start event of a scope was queued
    ends,     \* how often its end event was queued
    rootOf,   \* history: the propagation root its start event carried
    owed,     \* history: registrations of the scope since before the pop
    charged   \* history: full-history LLM starts of an agent since it was fresh

vars == <<stacks, visible, call, minted, starts, ends, rootOf, owed, charged>>

NoStack == [scopes |-> <<>>, registries |-> {}, fresh |-> {},
            parent |-> None, root |-> None, rootless |-> FALSE]

Idle == [pc |-> "idle", uuid |-> None, agent |-> FALSE, parent |-> None,
         implicit |-> FALSE, onTop |-> None, subscribers |-> {},
         sanitizers |-> {}, root |-> None]

\* ScopeStack::new
New(s) == [scopes |-> <<[uuid |-> s, agent |-> TRUE]>>, registries |-> {}, fresh |-> {s},
           parent |-> None, root |-> None, rootless |-> FALSE]

Init ==
    /\ stacks = [s \in Stack |-> IF s \in OwnStack THEN New(s) ELSE NoStack]
    /\ visible = Home
    /\ call = [t \in Thread |-> Idle]
    /\ minted = {}
    /\ starts = [u \in Uuid |-> 0]
    /\ ends = [u \in Uuid |-> 0]
    /\ rootOf = [u \in Uuid |-> None]
    /\ owed = [t \in Thread |-> {}]
    /\ charged = [u \in Uuid |-> 0]

-----------------------------------------------------------------------------
Created(s) == stacks[s].scopes # <<>>
Top(st) == st.scopes[Len(st.scopes)]
OnStack(st) == {st.scopes[i].uuid : i \in 1 .. Len(st.scopes)}

\* A plausible bug: the snapshot forgets which registry an entry is from.
LocalNames(st, f) ==
    {[scope |-> r.scope, name |-> r.name] : r \in {e \in st.registries : e.field = f /\ e.scope \in OnStack(st)}}

\* A plausible bug: the scope that is being closed is skipped.
LocalBelow(st, f) ==
    {r \in st.registries : r.field = f /\ r.scope \in OnStack(st) \ {Top(st).uuid}}

\* collect_scope_local_subscribers and snapshot_scope_local_registries
Local(st, f) == {r \in st.registries : r.field = f /\ r.scope \in OnStack(st)}

First(S) == CHOOSE i \in S : \A j \in S : i <= j
Last(S) == CHOOSE i \in S : \A j \in S : j <= i

\* ScopeStack::event_propagation_root_uuid
EventRoot(st) ==
    LET explicit == {i \in 2 .. Len(st.scopes) : st.scopes[i].agent} IN
    IF st.root # None THEN st.root
    ELSE IF explicit # {} THEN st.scopes[First(explicit)].uuid
    ELSE IF st.rootless THEN None ELSE st.scopes[1].uuid

\* ScopeStack::owning_agent_uuid
OwningAgent(st, p) ==
    LET at == {i \in 1 .. Len(st.scopes) : st.scopes[i].uuid = p}
        end == IF at = {} THEN Len(st.scopes) ELSE First(at)
    IN st.scopes[Last({i \in 1 .. end : st.scopes[i].agent})].uuid

\* ScopeStack::push
Pushed(st, h) ==
    [st EXCEPT !.scopes = Append(@, h),
               !.fresh = IF h.agent THEN @ \cup {h.uuid} ELSE @]

\* A plausible bug: the registries of a closed scope stay behind.
RemovedOnly(st, u) ==
    [st EXCEPT !.scopes = SubSeq(@, 1, Len(@) - 1), !.fresh = @ \ {u}]

\* ScopeStack::remove, once its checks have passed
Removed(st, u) ==
    [st EXCEPT !.scopes = SubSeq(@, 1, Len(@) - 1),
               !.registries = {r \in @ : r.scope # u},
               !.fresh = @ \ {u}]

\* A plausible bug: the implicit root can be closed like any other scope.
RemovableAny(st, u) == Top(st).uuid = u

\* The checks of ScopeStack::remove
Removable(st, u) == Top(st).uuid = u /\ Len(st.scopes) # 1

\* ScopeStack::from_propagation
FromPropagation(root, parent) ==
    LET bottom == [uuid |-> IF root = None THEN parent ELSE root, agent |-> TRUE]
        below == [uuid |-> parent, agent |-> FALSE]
    IN [scopes |-> IF root = None \/ root = parent THEN <<bottom>> ELSE <<bottom, below>>,
        registries |-> {}, fresh |-> {bottom.uuid},
        parent |-> IF root = None THEN None ELSE parent,
        root |-> root, rootless |-> root = None]

-----------------------------------------------------------------------------
\* The uuids the application has seen: those of scopes that were pushed.
Unseen == {call[t].uuid : t \in {v \in Thread : call[v].pc = "push-write"}}
Known == (minted \ Unseen) \cup OwnStack

Visible(t) == stacks[visible[t]]

\* A plausible bug: without a handle the root becomes the parent.
ParentChoiceRoot(t, implicit, p) ==
    IF implicit THEN p = Visible(t).scopes[1].uuid ELSE p \in Known /\ "explicit" \in Calls

\* resolve_parent_uuid: the given handle, or the top read under a lock of its own
ParentChoice(t, implicit, p) ==
    IF implicit THEN p = Top(Visible(t)).uuid ELSE p \in Known /\ "explicit" \in Calls

\* dispatch_sanitized_event queues nothing that has no subscriber.
Queues(t) == IF Global \/ call[t].subscribers # {} THEN 1 ELSE 0

\* push_scope
Push(t, agent, implicit, p) ==
    /\ call[t] = Idle
    /\ ParentChoice(t, implicit, p)
    /\ call' = [call EXCEPT ![t] = [Idle EXCEPT !.pc = "push", !.agent = agent,
                                                !.implicit = implicit, !.parent = p]]
    /\ UNCHANGED <<stacks, visible, minted, starts, ends, rootOf, owed, charged>>

\* ... the subscribers and the handle, under the read lock
CreateHandle(t, u) ==
    /\ call[t].pc = "push"
    /\ u \notin minted
    /\ minted' = minted \cup {u}
    /\ call' = [call EXCEPT ![t].pc = "push-write", ![t].uuid = u,
                            ![t].onTop = Top(Visible(t)).uuid,
                            ![t].subscribers = Local(Visible(t), "subscriber")]
    /\ UNCHANGED <<stacks, visible, starts, ends, rootOf, owed, charged>>

\* ... task_scope_push
PushWrite(t) ==
    /\ call[t].pc = "push-write"
    /\ stacks' = [stacks EXCEPT ![visible[t]] =
                     Pushed(@, [uuid |-> call[t].uuid, agent |-> call[t].agent])]
    /\ charged' = [charged EXCEPT ![call[t].uuid] = 0]
    /\ call' = [call EXCEPT ![t].pc = "push-sanitizers"]
    /\ UNCHANGED <<visible, minted, starts, ends, rootOf, owed>>

\* ... snapshot_event_sanitizers
PushSanitizers(t) ==
    /\ call[t].pc = "push-sanitizers"
    /\ call' = [call EXCEPT ![t].pc = "push-queue",
                            ![t].sanitizers = Local(Visible(t), "sanitizer")]
    /\ UNCHANGED <<stacks, visible, minted, starts, ends, rootOf, owed, charged>>

\* ... dispatch_sanitized_event, which copies the stack once more
PushQueue(t) ==
    /\ call[t].pc = "push-queue"
    /\ starts' = [starts EXCEPT ![call[t].uuid] = @ + Queues(t)]
    /\ rootOf' = [rootOf EXCEPT ![call[t].uuid] = EventRoot(Visible(t))]
    /\ call' = [call EXCEPT ![t] = Idle]
    /\ UNCHANGED <<stacks, visible, minted, ends, owed, charged>>

-----------------------------------------------------------------------------
\* pop_scope_inner: the check, and the subscribers, under the read lock
Pop(t, u) ==
    /\ call[t] = Idle
    /\ u \in Known \cup Managed
    /\ Top(Visible(t)).uuid = u
    /\ call' = [call EXCEPT ![t] = [Idle EXCEPT !.pc = "pop-sanitizers", !.uuid = u,
                                       !.subscribers = Local(Visible(t), "subscriber")]]
    /\ owed' = [owed EXCEPT ![t] = {r \in Visible(t).registries : r.scope = u}]
    /\ UNCHANGED <<stacks, visible, minted, starts, ends, rootOf, charged>>

\* ... snapshot_event_sanitizers
PopSanitizers(t) ==
    /\ call[t].pc = "pop-sanitizers"
    /\ call' = [call EXCEPT ![t].pc = "pop-snapshot",
                            ![t].sanitizers = Local(Visible(t), "sanitizer")]
    /\ UNCHANGED <<stacks, visible, minted, starts, ends, rootOf, owed, charged>>

\* A plausible bug: the copy is taken without the scope that closes.
PopSnapshotBelow(t) ==
    /\ call[t].pc = "pop-snapshot"
    /\ Len(Visible(t).scopes) > 1
    /\ call' = [call EXCEPT ![t].pc = "pop-remove",
                            ![t].root = EventRoot(Removed(Visible(t), call[t].uuid))]
    /\ UNCHANGED <<stacks, visible, minted, starts, ends, rootOf, owed, charged>>

\* ... snapshot_scope_stack: the copy the end event is published with
PopSnapshot(t) ==
    /\ call[t].pc = "pop-snapshot"
    /\ call' = [call EXCEPT ![t].pc = "pop-remove", ![t].root = EventRoot(Visible(t))]
    /\ UNCHANGED <<stacks, visible, minted, starts, ends, rootOf, owed, charged>>

\* ... task_scope_remove, which checks again
PopRemove(t) ==
    /\ call[t].pc = "pop-remove"
    /\ Removable(Visible(t), call[t].uuid)
    /\ stacks' = [stacks EXCEPT ![visible[t]] = Removed(@, call[t].uuid)]
    /\ call' = [call EXCEPT ![t].pc = "pop-queue"]
    /\ UNCHANGED <<visible, minted, starts, ends, rootOf, owed, charged>>

\* A plausible bug: the error of task_scope_remove is ignored.
PopRefusedIgnored(t) ==
    /\ call[t].pc = "pop-remove"
    /\ ~Removable(Visible(t), call[t].uuid)
    /\ call' = [call EXCEPT ![t].pc = "pop-queue"]
    /\ UNCHANGED <<stacks, visible, minted, starts, ends, rootOf, owed, charged>>

\* ... and fails when another thread was faster, or the scope is the root
PopRefused(t) ==
    /\ call[t].pc = "pop-remove"
    /\ ~Removable(Visible(t), call[t].uuid)
    /\ call' = [call EXCEPT ![t] = Idle]
    /\ owed' = [owed EXCEPT ![t] = {}]
    /\ UNCHANGED <<stacks, visible, minted, starts, ends, rootOf, charged>>

\* ... dispatch_sanitized_event
PopQueue(t) ==
    /\ call[t].pc = "pop-queue"
    /\ ends' = [ends EXCEPT ![call[t].uuid] = @ + Queues(t)]
    /\ call' = [call EXCEPT ![t] = Idle]
    /\ owed' = [owed EXCEPT ![t] = {}]
    /\ UNCHANGED <<stacks, visible, minted, starts, rootOf, charged>>

-----------------------------------------------------------------------------
\* scope_register_subscriber, scope_register_..._guardrail
ScopeRegister(t, u, f, n) ==
    LET r == [scope |-> u, field |-> f, name |-> n] IN
    /\ call[t] = Idle
    /\ u \in OnStack(Visible(t))
    /\ r \notin Visible(t).registries
    /\ stacks' = [stacks EXCEPT ![visible[t]].registries = @ \cup {r}]
    /\ UNCHANGED <<visible, call, minted, starts, ends, rootOf, owed, charged>>

\* scope_deregister_subscriber, scope_deregister_..._guardrail
ScopeDeregister(t, u, f, n) ==
    LET r == [scope |-> u, field |-> f, name |-> n] IN
    /\ call[t] = Idle
    /\ u \in OnStack(Visible(t))
    /\ r \in Visible(t).registries
    /\ stacks' = [stacks EXCEPT ![visible[t]].registries = @ \ {r}]
    /\ owed' = [v \in Thread |-> IF visible[v] = visible[t] THEN owed[v] \ {r} ELSE owed[v]]
    /\ UNCHANGED <<visible, call, minted, starts, ends, rootOf, charged>>

\* llm_call, llm_call_execute, llm_stream_call_execute: the parent of the call
LlmStart(t, implicit, p) ==
    /\ call[t] = Idle
    /\ ParentChoice(t, implicit, p)
    /\ call' = [call EXCEPT ![t] = [Idle EXCEPT !.pc = "llm", !.parent = p]]
    /\ UNCHANGED <<stacks, visible, minted, starts, ends, rootOf, owed, charged>>

\* A plausible bug: reading the freshness does not consume it.
TakenNot(st, a) == st

\* ScopeStack::take_agent_freshness: a fresh agent's start keeps the history
Taken(st, a) == [st EXCEPT !.fresh = @ \ {a}]

\* ... under the write lock
TakeFreshness(t) ==
    LET a == OwningAgent(Visible(t), call[t].parent) IN
    /\ call[t].pc = "llm"
    /\ charged' = [charged EXCEPT ![a] = IF a \in Visible(t).fresh THEN @ + 1 ELSE @]
    /\ stacks' = [stacks EXCEPT ![visible[t]] = Taken(@, a)]
    /\ call' = [call EXCEPT ![t] = Idle]
    /\ UNCHANGED <<visible, minted, starts, ends, rootOf, owed>>

\* event, for a compaction mark
Compaction(t, implicit, p) ==
    /\ call[t] = Idle
    /\ ParentChoice(t, implicit, p)
    /\ call' = [call EXCEPT ![t] = [Idle EXCEPT !.pc = "compaction", !.parent = p]]
    /\ UNCHANGED <<stacks, visible, minted, starts, ends, rootOf, owed, charged>>

\* ... ScopeStack::mark_agent_fresh
MarkFresh(t) ==
    LET a == OwningAgent(Visible(t), call[t].parent) IN
    /\ call[t].pc = "compaction"
    /\ charged' = [charged EXCEPT ![a] = 0]
    /\ stacks' = [stacks EXCEPT ![visible[t]].fresh = @ \cup {a}]
    /\ call' = [call EXCEPT ![t] = Idle]
    /\ UNCHANGED <<visible, minted, starts, ends, rootOf, owed>>

-----------------------------------------------------------------------------
\* capture_propagation_context: the parent, the managed call that runs or the top
Capture(t, p) ==
    /\ call[t] = Idle
    /\ p \in Managed \cup {Top(Visible(t)).uuid}
    /\ call' = [call EXCEPT ![t] = [Idle EXCEPT !.pc = "capture", !.parent = p]]
    /\ UNCHANGED <<stacks, visible, minted, starts, ends, rootOf, owed, charged>>

\* A plausible bug: the root is always the one at the bottom.
ImportBottom(t, s, rootless) ==
    LET root == IF rootless THEN None ELSE Visible(t).scopes[1].uuid IN
    /\ call[t].pc = "capture"
    /\ s \in ForkStack /\ ~Created(s)
    /\ stacks' = [stacks EXCEPT ![s] = FromPropagation(root, call[t].parent)]
    /\ call' = [call EXCEPT ![t] = Idle]
    /\ UNCHANGED <<visible, minted, starts, ends, rootOf, owed, charged>>

\* ... the root, under a second lock (rootless: capture_rootless_...), and
\* create_scope_stack_from_propagation
Import(t, s, rootless) ==
    LET root == IF rootless THEN None ELSE EventRoot(Visible(t)) IN
    /\ call[t].pc = "capture"
    /\ s \in ForkStack /\ ~Created(s)
    /\ stacks' = [stacks EXCEPT ![s] = FromPropagation(root, call[t].parent)]
    /\ call' = [call EXCEPT ![t] = Idle]
    /\ UNCHANGED <<visible, minted, starts, ends, rootOf, owed, charged>>

\* MiddlewareContinuationContext::isolated: snapshot_scope_stack
Isolate(t, s) ==
    /\ call[t] = Idle
    /\ s \in CopyStack /\ ~Created(s)
    /\ stacks' = [stacks EXCEPT ![s] = Visible(t)]
    /\ UNCHANGED <<visible, call, minted, starts, ends, rootOf, owed, charged>>

\* set_thread_scope_stack, with_scope_stack, TASK_SCOPE_STACK.scope
Bind(t, s) ==
    /\ call[t] = Idle
    /\ <<t, s>> \in MayBind /\ Created(s) /\ visible[t] # s
    /\ visible' = [visible EXCEPT ![t] = s]
    /\ UNCHANGED <<stacks, call, minted, starts, ends, rootOf, owed, charged>>

Step(t) ==
    \/ \E agent \in Agents, implicit \in BOOLEAN, p \in Uuid : Push(t, agent, implicit, p)
    \/ \E u \in Scope : CreateHandle(t, u)
    \/ PushWrite(t)
    \/ PushSanitizers(t)
    \/ PushQueue(t)
    \/ \E u \in Uuid : Pop(t, u)
    \/ PopSanitizers(t)
    \/ PopSnapshot(t)
    \/ PopRemove(t)
    \/ PopRefused(t)
    \/ PopQueue(t)
    \/ \E u \in Uuid, f \in Field, n \in Name : f \in Calls /\ ScopeRegister(t, u, f, n)
    \/ \E u \in Uuid, f \in Field, n \in Name : f \in Calls /\ ScopeDeregister(t, u, f, n)
    \/ \E implicit \in BOOLEAN, p \in Uuid : "llm" \in Calls /\ LlmStart(t, implicit, p)
    \/ TakeFreshness(t)
    \/ \E implicit \in BOOLEAN, p \in Uuid : "llm" \in Calls /\ Compaction(t, implicit, p)
    \/ MarkFresh(t)
    \/ \E p \in Uuid : "capture" \in Calls /\ Capture(t, p)
    \/ \E s \in ForkStack, rootless \in BOOLEAN : Import(t, s, rootless)
    \/ \E s \in CopyStack : Isolate(t, s)
    \/ \E s \in Stack : Bind(t, s)

Next == \E t \in Thread : Step(t)

Spec == Init /\ [][Next]_vars

-----------------------------------------------------------------------------
StackType ==
    [scopes : Seq(Handle), registries : SUBSET Entry, fresh : SUBSET Uuid,
     parent : Uuid \cup {None}, root : Uuid \cup {None}, rootless : BOOLEAN]

Pcs == {"idle", "push", "push-write", "push-sanitizers", "push-queue",
        "pop-sanitizers", "pop-snapshot", "pop-remove", "pop-queue",
        "llm", "compaction", "capture"}

CallType ==
    [pc : Pcs, uuid : Uuid \cup {None}, agent : BOOLEAN, parent : Uuid \cup {None},
     implicit : BOOLEAN, onTop : Uuid \cup {None}, subscribers : SUBSET Entry,
     sanitizers : SUBSET Entry, root : Uuid \cup {None}]

\* Every variable holds a value of its type: a stack its handles, registries
\* and propagated identifiers, a call what push_scope or pop_scope has read.
TypeOK ==
    /\ stacks \in [Stack -> StackType]
    /\ visible \in [Thread -> Stack]
    /\ call \in [Thread -> CallType]
    /\ minted \subseteq Scope
    /\ starts \in [Uuid -> Nat]
    /\ ends \in [Uuid -> Nat]
    /\ rootOf \in [Uuid -> Uuid \cup {None}]
    /\ owed \in [Thread -> SUBSET Entry]
    /\ charged \in [Uuid -> Nat]

\* No scope is open twice, and an agent is at the bottom.
WellFormed(st) ==
    /\ \A i, j \in 1 .. Len(st.scopes) : st.scopes[i].uuid = st.scopes[j].uuid => i = j
    /\ st.scopes[1].agent

\* Only an open scope owns middleware, and only an open agent is fresh.
Owned(st) ==
    /\ \A r \in st.registries : r.scope \in OnStack(st)
    /\ \A u \in st.fresh : \E i \in 1 .. Len(st.scopes) :
          st.scopes[i].uuid = u /\ st.scopes[i].agent

\* Whatever threads share a stack, and in whatever order their calls get the
\* lock, only a scope that is open owns middleware, only an open agent is
\* fresh, no scope is open twice, and an agent is at the bottom, so that
\* owning_agent_uuid always finds one.
OpenScopesOwn == \A s \in Stack : Created(s) => WellFormed(stacks[s]) /\ Owned(stacks[s])

\* One scope is opened above the others, or the last one is closed, or neither.
StackOrder(s) ==
    LET old == stacks[s].scopes
        new == stacks'[s].scopes
    IN /\ Len(new) >= 1 /\ Len(new) <= Len(old) + 1 /\ Len(old) <= Len(new) + 1
       /\ \A i \in 1 .. Len(new) : i <= Len(old) => new[i] = old[i]

\* The scopes below the top never change: a step of any thread opens one scope
\* above the others or closes the last one, and the root stays for good.
StackDiscipline == [][\A s \in Stack : Created(s) => StackOrder(s)]_vars

\* pop_scope: an end event that is about to be queued carries every sanitizer
\* and every subscriber the scope owned when pop_scope was called and still
\* owned when it was removed, whatever other threads did in between.
EndCarriesMiddleware ==
    \A t \in Thread : call[t].pc = "pop-queue" =>
        owed[t] \subseteq call[t].subscribers \cup call[t].sanitizers

\* Threads that share a stack and race to close a scope: its start and its end event
\* are each queued at most once; and with a process-wide subscriber, once no call
\* runs, every scope that was opened has its start event, and its end event exactly
\* when it was closed.
EventsPaired ==
    /\ \A u \in Uuid : starts[u] <= 1 /\ ends[u] <= 1
    /\ Global /\ (\A t \in Thread : call[t] = Idle) =>
          \A u \in minted :
              /\ starts[u] = 1
              /\ ends[u] = 1 <=> \A s \in Stack : u \notin OnStack(stacks[s])

\* Concurrent LLM starts under one agent: at most one keeps the full history
\* between the moments the agent is opened or compacted.
FreshOnce == \A u \in Uuid : charged[u] <= 1

\* The parent of a scope opened without an explicit parent is the scope that
\* was on top of the stack when its handle was created.
ParentOnTop ==
    \A t \in Thread : call[t].pc = "push-write" /\ call[t].implicit =>
        call[t].parent = call[t].onTop

\* The start and the end event of a scope carry the same propagation root, so
\* that both belong to the same trace.
SameRoot ==
    \A t \in Thread : call[t].pc = "pop-queue" /\ starts[call[t].uuid] > 0 =>
        call[t].root = rootOf[call[t].uuid]

\* A fork continues the trace it was captured in: the root it was given is the
\* one the start event of the captured parent carried.
ForkKeepsRoot ==
    \A s \in ForkStack : Created(s) /\ stacks[s].root # None =>
        LET p == stacks[s].parent IN
        p \in Scope /\ starts[p] > 0 => stacks[s].root = rootOf[p]
=============================================================================
