---------------------------- MODULE ScopeStackInv ----------------------------
(***************************************************************************)
(* What makes the properties of ScopeStack inductive: a uuid is nowhere    *)
(* before its handle is pushed; a call that closes a scope keeps, or still *)
(* finds on the stack, the middleware the scope owned; one call queues the *)
(* start event of a scope and one its end event; an agent is fresh or its  *)
(* history was taken; and, with one task at a time on each stack, what a   *)
(* call has read stays true and the events of a trace agree on their root. *)
(***************************************************************************)
EXTENDS ScopeStack

\* A uuid that may be on a stack: not one whose handle is still to be pushed.
Seen(u) ==
    u \in Scope =>
        /\ u \in minted
        /\ \A t \in Thread : call[t].pc = "push-write" => call[t].uuid # u

\* Each thread mints uuids of its own.
MintedInv ==
    /\ \A t \in Thread : call[t].pc = "push-write" => call[t].uuid \in minted
    /\ \A t, v \in Thread :
          call[t].pc = "push-write" /\ call[v].pc = "push-write"
          /\ call[t].uuid = call[v].uuid => t = v

\* Whatever a stack, a context or a call names was pushed.
SeenInv ==
    /\ \A s \in Stack : \A u \in OnStack(stacks[s]) : Seen(u)
    /\ \A s \in Stack : stacks[s].root # None => Seen(stacks[s].root)
    /\ \A t \in Thread : call[t].parent # None => Seen(call[t].parent)
    /\ \A t \in Thread : call[t].pc \notin {"idle", "push", "push-write"} /\ call[t].uuid # None
          => Seen(call[t].uuid)

\* What each stage of a call has fixed.
CallOk(c) ==
    /\ c.pc \in {"push-write", "push-sanitizers", "push-queue"} => c.uuid \in Scope
    /\ c.pc \in {"pop-sanitizers", "pop-snapshot", "pop-remove", "pop-queue"} => c.uuid # None
    /\ c.pc \in {"push", "llm", "compaction", "capture"} => c.parent # None

CallInv == \A t \in Thread : Created(visible[t]) /\ CallOk(call[t])

OpenInv == MintedInv /\ SeenInv /\ CallInv /\ OpenScopesOwn

\* The middleware a pop must publish with is held by the call, or still on the
\* stack; or the scope was closed by another thread and the pop will fail.
Held(t, fields) ==
    \A r \in owed[t] :
        /\ r.scope = call[t].uuid
        /\ \/ r \in call[t].subscribers \cup call[t].sanitizers
           \/ r.field \in fields /\ r \in Visible(t).registries

CarryOk(t) ==
    /\ call[t].pc = "pop-sanitizers" =>
          /\ call[t].sanitizers = {}
          /\ Held(t, {"sanitizer"}) \/ call[t].uuid \notin OnStack(Visible(t))
    /\ call[t].pc \in {"pop-snapshot", "pop-remove"} =>
          Held(t, {}) \/ call[t].uuid \notin OnStack(Visible(t))
    /\ call[t].pc = "pop-queue" => Held(t, {})

CarryInv == \A t \in Thread : CarryOk(t)

-----------------------------------------------------------------------------
\* A call of push_scope that has its handle and still has to queue its event.
Opens(c) == c.pc \in {"push-write", "push-sanitizers", "push-queue"}

\* On stacks that are shared but neither forked nor copied, an open scope is on
\* one stack, and the root of each stack stays on it.
SingleInv ==
    /\ \A s \in OwnStack : stacks[s].scopes[1].uuid = s /\ s \in OnStack(stacks[s])
    /\ \A s \in Stack : OnStack(stacks[s]) \subseteq minted \cup OwnStack
    /\ \A s, w \in Stack, u \in Uuid :
          u \in OnStack(stacks[s]) /\ u \in OnStack(stacks[w]) => s = w

\* One call opens a scope, and queues its start event last.
StartInv ==
    /\ \A u \in Uuid : starts[u] <= 1 /\ (u \notin minted => starts[u] = 0)
    /\ \A t \in Thread : Opens(call[t]) => call[t].uuid \in minted /\ starts[call[t].uuid] = 0
    /\ \A t, v \in Thread :
          Opens(call[t]) /\ Opens(call[v]) /\ call[t].uuid = call[v].uuid => t = v
    /\ Global => \A u \in minted :
          starts[u] = 1 \/ \E t \in Thread : Opens(call[t]) /\ call[t].uuid = u

\* One call closes a scope: it takes the scope off its only stack before it
\* queues the end event, and finds no end event queued.
EndInv ==
    /\ \A u \in Uuid : ends[u] <= 1 /\ (u \notin minted => ends[u] = 0)
    /\ \A s \in Stack : \A u \in OnStack(stacks[s]) : ends[u] = 0
    /\ \A t \in Thread : call[t].pc = "push-write" => ends[call[t].uuid] = 0
    /\ \A t \in Thread : call[t].pc = "pop-queue" =>
          /\ call[t].uuid \in minted /\ ends[call[t].uuid] = 0
          /\ \A s \in Stack : call[t].uuid \notin OnStack(stacks[s])
    /\ \A t, v \in Thread :
          call[t].pc = "pop-queue" /\ call[v].pc = "pop-queue"
          /\ call[t].uuid = call[v].uuid => t = v
    /\ Global => \A u \in minted :
          \/ ends[u] = 1
          \/ \E s \in Stack : u \in OnStack(stacks[s])
          \/ \E t \in Thread : call[t].pc \in {"push-write", "pop-queue"} /\ call[t].uuid = u

PairInv == SingleInv /\ StartInv /\ EndInv

\* An agent that is fresh has not been charged since it became so.
FreshInv ==
    /\ \A u \in Uuid : charged[u] <= 1
    /\ \A s \in Stack : \A u \in stacks[s].fresh : charged[u] = 0

-----------------------------------------------------------------------------
\* The stacks a thread may come to use; and one task at a time on each stack.
Reach(t) == {Home[t]} \cup {s \in Stack : <<t, s>> \in MayBind}
Unshared == \A t, v \in Thread : t # v => Reach(t) \cap Reach(v) = {}

\* What a call has read of its stack is still so.
TopOk(t) ==
    LET c == call[t]
        top == Top(Visible(t)).uuid
    IN /\ c.pc = "push" /\ c.implicit => c.parent = top
       /\ c.pc = "push-write" /\ c.implicit => c.parent = c.onTop
       /\ c.pc = "capture" => c.parent \in Managed \cup {top}
       /\ c.pc \in {"push-sanitizers", "push-queue", "pop-sanitizers", "pop-snapshot", "pop-remove"}
             => c.uuid = top
       /\ c.pc = "pop-remove" => c.root = EventRoot(Visible(t))

TopInv == \A t \in Thread : visible[t] \in Reach(t) /\ TopOk(t)

\* At the bottom is the root a stack was imported with, or one of its own; and
\* the parent it was imported with was pushed.
BottomInv ==
    \A s \in Stack :
        /\ Created(s) /\ stacks[s].root # None => stacks[s].scopes[1].uuid = stacks[s].root
        /\ Created(s) /\ stacks[s].root = None /\ ~stacks[s].rootless =>
              stacks[s].scopes[1].uuid \in OwnStack
        /\ stacks[s].parent # None => Seen(stacks[s].parent)

\* A scope whose start event is still to be queued is at most on the stack of
\* the call that opens it, and no context and no closing call names it.
UnqueuedInv ==
    \A t \in Thread : Opens(call[t]) =>
        /\ \A s \in Stack : call[t].uuid \in OnStack(stacks[s]) => s = visible[t]
        /\ \A s \in Stack : stacks[s].root # call[t].uuid /\ stacks[s].parent # call[t].uuid
        /\ \A v \in Thread : call[v].pc = "pop-queue" => call[v].uuid # call[t].uuid

\* EventRoot when the scope at i was on top.
RootAt(st, i) ==
    LET explicit == {j \in 2 .. i : st.scopes[j].agent} IN
    IF st.root # None THEN st.root
    ELSE IF explicit # {} THEN st.scopes[First(explicit)].uuid
    ELSE IF st.rootless THEN None ELSE st.scopes[1].uuid

\* The start event of an open scope carried the root its stack gives it, and a
\* root that has a start event is its own root.
Traced(st) ==
    /\ \A i \in 2 .. Len(st.scopes) :
          starts[st.scopes[i].uuid] > 0 => rootOf[st.scopes[i].uuid] = RootAt(st, i)
    /\ st.root # None /\ starts[st.root] > 0 => rootOf[st.root] = st.root

TraceInv == (\A s \in Stack : Traced(stacks[s])) /\ SameRoot /\ ForkKeepsRoot
=============================================================================
