----------------------- MODULE SubscriberDispatcherInv -----------------------
(***************************************************************************)
(* The inductive invariant behind FlushCovers: who owns each message, what *)
(* keeps each lineage outstanding, and why a flush that has not been       *)
(* acknowledged cannot be before what it owes is handled. Then those       *)
(* behind FailClosed, FlushOrder and ReservedOrder.                        *)
(***************************************************************************)
EXTENDS SubscriberDispatcher

PublicationKinds == {"deliver", "barrier"}

QueuedAt(j, x) == j \in DOMAIN queue /\ queue[j].kind \in PublicationKinds /\ queue[j].id = x
RegisterAt(j, p) == j \in DOMAIN queue /\ queue[j].kind = "register" /\ queue[j].id = p
CompleteAt(j, p) == j \in DOMAIN queue /\ queue[j].kind = "complete" /\ queue[j].id = p
FlushAt(j, f) == j \in DOMAIN queue /\ queue[j].kind = "flush" /\ queue[j].id = f
StackAt(j, x) == j \in DOMAIN stack /\ stack[j].op # "finish" /\ stack[j].id = x

\* The publications of X, and no others, have a message in q, each one.
OwnsMsgs(q, X) ==
    /\ \A j \in DOMAIN q : q[j].kind \in PublicationKinds => q[j].id \in X
    /\ \A x \in X : \E j \in DOMAIN q : q[j].kind \in PublicationKinds /\ q[j].id = x
    /\ \A i, j \in DOMAIN q :
          /\ q[i].kind \in PublicationKinds /\ q[j].kind \in PublicationKinds
          /\ q[i].id = q[j].id
          => i = j

\* The same for the frames that still hold a message.
OwnsFrames(st, X) ==
    /\ \A j \in DOMAIN st : st[j].op # "finish" => st[j].id \in X
    /\ \A x \in X : \E j \in DOMAIN st : st[j].op # "finish" /\ st[j].id = x
    /\ \A i, j \in DOMAIN st :
          st[i].op # "finish" /\ st[j].op # "finish" /\ st[i].id = st[j].id => i = j

\* The message of a publication is where `place' says, and only there.
InPlace(pl) == {x \in Publication : place[x] = pl}

OwnedQueue == OwnsMsgs(queue, InPlace("queue"))

OwnedStack == OwnsFrames(stack, InPlace("stack"))

OwnedNested ==
    /\ OwnsMsgs(nested, InPlace("nested"))
    /\ delivering = NoDelivery => nested = <<>>

OwnedTask ==
    /\ \A b \in Task : OwnsMsgs(taskBuffer[b], Ids(taskBuffer[b]))
    /\ \A b, c \in Task : b # c => Ids(taskBuffer[b]) \cap Ids(taskBuffer[c]) = {}
    /\ InPlace("task") = UNION {Ids(taskBuffer[b]) : b \in Task}

OwnedDelivering ==
    \A x \in Publication : place[x] = "delivering" <=> delivering.event = x

\* A message on its way keeps its permit; one that is gone was handled.
PermitInv ==
    /\ \A x \in Publication : x \in permits <=> place[x] \notin {"unused", "gone"}
    /\ \A e \in Event : place[e] = "gone" => outcome[e] # "none"
    /\ \A b \in Task : place[b] # "attached"

\* A lineage is named after something that was emitted.
LineageInv ==
    /\ \A p \in Pending : lineage[p] = p
    /\ \A x \in Publication : lineage[x] \in Publication
    /\ \A x \in Publication : place[x] # "unused" => place[lineage[x]] # "unused"
    /\ \A x \in Publication : place[x] = "unused" => lineage[x] = x
    /\ \A e \in Event : foreign[e] # None => place[foreign[e].owner] # "unused"
    /\ \A e \in Event : place[e] = "attached" =>
          foreign[e] # None /\ (foreign[e].stage = "task" => lineage[e] = e)
    /\ delivering # NoDelivery => lineage[delivering.event] \in active

\* A task that can still emit, or has emitted, has not been released.
TaskInv ==
    /\ \A b \in Task :
          task[b] = "running" \/ taskBuffer[b] # <<>> => place[b] \in {"queue", "nested", "stack"}
    /\ \A b \in Task : task[b] = "none" => place[b] = "unused"
    /\ \A j \in DOMAIN stack : stack[j].op = "release" =>
          task[stack[j].id] # "running" /\ taskBuffer[stack[j].id] = <<>>

\* A pending handle is alive until its single CompletePending is received.
PendingInv ==
    /\ \A p \in Pending : p \in permits <=> pending[p] \in {"registered", "released"}
    /\ \A p \in Pending : p \in permits => p \in active \/ \E j \in DOMAIN queue : RegisterAt(j, p)
    /\ \A p \in Pending : \A j \in DOMAIN queue : CompleteAt(j, p) => pending[p] = "released"
    /\ \A p \in Pending : \A i, j \in DOMAIN queue :
          CompleteAt(i, p) /\ CompleteAt(j, p) => i = j

\* What the histories of a flush can hold.
HistoryInv ==
    \A f \in Flush :
        /\ flush[f] = "idle" => owed[f] = {}
        /\ \A x \in owed[f] \cap Publication : place[x] # "unused"
        /\ \A p \in owed[f] \cap Pending : pending[p] # "none" /\ mode[f] = "all"
        /\ \A l \in atCall[f] \cap Publication : place[l] # "unused"
        /\ flush[f] # "waiting" => owed[f] \cap permits = {}

\* The events of b are handled before the flush at position i is reached.
TaskAhead(b, i) ==
    place[b] \in {"stack", "nested"} \/ \E j \in DOMAIN queue : j < i /\ QueuedAt(j, b)

\* Why the flush f at position i of the channel will not miss x.
SafeQueued(f, i, x) ==
    \/ /\ x \in Pending
       /\ x \in active \/ \E j \in DOMAIN queue : j < i /\ RegisterAt(j, x)
    \/ /\ x \in Publication
       /\ \/ place[x] \in {"stack", "delivering", "nested"}
          \/ \E j \in DOMAIN queue : j < i /\ QueuedAt(j, x)
          \/ lineage[x] \in active
          \/ \E b \in Task : /\ x \in Ids(taskBuffer[b])
                             /\ \/ TaskAhead(b, i)
                                \/ lineage[b] \in active /\ lineage[x] \notin atCall[f]
          \/ /\ lineage[x] \notin atCall[f] /\ place[x] = "queue"
             /\ \E p \in owed[f] \cap permits \cap Pending :
                  \/ pending[p] = "registered"
                  \/ \E j, k \in DOMAIN queue : j < k /\ QueuedAt(j, x) /\ CompleteAt(k, p)

\* x is handled before the barrier of b is released.
UnderRelease(b, x) ==
    \E m \in DOMAIN stack :
        /\ stack[m].op = "release" /\ stack[m].id = b
        /\ delivering.event = x \/ \E n \in DOMAIN stack : n < m /\ StackAt(n, x)

\* Why the deferred flush f, waiting for the lineages ls, does not miss x.
SafeDeferred(f, ls, x) ==
    \/ lineage[x] \in ls
    \/ /\ x \in Publication /\ lineage[x] \notin atCall[f]
       /\ \/ \E b \in Task :
               /\ b \in permits /\ lineage[b] \in ls
               /\ x \in Ids(taskBuffer[b]) \/ UnderRelease(b, x)
          \/ \E p \in permits \cap Pending \cap ls :
               \/ pending[p] = "registered" /\ place[x] \in {"queue", "stack", "delivering"}
               \/ \E k \in DOMAIN queue :
                    /\ CompleteAt(k, p)
                    /\ \/ place[x] \in {"stack", "delivering"}
                       \/ \E j \in DOMAIN queue : j < k /\ QueuedAt(j, x)

\* A foreign thread took its permit for the buffer of the running task b
\* before the flush f was called.
AttachedBefore(f, b) ==
    /\ task[b] = "running"
    /\ \E e \in Event : /\ place[e] = "attached" /\ e \in atCall[f]
                       /\ foreign[e].stage = "task" /\ foreign[e].owner = b

\* Nothing f owes will be missed: by the flush at position i of the channel, or by
\* the deferred flush that waits for the lineages ls.
QueuedSafe(f, i) ==
    /\ flush[f] # "idle"
    /\ \A x \in owed[f] \cap permits : SafeQueued(f, i, x)
    /\ \A b \in Task : AttachedBefore(f, b) => TaskAhead(b, i)

DeferredSafe(f, ls) ==
    /\ flush[f] # "idle"
    /\ \A x \in owed[f] \cap permits : SafeDeferred(f, ls, x)
    /\ \A b \in Task : ~AttachedBefore(f, b)

QueuedFlushInv ==
    \A i \in DOMAIN queue : \A f \in Flush : FlushAt(i, f) => QueuedSafe(f, i)

DeferredFlushInv ==
    \A i \in DOMAIN pendingFlushes :
        DeferredSafe(pendingFlushes[i].flush, pendingFlushes[i].lineages)

\* Together they are inductive, and imply FlushCovers.
FlushInv ==
    /\ OwnedQueue /\ OwnedStack /\ OwnedNested /\ OwnedTask /\ OwnedDelivering
    /\ PermitInv /\ LineageInv /\ TaskInv /\ PendingInv /\ HistoryInv
    /\ QueuedFlushInv /\ DeferredFlushInv

\* What a delivery in progress may show: past the transform not the raw event of one,
\* and to subscribers nothing that sanitizers should have seen.
Shown(d) ==
    /\ d.stage \in {"inject", "sanitize", "subscribe"} /\ d.view = "raw" => d.event \notin Transformed
    /\ d.stage = "subscribe" /\ d.view \in {"raw", "transformed"} => d.event \notin Guarded

ShownInv == Shown(delivering) /\ FailClosed

\* The flush calls that wait are in the channel q or deferred in pf, each once, and
\* behind those that were called before them.
FlushIn(q, i, f) == i \in DOMAIN q /\ q[i].kind = "flush" /\ q[i].id = f

Deferred(pf, i, f) == i \in DOMAIN pf /\ pf[i].flush = f

InTurn(q, pf, fl, ah) ==
    /\ \A f \in Flush : fl[f] = "waiting" =>
          (\E i \in DOMAIN q : FlushIn(q, i, f)) \/ (\E i \in DOMAIN pf : Deferred(pf, i, f))
    /\ \A f \in Flush : \A i \in DOMAIN q : FlushIn(q, i, f) =>
          fl[f] = "waiting" /\ (\A j \in DOMAIN q : FlushIn(q, j, f) => i = j)
    /\ \A f \in Flush : \A i \in DOMAIN pf : Deferred(pf, i, f) =>
          fl[f] = "waiting" /\ (\A j \in DOMAIN pf : Deferred(pf, j, f) => i = j)
                           /\ (\A j \in DOMAIN q : ~FlushIn(q, j, f))
    /\ \A f, g \in Flush : g \in ah[f] => fl[g] # "idle"
    /\ \A f, g \in Flush : g \in ah[f] /\ fl[g] = "waiting" =>
          /\ \A i \in DOMAIN pf : Deferred(pf, i, f) => \E j \in DOMAIN pf : j < i /\ Deferred(pf, j, g)
          /\ \A i \in DOMAIN q : FlushIn(q, i, f) =>
                \/ \E j \in DOMAIN pf : Deferred(pf, j, g)
                \/ \E j \in DOMAIN q : j < i /\ FlushIn(q, j, g)

FlushTurnInv == InTurn(queue, pendingFlushes, flush, ahead)

\* Publications the dispatcher has received and not handled.
InHand == InPlace("stack") \cup InPlace("delivering") \cup InPlace("nested")

\* The publications in the channel q are in the order of their positions t.
QueueTurns(q, t) ==
    \A i, j \in DOMAIN q :
        /\ i < j /\ q[i].kind \in PublicationKinds /\ q[j].kind \in PublicationKinds
        => t[q[i].id] <= t[q[j].id]

\* What is in hand belongs to one position, and nothing in the channel to an earlier one.
HandTurns ==
    /\ served <= sends
    /\ \A x \in Publication : turn[x] <= sends
    /\ \A x \in InHand : served <= turn[x]
    /\ \A x, y \in InHand : turn[x] = turn[y]
    /\ \A y \in InPlace("queue") : served <= turn[y] /\ \A x \in InHand : turn[x] <= turn[y]

\* The events in the buffer of a task belong to the position of the task.
TaskTurns(tb, t) == \A b \in Task : \A x \in Ids(tb[b]) : t[x] = t[b]

TurnInv == QueueTurns(queue, turn) /\ HandTurns /\ TaskTurns(taskBuffer, turn)
==============================================================================
