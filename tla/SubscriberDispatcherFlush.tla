---------------------- MODULE SubscriberDispatcherFlush ----------------------
(***************************************************************************)
(* A flush is acknowledged only when all it is owed was handled: every     *)
(* step keeps the rest of FlushInv. Where a flush waits, in the channel or *)
(* among the deferred ones, each publication it is owed is safe from being *)
(* missed, and a step keeps it so or covers what it adds.                  *)
(***************************************************************************)
EXTENDS SubscriberDispatcherProofs

-----------------------------------------------------------------------------
(* Where messages and permits are *)

\* Where messages and permits are, read off the ownership invariants.
Owners ==
    /\ \A x \in Publication : x \in permits <=> place[x] \notin {"unused", "gone"}
    /\ \A x \in Publication : place[x] = "queue" => \E j \in DOMAIN queue : QueuedAt(j, x)
    /\ \A x \in Publication : place[x] = "stack" => stack # <<>>
    /\ \A x \in Publication : place[x] = "nested" => delivering # NoDelivery
    /\ \A x \in Publication : place[x] = "delivering" <=> delivering.event = x
    /\ \A x \in Publication : place[x] = "task" => \E b \in Task : x \in Ids(taskBuffer[b])
    /\ \A b \in Task : b \in permits => place[b] \in {"queue", "nested", "stack"}
    /\ \A b \in Task : task[b] = "running" => b \in permits
    /\ \A b \in Task : \A x \in Ids(taskBuffer[b]) : x \in Event /\ place[x] = "task" /\ b \in permits
    /\ \A b \in Task : \A m \in DOMAIN stack :
          stack[m].op = "release" /\ stack[m].id = b => b \in permits

\* They follow from the inductive invariants.
LEMMA OwnersKnown ==
    ASSUME TypeOK, OwnershipInv
    PROVE  Owners
<1> USE DEF OwnershipInv, Own
<1>1. \A x \in Publication : x \in permits <=> place[x] \notin {"unused", "gone"}
  BY Zenon DEF PermitInv
<1>2. \A x \in Publication : place[x] = "queue" => \E j \in DOMAIN queue : QueuedAt(j, x)
  BY Zenon DEF OwnedQueue, OwnsMsgs, InPlace, QueuedAt
<1>3. \A x \in Publication : place[x] = "stack" => \E j \in DOMAIN stack : TRUE
  BY Zenon DEF OwnedStack, OwnsFrames, InPlace
<1>4. \A x \in Publication : place[x] = "nested" => \E j \in DOMAIN nested : TRUE
  BY Zenon DEF OwnedNested, OwnsMsgs, InPlace
<1>5. \A x \in Publication : place[x] = "delivering" <=> delivering.event = x
  BY Zenon DEF OwnedDelivering
<1>6. DOMAIN <<>> = {}
  OBVIOUS
<1>7. \A x \in Publication : place[x] = "stack" => stack # <<>>
  BY Zenon, <1>3, <1>6
<1>8. \A x \in Publication : place[x] = "nested" => delivering # NoDelivery
  BY Zenon, <1>4, <1>6 DEF OwnedNested
<1>9. \A x \in Publication : place[x] = "task" <=> \E b \in Task : x \in Ids(taskBuffer[b])
  <2>1. InPlace("task") = UNION {Ids(taskBuffer[b]) : b \in Task}
    BY Zenon DEF OwnedTask
  <2> QED BY Zenon, <2>1 DEF InPlace
<1>10. ASSUME NEW b \in Task PROVE b \in Publication /\ b \notin Event /\ b # None
  BY Zenon, DisjointIds DEF Publication
<1>11. \A b \in Task : task[b] = "running" \/ taskBuffer[b] # <<>> => b \in permits
  <2>1. \A b \in Task : task[b] = "running" \/ taskBuffer[b] # <<>> =>
          place[b] \in {"queue", "nested", "stack"}
    BY Zenon DEF TaskInv
  <2>2. \A b \in Task : b \in permits <=> place[b] \notin {"unused", "gone"}
    BY Zenon, <1>1, <1>10
  <2> QED BY <2>1, <2>2
<1>12. ASSUME NEW b \in Task, NEW x \in Ids(taskBuffer[b])
       PROVE  x \in Event /\ place[x] = "task" /\ b \in permits
  <2>1. taskBuffer[b] \in Seq(DeliverMsg)
    BY Zenon DEF TypeOK
  <2>2. \A i \in DOMAIN taskBuffer[b] : taskBuffer[b][i].id \in Event
    <3>1. \A m \in DeliverMsg : m.id \in Event
      BY DEF DeliverMsg
    <3> QED BY Zenon, <2>1, <3>1, SeqLen, SeqElement
  <2>3. x \in Event /\ taskBuffer[b] # <<>>
    BY Zenon, <1>6, <2>2 DEF Ids
  <2> QED BY Zenon, <1>9, <1>11, <2>3 DEF Publication
<1>13. ASSUME NEW b \in Task, b \in permits PROVE place[b] \in {"queue", "nested", "stack"}
  <2>1. place[b] \in Places /\ place[b] \notin {"unused", "gone"}
    BY Zenon, <1>1, <1>10, <1>13 DEF TypeOK
  <2>2. place[b] # "attached"
    BY Zenon DEF PermitInv
  <2>3. place[b] # "task"
    BY Zenon, <1>9, <1>10, <1>12
  <2>4. place[b] # "delivering"
    <3>1. delivering.event \in Event \cup {None}
      BY DEF TypeOK, Delivery, NoDelivery
    <3> QED BY Zenon, <1>5, <1>10, <3>1
  <2> QED BY <2>1, <2>2, <2>3, <2>4 DEF Places
<1>14. ASSUME NEW b \in Task, NEW m \in DOMAIN stack, stack[m].op = "release", stack[m].id = b
       PROVE  b \in permits
  <2>1. stack[m].op # "finish"
    BY <1>14
  <2>2. place[b] = "stack"
    BY Zenon, <1>14, <2>1 DEF OwnedStack, OwnsFrames, InPlace
  <2> QED BY <1>1, <1>10, <2>2
<1> HIDE DEF OwnershipInv, Own
<1> QED BY Zenon, <1>1, <1>2, <1>5, <1>7, <1>8, <1>9, <1>11, <1>12, <1>13, <1>14 DEF Owners

-----------------------------------------------------------------------------
(* What a step leaves to the flushes that wait *)

\* The channel loses its first d messages, which are dealt with, and only then.
ChannelKept(d) ==
    /\ \A j \in DOMAIN queue : j > d => j - d \in DOMAIN queue' /\ queue'[j - d] = queue[j]
    /\ d # 0 => stack = <<>> /\ delivering = NoDelivery
    /\ \A j \in DOMAIN queue : j <= d =>
          /\ queue[j].kind \in PublicationKinds => place'[queue[j].id] = "stack"
          /\ queue[j].kind = "register" /\ queue[j].id \in permits' => queue[j].id \in active'
          /\ queue[j].kind = "complete" => queue[j].id \notin permits'
    /\ \A p \in Pending \cap permits :
          p \in permits' \/ \E j \in DOMAIN queue : j <= d /\ CompleteAt(j, p)

\* What holds its permit stays on its lineage and moves onward.
PermitsKept ==
    /\ \A x \in permits \cap permits' :
          lineage'[x] = lineage[x] /\ (lineage[x] \in active => lineage[x] \in active')
    /\ \A x \in Publication \cap permits \cap permits' :
          place[x] = "attached" \/ Onward(place[x], place'[x])

\* The events of a task stay ahead of its release.
BuffersKept ==
    /\ \A b \in Task : \A x \in Ids(taskBuffer[b]) \cap permits' :
          x \in Ids(taskBuffer'[b]) \/ (place'[x] = "stack" /\ UnderRelease(b, x)')
    /\ \A b \in Task : \A x \in Publication \cap permits' : UnderRelease(b, x) => UnderRelease(b, x)'

\* A managed call that is released is completed behind all that is in the channel.
CallsKept ==
    \A p \in Pending \cap permits : pending[p] = "registered" =>
        \/ pending'[p] = "registered"
        \/ \E k \in DOMAIN queue' : CompleteAt(k, p)' /\ \A j \in DOMAIN queue' : j = k \/ j < k

\* The flush f is owed nothing less, and no thread attaches before it any more.
HistoryKept(f) ==
    /\ atCall'[f] = atCall[f] /\ owed[f] \subseteq owed'[f]
    /\ \A b \in Task : AttachedBefore(f, b)' => AttachedBefore(f, b)

Kept(d) == ChannelKept(d) /\ PermitsKept /\ BuffersKept /\ CallsKept

\* The context in which the lemmas below look at a step.
Around == TypeOK /\ TypeOK' /\ OwnershipInv /\ Owners /\ Owners'

\* Where a publication that keeps its permit can be after a step.
LEMMA PlaceKept ==
    ASSUME Around, PermitsKept, NEW x \in Publication, x \in permits, x \in permits'
    PROVE  /\ place[x] = "queue" => place'[x] = "queue" \/ place'[x] = "stack"
           /\ place[x] \in {"stack", "delivering"} => place'[x] \in {"stack", "delivering"}
           /\ place[x] = "nested" => place'[x] \in {"nested", "stack"}
           /\ place[x] \in {"stack", "nested"} /\ x \in Task => place'[x] \in {"stack", "nested"}
<1>1. place[x] = "attached" \/ Onward(place[x], place'[x])
  BY Zenon DEF PermitsKept
<1>2. place'[x] \notin {"unused", "gone"}
  BY Zenon DEF Around, Owners
<1>3. x \in Task => place'[x] \in {"queue", "nested", "stack"}
  BY Zenon DEF Around, Owners
<1> QED BY <1>1, <1>2, <1>3 DEF Onward

\* Positions of the channel are natural numbers from one.
LEMMA PositionsNat ==
    ASSUME Around, NEW j \in DOMAIN queue
    PROVE  j \in Nat /\ j >= 1
<1>1. queue \in Seq(Message)
  BY Zenon DEF Around, TypeOK
<1> QED BY <1>1

\* A message of the channel after a step: closer to its head by d.
LEMMA ShiftedAt ==
    ASSUME Around, NEW d \in {0, 1}, ChannelKept(d), NEW j \in DOMAIN queue, j > d
    PROVE  /\ j \in Nat /\ j - d \in DOMAIN queue'
           /\ \A x : QueuedAt(j, x) => QueuedAt(j - d, x)'
           /\ \A x : RegisterAt(j, x) => RegisterAt(j - d, x)'
           /\ \A x : CompleteAt(j, x) => CompleteAt(j - d, x)'
<1>1. j \in Nat
  BY PositionsNat
<1>2. j - d \in DOMAIN queue' /\ queue'[j - d] = queue[j]
  BY Zenon DEF ChannelKept
<1> QED BY Zenon, <1>1, <1>2 DEF QueuedAt, RegisterAt, CompleteAt

\* A task that is ahead of a flush stays ahead of it.
LEMMA AheadKept ==
    ASSUME Around, NEW d \in {0, 1}, Kept(d), NEW b \in Task, b \in permits, b \in permits',
           NEW i \in DOMAIN queue, i > d, TaskAhead(b, i)
    PROVE  TaskAhead(b, i - d)'
<1>1. b \in Publication /\ i \in Nat
  BY Zenon, PositionsNat DEF Publication
<1>2. CASE place[b] \in {"stack", "nested"}
  BY Zenon, <1>1, <1>2, PlaceKept DEF Kept, TaskAhead
<1>3. ASSUME NEW j \in DOMAIN queue, j < i, QueuedAt(j, b) PROVE TaskAhead(b, i - d)'
  <2>0. j \in Nat
    BY Zenon, PositionsNat
  <2>1. CASE j > d
    <3>1. j - d \in DOMAIN queue' /\ QueuedAt(j - d, b)'
      BY Zenon, <1>3, <2>1, ShiftedAt DEF Kept
    <3>2. j - d < i - d
      BY <1>1, <1>3, <2>0
    <3> QED BY Zenon, <3>1, <3>2 DEF TaskAhead
  <2>2. CASE j <= d
    <3>1. place'[b] = "stack"
      BY Zenon, <1>3, <2>2 DEF Kept, ChannelKept, QueuedAt
    <3> QED BY Zenon, <3>1 DEF TaskAhead
  <2> QED BY <2>0, <2>1, <2>2
<1> QED BY Zenon, <1>2, <1>3 DEF TaskAhead

\* A managed call whose completion is in the channel is still on its way, unless that
\* is the message received.
LEMMA CallAlive ==
    ASSUME Around, NEW d \in {0, 1}, Kept(d), NEW p \in Pending, p \in permits,
           pending[p] = "registered" \/ \E k \in DOMAIN queue : k > d /\ CompleteAt(k, p)
    PROVE  p \in permits'
<1> SUFFICES ASSUME NEW j \in DOMAIN queue, j <= d, CompleteAt(j, p)
             PROVE  FALSE
  BY Zenon DEF Kept, ChannelKept
<1>1. pending[p] = "released" /\ \A k \in DOMAIN queue : CompleteAt(k, p) => k = j
  BY Zenon DEF Around, OwnershipInv, PendingInv
<1>2. \A k \in DOMAIN queue : k \in Nat
  BY Zenon, PositionsNat
<1>3. CASE pending[p] = "registered"
  BY <1>1, <1>3
<1>4. ASSUME NEW k \in DOMAIN queue, k > d, CompleteAt(k, p) PROVE FALSE
  BY <1>1, <1>2, <1>4
<1> QED BY Zenon, <1>3, <1>4

\* A publication that a managed call sent stays ahead of the completion of the call.
LEMMA BeforeCompletion ==
    ASSUME Around, NEW d \in {0, 1}, Kept(d), NEW p \in Pending, p \in permits,
           NEW x \in Publication, x \in permits, x \in permits', place[x] = "queue",
           \/ pending[p] = "registered"
           \/ \E j, k \in DOMAIN queue : j < k /\ QueuedAt(j, x) /\ CompleteAt(k, p)
    PROVE  /\ p \in permits' /\ place'[x] \in {"queue", "stack"}
           /\ \/ pending'[p] = "registered"
              \/ \E k \in DOMAIN queue' :
                    /\ CompleteAt(k, p)'
                    /\ place'[x] = "stack" \/ \E j \in DOMAIN queue' : j < k /\ QueuedAt(j, x)'
<1>0. \A j \in DOMAIN queue : j \in Nat /\ j >= 1
  BY Zenon, PositionsNat
<1>1. place'[x] = "queue" \/ place'[x] = "stack"
  BY Zenon, PlaceKept DEF Kept
<1>2. CASE pending[p] = "registered"
  <2>1. p \in permits'
    BY Zenon, <1>2, CallAlive
  <2>2. ASSUME place'[x] = "queue", NEW k \in DOMAIN queue', CompleteAt(k, p)',
               \A j \in DOMAIN queue' : j = k \/ j < k
        PROVE  \E j \in DOMAIN queue' : j < k /\ QueuedAt(j, x)'
    <3>1. PICK j \in DOMAIN queue' : QueuedAt(j, x)'
      BY Zenon, <2>2 DEF Around, Owners
    <3>2. j # k
      BY <2>2, <3>1 DEF QueuedAt, CompleteAt, PublicationKinds
    <3> QED BY Zenon, <2>2, <3>1, <3>2
  <2>3. \/ pending'[p] = "registered"
        \/ \E k \in DOMAIN queue' : CompleteAt(k, p)' /\ \A j \in DOMAIN queue' : j = k \/ j < k
    BY Zenon, <1>2 DEF Kept, CallsKept
  <2> QED BY Zenon, <1>1, <2>1, <2>2, <2>3
<1>3. ASSUME NEW j \in DOMAIN queue, NEW k \in DOMAIN queue, j < k, QueuedAt(j, x), CompleteAt(k, p)
      PROVE  /\ p \in permits'
             /\ \E n \in DOMAIN queue' :
                   /\ CompleteAt(n, p)'
                   /\ place'[x] = "stack" \/ \E m \in DOMAIN queue' : m < n /\ QueuedAt(m, x)'
  <2>1. k > d
    BY <1>0, <1>3
  <2>2. p \in permits' /\ k - d \in DOMAIN queue' /\ CompleteAt(k - d, p)'
    BY Zenon, <1>3, <2>1, CallAlive, ShiftedAt DEF Kept
  <2>3. CASE j > d
    <3>1. j - d \in DOMAIN queue' /\ QueuedAt(j - d, x)'
      BY Zenon, <1>3, <2>3, ShiftedAt DEF Kept
    <3>2. j - d < k - d
      BY <1>0, <1>3
    <3> QED BY Zenon, <2>2, <3>1, <3>2
  <2>4. CASE j <= d
    BY Zenon, <1>3, <2>2, <2>4 DEF Kept, ChannelKept, QueuedAt
  <2> QED BY <1>0, <2>3, <2>4
<1> QED BY Zenon, <1>1, <1>2, <1>3

\* A flush in the channel still does not miss what it would not have missed.
LEMMA QueuedCarry ==
    ASSUME Around, NEW d \in {0, 1}, Kept(d), NEW f \in Flush, HistoryKept(f),
           NEW i \in DOMAIN queue, i > d, NEW x \in owed[f], x \in permits, x \in permits',
           SafeQueued(f, i, x)
    PROVE  SafeQueued(f, i - d, x)'
<1>0. i \in Nat /\ \A j \in DOMAIN queue : j \in Nat /\ j >= 1
  BY Zenon, PositionsNat
<1>1. /\ lineage'[x] = lineage[x] /\ (lineage[x] \in active => lineage[x] \in active')
      /\ atCall'[f] = atCall[f] /\ owed[f] \subseteq owed'[f]
  BY Zenon DEF Kept, PermitsKept, HistoryKept
<1>2. CASE x \in Pending /\ x \in active
  <2>1. lineage[x] = x
    BY Zenon, <1>2 DEF Around, OwnershipInv, LineageInv
  <2> QED BY Zenon, <1>1, <1>2, <2>1 DEF SafeQueued
<1>3. ASSUME x \in Pending, NEW j \in DOMAIN queue, j < i, RegisterAt(j, x)
      PROVE  SafeQueued(f, i - d, x)'
  <2>1. CASE j > d
    <3>1. j - d \in DOMAIN queue' /\ RegisterAt(j - d, x)'
      BY Zenon, <1>3, <2>1, ShiftedAt DEF Kept
    <3>2. j - d < i - d
      BY <1>0, <1>3
    <3> QED BY Zenon, <1>3, <3>1, <3>2 DEF SafeQueued
  <2>2. CASE j <= d
    <3>1. x \in active'
      BY Zenon, <1>3, <2>2 DEF Kept, ChannelKept, RegisterAt
    <3> QED BY Zenon, <1>3, <3>1 DEF SafeQueued
  <2> QED BY <1>0, <2>1, <2>2
<1>4. CASE x \in Publication /\ place[x] \in {"stack", "delivering", "nested"}
  <2>1. place'[x] \in {"stack", "delivering", "nested"}
    <3>1. /\ place[x] \in {"stack", "delivering"} => place'[x] \in {"stack", "delivering"}
          /\ place[x] = "nested" => place'[x] \in {"nested", "stack"}
      BY Zenon, <1>4, PlaceKept DEF Kept
    <3> QED BY <1>4, <3>1
  <2> QED BY Zenon, <1>4, <2>1 DEF SafeQueued
<1>5. ASSUME x \in Publication, NEW j \in DOMAIN queue, j < i, QueuedAt(j, x)
      PROVE  SafeQueued(f, i - d, x)'
  <2>1. CASE j > d
    <3>1. j - d \in DOMAIN queue' /\ QueuedAt(j - d, x)'
      BY Zenon, <1>5, <2>1, ShiftedAt DEF Kept
    <3>2. j - d < i - d
      BY <1>0, <1>5
    <3> QED BY Zenon, <1>5, <3>1, <3>2 DEF SafeQueued
  <2>2. CASE j <= d
    <3>1. place'[x] = "stack"
      BY Zenon, <1>5, <2>2 DEF Kept, ChannelKept, QueuedAt
    <3> QED BY Zenon, <1>5, <3>1 DEF SafeQueued
  <2> QED BY <1>0, <2>1, <2>2
<1>6. CASE x \in Publication /\ lineage[x] \in active
  BY Zenon, <1>1, <1>6 DEF SafeQueued
<1>7. ASSUME x \in Publication, NEW b \in Task, x \in Ids(taskBuffer[b]),
             TaskAhead(b, i) \/ (lineage[b] \in active /\ lineage[x] \notin atCall[f])
      PROVE  SafeQueued(f, i - d, x)'
  <2>1. CASE place'[x] = "stack"
    BY Zenon, <1>7, <2>1 DEF SafeQueued
  <2>2. CASE x \in Ids(taskBuffer'[b])
    <3>1. b \in permits /\ b \in permits'
      BY Zenon, <1>7, <2>2 DEF Around, Owners
    <3>2. CASE TaskAhead(b, i)
      <4>1. TaskAhead(b, i - d)'
        BY Zenon, <3>1, <3>2, AheadKept
      <4> QED BY Zenon, <1>7, <2>2, <4>1 DEF SafeQueued
    <3>3. CASE lineage[b] \in active /\ lineage[x] \notin atCall[f]
      <4>1. lineage'[b] \in active' /\ lineage'[x] \notin atCall'[f]
        BY Zenon, <1>1, <3>1, <3>3 DEF Kept, PermitsKept
      <4> QED BY Zenon, <1>7, <2>2, <4>1 DEF SafeQueued
    <3> QED BY Zenon, <1>7, <3>2, <3>3
  <2> QED BY Zenon, <1>7, <2>1, <2>2 DEF Kept, BuffersKept
<1>8. ASSUME x \in Publication, lineage[x] \notin atCall[f], place[x] = "queue",
             NEW p \in owed[f], p \in permits, p \in Pending,
             \/ pending[p] = "registered"
             \/ \E j, k \in DOMAIN queue : j < k /\ QueuedAt(j, x) /\ CompleteAt(k, p)
      PROVE  SafeQueued(f, i - d, x)'
  <2>1. /\ p \in permits' /\ place'[x] \in {"queue", "stack"}
        /\ \/ pending'[p] = "registered"
           \/ \E k \in DOMAIN queue' :
                 /\ CompleteAt(k, p)'
                 /\ place'[x] = "stack" \/ \E j \in DOMAIN queue' : j < k /\ QueuedAt(j, x)'
    BY Zenon, <1>8, BeforeCompletion
  <2>2. p \in owed'[f] /\ lineage'[x] \notin atCall'[f]
    BY Zenon, <1>1, <1>8
  <2> QED BY Zenon, <1>8, <2>1, <2>2 DEF SafeQueued
<1> QED BY ZenonT(60), <1>2, <1>3, <1>4, <1>5, <1>6, <1>7, <1>8 DEF SafeQueued

\* A deferred flush still does not miss what it would not have missed.
LEMMA DeferredCarry ==
    ASSUME Around, NEW d \in {0, 1}, Kept(d), NEW f \in Flush, HistoryKept(f), NEW ls,
           NEW x \in owed[f], x \in permits, x \in permits', SafeDeferred(f, ls, x)
    PROVE  SafeDeferred(f, ls, x)'
<1>1. lineage'[x] = lineage[x] /\ atCall'[f] = atCall[f]
  BY Zenon DEF Kept, PermitsKept, HistoryKept
<1>2. CASE lineage[x] \in ls
  BY Zenon, <1>1, <1>2 DEF SafeDeferred
<1>3. ASSUME x \in Publication, lineage[x] \notin atCall[f], NEW b \in Task, b \in permits,
             lineage[b] \in ls, x \in Ids(taskBuffer[b]) \/ UnderRelease(b, x)
      PROVE  SafeDeferred(f, ls, x)'
  <2>1. x \in Ids(taskBuffer'[b]) \/ UnderRelease(b, x)'
    BY Zenon, <1>3 DEF Kept, BuffersKept
  <2>2. b \in permits'
    <3>1. CASE x \in Ids(taskBuffer'[b])
      BY Zenon, <3>1 DEF Around, Owners
    <3>2. CASE UnderRelease(b, x)'
      BY Zenon, <3>2 DEF Around, Owners, UnderRelease
    <3> QED BY Zenon, <2>1, <3>1, <3>2
  <2>3. lineage'[b] \in ls
    BY Zenon, <1>3, <2>2 DEF Kept, PermitsKept
  <2> QED BY Zenon, <1>1, <1>3, <2>1, <2>2, <2>3 DEF SafeDeferred
<1>4. ASSUME x \in Publication, lineage[x] \notin atCall[f],
             NEW p \in permits, p \in Pending, p \in ls,
             \/ pending[p] = "registered" /\ place[x] \in {"queue", "stack", "delivering"}
             \/ \E k \in DOMAIN queue :
                  /\ CompleteAt(k, p)
                  /\ \/ place[x] \in {"stack", "delivering"}
                     \/ \E j \in DOMAIN queue : j < k /\ QueuedAt(j, x)
      PROVE  SafeDeferred(f, ls, x)'
  <2>1. /\ place[x] \in {"stack", "delivering"} => place'[x] \in {"stack", "delivering"}
        /\ \A j \in DOMAIN queue : QueuedAt(j, x) => place[x] = "queue"
    <3>1. \A j \in DOMAIN queue : QueuedAt(j, x) => place[x] = "queue"
      BY Zenon DEF Around, OwnershipInv, Own, OwnedQueue, OwnsMsgs, InPlace, QueuedAt
    <3> QED BY Zenon, <1>4, <3>1, PlaceKept DEF Kept
  <2>2. CASE place[x] \in {"stack", "delivering"}
    <3>1. CASE pending[p] = "registered"
      <4>1. p \in permits'
        BY Zenon, <1>4, <3>1, CallAlive
      <4>2. pending'[p] = "registered" \/ \E k \in DOMAIN queue' : CompleteAt(k, p)'
        BY Zenon, <1>4, <3>1 DEF Kept, CallsKept
      <4>3. place'[x] \in {"queue", "stack", "delivering"}
        BY <2>1, <2>2
      <4> QED BY Zenon, <1>1, <1>4, <2>1, <2>2, <4>1, <4>2, <4>3 DEF SafeDeferred
    <3>2. ASSUME NEW k \in DOMAIN queue, CompleteAt(k, p) PROVE SafeDeferred(f, ls, x)'
      <4>1. stack # <<>> \/ delivering # NoDelivery
        <5>1. place[x] = "stack" => stack # <<>>
          BY Zenon, <1>4 DEF Around, Owners
        <5>2. place[x] = "delivering" => delivering.event = x
          BY Zenon, <1>4 DEF Around, Owners
        <5>3. x # None
          BY Zenon, <1>4, DisjointIds DEF Publication
        <5> QED BY <2>2, <5>1, <5>2, <5>3 DEF NoDelivery
      <4>2. d = 0
        BY Zenon, <4>1 DEF Kept, ChannelKept
      <4>3. k > d
        BY <4>2, PositionsNat
      <4>4. p \in permits' /\ k - d \in DOMAIN queue' /\ CompleteAt(k - d, p)'
        BY Zenon, <1>4, <3>2, <4>3, CallAlive, ShiftedAt DEF Kept
      <4> QED BY Zenon, <1>1, <1>4, <2>1, <2>2, <4>4 DEF SafeDeferred
    <3> QED BY Zenon, <1>4, <3>1, <3>2
  <2>3. ASSUME place[x] = "queue",
               \/ pending[p] = "registered"
               \/ \E j, k \in DOMAIN queue : j < k /\ QueuedAt(j, x) /\ CompleteAt(k, p)
        PROVE  SafeDeferred(f, ls, x)'
    <3>1. /\ p \in permits' /\ place'[x] \in {"queue", "stack"}
          /\ \/ pending'[p] = "registered"
             \/ \E k \in DOMAIN queue' :
                   /\ CompleteAt(k, p)'
                   /\ place'[x] = "stack" \/ \E j \in DOMAIN queue' : j < k /\ QueuedAt(j, x)'
      BY Zenon, <1>4, <2>3, BeforeCompletion
    <3> QED BY Zenon, <1>1, <1>4, <3>1 DEF SafeDeferred
  <2> QED BY Zenon, <1>4, <2>1, <2>2, <2>3
<1> QED BY Zenon, <1>2, <1>3, <1>4 DEF SafeDeferred

\* Where nothing f owes is missed, x will not be missed after the step.
Covered(f, x) ==
    /\ \A i \in DOMAIN queue : QueuedSafe(f, i) => SafeQueued(f, i, x)'
    /\ \A ls : DeferredSafe(f, ls) => SafeDeferred(f, ls, x)'

\* So it is with what f owes beyond what it owed.
NewSafe(f) ==
    \A x \in owed'[f] \cap permits' : x \notin owed[f] \cap permits => Covered(f, x)

\* A flush in the channel misses nothing after a step.
LEMMA QueuedKept ==
    ASSUME Around, NEW d \in {0, 1}, Kept(d), NEW f \in Flush, HistoryKept(f), flush'[f] # "idle",
           d = 0 \/ owed'[f] \cap permits' \subseteq owed[f] \cap permits,
           NewSafe(f), NEW i \in DOMAIN queue, i > d, QueuedSafe(f, i)
    PROVE  QueuedSafe(f, i - d)'
<1>0. i \in Nat
  BY Zenon, PositionsNat
<1>1. ASSUME NEW x \in owed'[f], x \in permits' PROVE SafeQueued(f, i - d, x)'
  <2>1. CASE x \in owed[f] /\ x \in permits
    <3>1. SafeQueued(f, i, x)
      BY Zenon, <2>1 DEF QueuedSafe
    <3> QED BY Zenon, <1>1, <2>1, <3>1, QueuedCarry
  <2>2. CASE x \notin owed[f] \cap permits
    <3>1. d = 0 /\ i - d = i
      BY <1>0, <1>1, <2>2
    <3>2. SafeQueued(f, i, x)'
      BY Zenon, <1>1, <2>2 DEF NewSafe, Covered
    <3> QED BY <3>1, <3>2
  <2> QED BY Zenon, <2>1, <2>2
<1>2. ASSUME NEW b \in Task, AttachedBefore(f, b)' PROVE TaskAhead(b, i - d)'
  <2>1. AttachedBefore(f, b)
    BY Zenon, <1>2 DEF HistoryKept
  <2>2. b \in permits /\ b \in permits'
    BY Zenon, <1>2, <2>1 DEF AttachedBefore, Around, Owners
  <2>3. TaskAhead(b, i)
    BY Zenon, <2>1 DEF QueuedSafe
  <2> QED BY Zenon, <2>2, <2>3, AheadKept
<1> QED BY Zenon, <1>1, <1>2 DEF QueuedSafe

\* Nor does a deferred one.
LEMMA DeferredKept ==
    ASSUME Around, NEW d \in {0, 1}, Kept(d), NEW f \in Flush, HistoryKept(f), flush'[f] # "idle",
           NewSafe(f), NEW ls, DeferredSafe(f, ls)
    PROVE  DeferredSafe(f, ls)'
<1>1. ASSUME NEW x \in owed'[f], x \in permits' PROVE SafeDeferred(f, ls, x)'
  <2>1. CASE x \in owed[f] /\ x \in permits
    <3>1. SafeDeferred(f, ls, x)
      BY Zenon, <2>1 DEF DeferredSafe
    <3> QED BY Zenon, <1>1, <2>1, <3>1, DeferredCarry
  <2>2. CASE x \notin owed[f] \cap permits
    BY Zenon, <1>1, <2>2 DEF NewSafe, Covered
  <2> QED BY Zenon, <2>1, <2>2
<1>2. ASSUME NEW b \in Task PROVE ~AttachedBefore(f, b)'
  BY Zenon DEF HistoryKept, DeferredSafe
<1> QED BY Zenon, <1>1, <1>2 DEF DeferredSafe

-----------------------------------------------------------------------------
(* Steps of the dispatcher thread *)

\* The deferred flushes pf miss nothing after the step.
SafeAfter(pf) ==
    \A i \in DOMAIN pf : \A g \in Flush : \A ls :
        pf[i].flush = g /\ pf[i].lineages = ls => DeferredSafe(g, ls)'

\* complete_ready_flushes acknowledges a flush only when nothing it owes is on its way.
LEMMA ReadySafe ==
    ASSUME NEW pf \in Seq(PendingFlush), NEW reg, NEW fs, CompleteReadyFlushes(pf, reg, fs),
           UNCHANGED lineage, \A p \in Pending : lineage[p] = p, SafeAfter(pf)
    PROVE  /\ DeferredFlushInv'
           /\ \A f \in Flush : flush'[f] = fs[f] \/ (flush'[f] = "ok" /\ owed'[f] \cap permits' = {})
<1>1. PICK n \in 0 .. Len(pf) :
        /\ \A i \in 1 .. n : \A l \in pf[i].lineages : ~\E x \in permits' : lineage[x] = l
        /\ pendingFlushes' = SubSeq(pf, n + 1, Len(pf))
        /\ flush' = [f \in Flush |-> IF \E i \in 1 .. n : pf[i].flush = f THEN "ok" ELSE fs[f]]
  BY Zenon DEF CompleteReadyFlushes
<1>2. /\ \A i \in DOMAIN pendingFlushes' : n + i \in DOMAIN pf /\ pendingFlushes'[i] = pf[n + i]
      /\ \A i \in 1 .. n : i \in DOMAIN pf
  <2>1. \A i \in DOMAIN pendingFlushes' : n + i \in DOMAIN pf /\ pendingFlushes'[i] = pf[n + i]
    BY <1>1, DrainAt
  <2>2. DOMAIN pf = 1 .. Len(pf) /\ Len(pf) \in Nat
    BY Zenon, SeqLen
  <2> QED BY <1>1, <2>1, <2>2
<1>3. \A i \in DOMAIN pf : pf[i].flush \in Flush
  <2>1. \A w \in PendingFlush : w.flush \in Flush
    BY DEF PendingFlush
  <2> QED BY Zenon, <2>1, SeqLen, SeqElement
<1>4. DeferredFlushInv'
  <2> SUFFICES ASSUME NEW i \in DOMAIN pendingFlushes', NEW g, NEW ls,
                      g = pendingFlushes'[i].flush, ls = pendingFlushes'[i].lineages
               PROVE  DeferredSafe(g, ls)'
    BY Zenon DEF DeferredFlushInv
  <2> QED BY Zenon, <1>2, <1>3 DEF SafeAfter
<1>5. ASSUME NEW f \in Flush, NEW i \in 1 .. n, pf[i].flush = f, NEW x \in owed'[f] \cap permits'
      PROVE  FALSE
  <2>1. \A ls : pf[i].lineages = ls => DeferredSafe(f, ls)'
    BY Zenon, <1>2, <1>5 DEF SafeAfter
  <2>2. PICK ls : ls = pf[i].lineages
    OBVIOUS
  <2>3. SafeDeferred(f, ls, x)'
    BY Zenon, <1>5, <2>1, <2>2 DEF DeferredSafe
  <2>4. \A y \in permits' : lineage'[y] \notin ls
    BY Zenon, <1>1, <2>2
  <2> QED BY Zenon, <1>5, <2>3, <2>4 DEF SafeDeferred
<1>6. ASSUME NEW f \in Flush
      PROVE  flush'[f] = fs[f] \/ (flush'[f] = "ok" /\ owed'[f] \cap permits' = {})
  <2>1. CASE \E i \in 1 .. n : pf[i].flush = f
    <3>1. owed'[f] \cap permits' = {}
      BY Zenon, <1>5, <2>1
    <3> QED BY <1>1, <2>1, <3>1
  <2>2. CASE ~\E i \in 1 .. n : pf[i].flush = f
    BY <1>1, <2>2
  <2> QED BY <2>1, <2>2
<1> QED BY Zenon, <1>4, <1>6

\* An event that is handled before a barrier is released stays so until it is handled.
LEMMA UnderKept ==
    ASSUME Around, DispatcherStep, NEW b \in Task, NEW x \in Publication, x \in permits',
           UnderRelease(b, x)
    PROVE  UnderRelease(b, x)'
<1>0. TypeOK /\ Own /\ stack \in Seq(Frame)
  BY Zenon DEF Around, OwnershipInv, TypeOK
<1>1. PICK m \in DOMAIN stack :
        /\ stack[m].op = "release" /\ stack[m].id = b
        /\ delivering.event = x \/ \E n \in DOMAIN stack : n < m /\ StackAt(n, x)
  BY Zenon DEF UnderRelease
<1>2. ~ReceivePublication
  <2>1. SUFFICES ASSUME stack = <<>> PROVE FALSE
    BY Zenon DEF ReceivePublication, Receive
  <2> QED BY <1>1, <2>1
<1>3. PICK pre \in Seq(Frame), s \in Seq(Frame) : StackStep(pre, s)
  BY Zenon, <1>0, <1>2, StackShift
<1>4. PICK k \in Nat :
        /\ k = Len(pre)
        /\ \A j \in DOMAIN s : k + j \in DOMAIN stack' /\ stack'[k + j] = s[j]
        /\ \A j \in DOMAIN pre : j \in DOMAIN stack' /\ stack'[j] = pre[j]
  <2>1. stack' = pre \o s
    BY Zenon, <1>3 DEF StackStep
  <2>2. /\ Len(pre) \in Nat
        /\ \A j \in DOMAIN s : Len(pre) + j \in DOMAIN (pre \o s) /\ (pre \o s)[Len(pre) + j] = s[j]
        /\ \A j \in DOMAIN pre : j \in DOMAIN (pre \o s) /\ (pre \o s)[j] = pre[j]
    BY ConcatAt
  <2> QED BY Zenon, <2>1, <2>2
<1>5. m \in Nat /\ m >= 1 /\ \A n \in DOMAIN stack : n \in Nat /\ n >= 1
  BY <1>0
<1>6. CASE s = stack
  <2>1. /\ k + m \in DOMAIN stack'
        /\ stack'[k + m].op = "release" /\ stack'[k + m].id = b
    BY Zenon, <1>1, <1>4, <1>6
  <2>2. CASE delivering.event = x
    <3>1. place[x] = "delivering" /\ place'[x] \notin {"unused", "gone"}
      BY Zenon, <2>2 DEF Around, Owners
    <3>2. Onward(place[x], place'[x])
      BY Zenon, <1>0, DispatcherMoves
    <3>3. place'[x] = "delivering"
      BY <3>1, <3>2 DEF Onward
    <3>4. delivering'.event = x
      BY Zenon, <3>3 DEF Around, Owners
    <3> QED BY Zenon, <2>1, <3>4 DEF UnderRelease
  <2>3. ASSUME NEW n \in DOMAIN stack, n < m, StackAt(n, x) PROVE UnderRelease(b, x)'
    <3>1. k + n \in DOMAIN stack' /\ StackAt(k + n, x)'
      <4>1. k + n \in DOMAIN stack' /\ stack'[k + n] = stack[n]
        BY <1>4, <1>6
      <4> QED BY <2>3, <4>1 DEF StackAt
    <3>2. k + n < k + m
      BY <1>4, <1>5, <2>3
    <3> QED BY Zenon, <2>1, <3>1, <3>2 DEF UnderRelease
  <2> QED BY Zenon, <1>1, <2>2, <2>3
<1>7. CASE s = Tail(stack) /\ HeadDone(pre)
  <2>1. /\ stack # <<>> /\ delivering.stage = "idle"
        /\ Head(stack).op = "finish" \/ Head(stack).id \notin permits'
             \/ delivering'.event = Head(stack).id
             \/ (k \in DOMAIN pre /\ pre[k].op # "finish" /\ pre[k].id = Head(stack).id)
    BY Zenon, <1>4, <1>7 DEF HeadDone
  <2>2. delivering.event # x
    <3>1. delivering.event = None
      BY Zenon, <1>0, <2>1, InDelivery
    <3> QED BY Zenon, <3>1, DisjointIds DEF Publication
  <2>3. PICK n \in DOMAIN stack : n < m /\ StackAt(n, x)
    BY Zenon, <1>1, <2>2
  <2>4. /\ Head(stack) = stack[1]
        /\ \A j \in DOMAIN stack : j # 1 => j - 1 \in DOMAIN s /\ s[j - 1] = stack[j]
    BY Zenon, <1>0, <1>7, <2>1, TailAt
  <2>5. m # 1
    BY <1>5, <2>3
  <2>6. /\ k + (m - 1) \in DOMAIN stack'
        /\ stack'[k + (m - 1)].op = "release" /\ stack'[k + (m - 1)].id = b
    BY Zenon, <1>1, <1>4, <2>4, <2>5
  <2>7. CASE n # 1
    <3>1. k + (n - 1) \in DOMAIN stack' /\ StackAt(k + (n - 1), x)'
      <4>1. k + (n - 1) \in DOMAIN stack' /\ stack'[k + (n - 1)] = stack[n]
        BY Zenon, <1>4, <2>4, <2>7
      <4> QED BY <2>3, <4>1 DEF StackAt
    <3>2. k + (n - 1) < k + (m - 1)
      BY <1>4, <1>5, <2>3
    <3> QED BY Zenon, <2>6, <3>1, <3>2 DEF UnderRelease
  <2>8. CASE n = 1
    <3>1. Head(stack).op # "finish" /\ Head(stack).id = x
      BY Zenon, <2>3, <2>4, <2>8 DEF StackAt
    <3>2. CASE delivering'.event = x
      BY Zenon, <2>6, <3>2 DEF UnderRelease
    <3>3. CASE k \in DOMAIN pre /\ pre[k].op # "finish" /\ pre[k].id = x
      <4>1. k \in DOMAIN stack' /\ StackAt(k, x)'
        BY Zenon, <1>4, <3>3 DEF StackAt
      <4>2. k < k + (m - 1)
        BY <1>4, <1>5, <2>5
      <4> QED BY Zenon, <2>6, <4>1, <4>2 DEF UnderRelease
    <3> QED BY Zenon, <2>1, <3>1, <3>2, <3>3
  <2> QED BY Zenon, <2>7, <2>8
<1> QED BY Zenon, <1>3, <1>6, <1>7 DEF StackStep

\* recv() returns the publications of a task: they are handled before its release.
LEMMA BufferReleased ==
    ASSUME Around, ReceivePublications, NEW x \in Ids(taskBuffer[Head(stack).id]),
           NEW b \in Task, b = Head(stack).id
    PROVE  place'[x] = "stack" /\ UnderRelease(b, x)'
<1> DEFINE tb == taskBuffer[b]
           hs == HandleFrames(tb)
           rel == [op |-> "release", id |-> b]
           pre == hs \o <<rel>>
<1>1. tb \in Seq(PublicationMsg) /\ stack \in Seq(Frame) /\ stack # <<>>
  <2>1. taskBuffer[b] \in Seq(DeliverMsg) /\ stack \in Seq(Frame)
    BY Zenon DEF Around, TypeOK
  <2>2. stack # <<>>
    BY Zenon DEF ReceivePublications, Step
  <2>3. DeliverMsg \subseteq PublicationMsg
    BY Zenon DEF PublicationMsg
  <2> QED BY <2>1, <2>2, <2>3
<1>2. x \in Publication /\ x \in Ids(tb)
  BY Zenon DEF Around, Owners, Publication
<1>3. stack' = pre \o Tail(stack) /\ place'[x] = "stack"
  <2>1. /\ stack' = HandleFrames(taskBuffer[b]) \o <<[op |-> "release", id |-> b]>> \o Tail(stack)
        /\ Move(Ids(taskBuffer[b]), "stack")
    BY Zenon DEF ReceivePublications
  <2> QED BY Zenon, <1>2, <2>1 DEF Move
<1>4. PICK i \in DOMAIN tb : tb[i].id = x
  BY Zenon, <1>2 DEF Ids
<1>5. hs \in Seq(Frame) /\ i \in DOMAIN hs /\ hs[i] = [op |-> "handle", id |-> x]
  BY Zenon, <1>1, <1>4, HandleFramesType DEF HandleFrames
<1>6. rel \in Frame /\ <<rel>> \in Seq(Frame) /\ DOMAIN <<rel>> = {1} /\ <<rel>>[1] = rel
  BY DEF Frame
<1> HIDE DEF hs, rel, tb
<1>7. /\ pre \in Seq(Frame) /\ i \in DOMAIN pre /\ pre[i] = hs[i]
      /\ Len(hs) \in Nat /\ i \in Nat /\ i <= Len(hs)
      /\ Len(hs) + 1 \in DOMAIN pre /\ pre[Len(hs) + 1] = rel
  BY <1>5, <1>6, ConcatAt
<1> HIDE DEF pre
<1>8. Tail(stack) \in Seq(Frame)
  BY Zenon, <1>1, SeqHeadTail
<1>9. \A j \in DOMAIN pre : j \in DOMAIN (pre \o Tail(stack)) /\ (pre \o Tail(stack))[j] = pre[j]
  BY <1>7, <1>8, ConcatAt
<1>10. \A j \in DOMAIN pre : j \in DOMAIN stack' /\ stack'[j] = pre[j]
  BY Zenon, <1>3, <1>9
<1>11. PICK m \in Nat : m = Len(hs) + 1
  BY <1>7
<1>12. i < m /\ m \in DOMAIN stack' /\ i \in DOMAIN stack'
  BY <1>7, <1>10, <1>11
<1>13. stack'[m].op = "release" /\ stack'[m].id = b
  BY <1>7, <1>10, <1>11 DEF rel
<1>14. StackAt(i, x)'
  <2>1. stack'[i] = [op |-> "handle", id |-> x]
    BY Zenon, <1>5, <1>7, <1>10
  <2> QED BY <1>12, <2>1 DEF StackAt
<1> QED BY Zenon, <1>3, <1>12, <1>13, <1>14 DEF UnderRelease

\* What receiving the head of the channel, or working on the stack, does to the channel
\* and to the permits.
LEMMA DispatcherChannel ==
    ASSUME Around, DispatcherStep
    PROVE  /\ permits' \subseteq permits
           /\ \/ UNCHANGED queue /\ ChannelKept(0)
              \/ queue # <<>> /\ queue' = Tail(queue) /\ ChannelKept(1)
<1>0. TypeOK /\ Own /\ queue \in Seq(Message) /\ stack \in Seq(Frame)
  BY Zenon DEF Around, OwnershipInv, TypeOK
<1>1. \A j \in DOMAIN queue : j \in Nat /\ j >= 1
  BY Zenon, PositionsNat
<1>2. CASE HandleFlush \/ HandleRegisterPending \/ HandleCompletePending \/ ReceivePublication
  <2>1. /\ stack = <<>> /\ delivering.stage = "idle" /\ queue # <<>> /\ queue' = Tail(queue)
    BY Zenon, <1>2 DEF HandleFlush, HandleRegisterPending, HandleCompletePending, ReceivePublication, Receive
  <2>2. Head(queue) = queue[1] /\ queue[1] \in Message
        /\ \A j \in DOMAIN queue : j # 1 => j - 1 \in DOMAIN queue' /\ queue'[j - 1] = queue[j]
    <3>1. 1 \in DOMAIN queue /\ Head(queue) = queue[1]
          /\ \A j \in DOMAIN queue : j # 1 => j - 1 \in DOMAIN queue' /\ queue'[j - 1] = queue[j]
      BY Zenon, <1>0, <2>1, TailAt
    <3>2. queue[1] \in Message
      BY Zenon, <1>0, <3>1, SeqLen, SeqElement
    <3> QED BY Zenon, <3>1, <3>2
  <2>3. delivering = NoDelivery
    BY Zenon, <1>0, <2>1, InDelivery
  <2>4. queue[1].kind \in PublicationKinds => place'[queue[1].id] = "stack"
    <3>1. CASE ReceivePublication
      <4>1. Move({queue[1].id}, "stack") /\ queue[1].kind \in {"deliver", "barrier"}
        BY Zenon, <2>2, <3>1 DEF ReceivePublication, Receive
      <4>2. queue[1].id \in Publication
        BY <2>2, <4>1, MessageKinds DEF Publication
      <4> QED BY Zenon, <4>1, <4>2 DEF Move
    <3>2. CASE HandleFlush \/ HandleRegisterPending \/ HandleCompletePending
      BY <2>2, <3>2 DEF HandleFlush, HandleRegisterPending, HandleCompletePending, Receive, PublicationKinds
    <3> QED BY Zenon, <1>2, <3>1, <3>2
  <2>5. queue[1].kind = "register" /\ queue[1].id \in permits' => queue[1].id \in active'
    <3> SUFFICES ASSUME queue[1].kind = "register", queue[1].id \in permits' PROVE queue[1].id \in active'
      OBVIOUS
    <3>1. HandleRegisterPending
      BY <1>2, <2>2 DEF HandleFlush, HandleCompletePending, ReceivePublication, Receive
    <3>2. lineage[queue[1].id] = queue[1].id
      <4>1. queue[1].id \in Pending
        BY <2>2, MessageKinds
      <4> QED BY Zenon, <4>1 DEF Around, OwnershipInv, LineageInv
    <3> QED BY Zenon, <1>0, <2>2, <3>1, <3>2, DispatcherActive
  <2>6. /\ queue[1].kind = "complete" => queue[1].id \notin permits'
        /\ permits' = permits \/ (queue[1].kind = "complete" /\ permits' = permits \ {queue[1].id})
    <3>1. CASE HandleCompletePending
      BY <2>2, <3>1 DEF HandleCompletePending, Receive
    <3>2. CASE HandleFlush \/ HandleRegisterPending \/ ReceivePublication
      BY <2>2, <3>2 DEF HandleFlush, HandleRegisterPending, ReceivePublication, Receive, permitVars
    <3> QED BY Zenon, <1>2, <3>1, <3>2
  <2>7. \A p \in Pending \cap permits :
          p \in permits' \/ \E j \in DOMAIN queue : j <= 1 /\ CompleteAt(j, p)
    <3>1. 1 \in DOMAIN queue
      BY Zenon, <1>0, <2>1, TailAt
    <3> QED BY <2>6, <3>1 DEF CompleteAt
  <2>8. \A j \in DOMAIN queue : j > 1 => j # 1
    BY <1>1
  <2>9. \A j \in DOMAIN queue : j <= 1 => j = 1
    BY <1>1
  <2>10. ChannelKept(1)
    BY ZenonT(60), <2>1, <2>2, <2>3, <2>4, <2>5, <2>6, <2>7, <2>8, <2>9 DEF ChannelKept
  <2>11. permits' \subseteq permits
    BY <2>6
  <2> QED BY Zenon, <2>1, <2>10, <2>11
<1>3. CASE \/ HandleDeliver \/ EndStage \/ EndSubscribers \/ FinishDeliver \/ HandleBarrier
           \/ ReceivePublications \/ ReleaseBarrier
  <2>1. queue' = queue
    BY Zenon, <1>3 DEF HandleDeliver, EndStage, EndSubscribers, FinishDeliver, HandleBarrier,
                       ReceivePublications, ReleaseBarrier, channelVars
  <2>2. permits' = permits \/ \E x \in Publication : permits' = permits \ {x}
    BY Zenon, <1>0, <1>3, PermitsDropped
  <2>3. permits' \subseteq permits /\ \A p \in Pending \cap permits : p \in permits'
    BY <2>2, DisjointIds DEF Publication
  <2>4. \A j \in DOMAIN queue : ~(j <= 0) /\ j - 0 = j
    BY <1>1
  <2>5. ChannelKept(0)
    BY ZenonT(60), <2>1, <2>3, <2>4 DEF ChannelKept
  <2> QED BY Zenon, <2>1, <2>3, <2>5
<1> QED BY Zenon, <1>2, <1>3 DEF DispatcherStep

\* A step of the dispatcher thread leaves to the flushes that wait what they wait for.
LEMMA DispatcherKept ==
    ASSUME Around, DispatcherStep
    PROVE  /\ PermitsKept /\ BuffersKept /\ CallsKept
           /\ \A f \in Flush : HistoryKept(f) /\ NewSafe(f)
           /\ \A f \in Flush : owed'[f] \cap permits' \subseteq owed[f] \cap permits
<1>0. TypeOK /\ Own /\ permits' \subseteq permits
  BY Zenon, DispatcherChannel DEF Around, OwnershipInv
<1>1. /\ lineage' = lineage /\ foreign' = foreign /\ task' = task /\ owed' = owed /\ atCall' = atCall
      /\ \A y \in Publication : Onward(place[y], place'[y])
  BY Zenon, <1>0, DispatcherMoves
<1>2. PermitsKept
  BY Zenon, <1>0, <1>1, DispatcherActive DEF PermitsKept
<1>3. BuffersKept
  <2>1. ASSUME NEW b \in Task, NEW x \in Ids(taskBuffer[b]), x \in permits'
        PROVE  x \in Ids(taskBuffer'[b]) \/ (place'[x] = "stack" /\ UnderRelease(b, x)')
    <3>1. CASE UNCHANGED taskBuffer
      BY Zenon, <2>1, <3>1
    <3>2. CASE ReceivePublications /\ Head(stack).id = b
      BY Zenon, <2>1, <3>2, BufferReleased
    <3>3. CASE taskBuffer'[b] = taskBuffer[b]
      BY Zenon, <2>1, <3>3
    <3> QED BY Zenon, <1>0, <3>1, <3>2, <3>3, DispatcherBuffers
  <2> QED BY Zenon, <2>1, UnderKept DEF BuffersKept
<1>4. CallsKept
  <2> SUFFICES ASSUME NEW p \in Pending, pending[p] = "registered" PROVE pending'[p] = "registered"
    BY Zenon DEF CallsKept
  <2>1. CASE HandleCompletePending
    <3>1. queue # <<>> /\ Head(queue).kind = "complete" /\ pending' = [pending EXCEPT ![Head(queue).id] = "done"]
      BY Zenon, <2>1 DEF HandleCompletePending, Receive
    <3>2. 1 \in DOMAIN queue /\ Head(queue) = queue[1]
      BY Zenon, <3>1, TailAt DEF Around, TypeOK
    <3>3. CASE Head(queue).id = p
      <4>1. CompleteAt(1, p)
        BY Zenon, <3>1, <3>2, <3>3 DEF CompleteAt
      <4>2. pending[p] = "released"
        BY Zenon, <3>2, <4>1 DEF Around, OwnershipInv, PendingInv
      <4> QED BY <4>2
    <3>4. CASE Head(queue).id # p
      <4>1. pending \in [Pending -> {"none", "registered", "released", "done"}]
        BY Zenon DEF Around, TypeOK
      <4> QED BY Zenon, <3>1, <3>4, <4>1
    <3> QED BY <3>3, <3>4
  <2>2. CASE ~HandleCompletePending
    <3>1. pending' = pending
      BY ZenonT(60), <2>2 DEF DispatcherStep, HandleFlush, HandleRegisterPending, ReceivePublication,
         HandleDeliver, EndStage, EndSubscribers, FinishDeliver, HandleBarrier, ReceivePublications,
         ReleaseBarrier, emitterVars
    <3> QED BY Zenon, <3>1
  <2> QED BY <2>1, <2>2
<1>5. ASSUME NEW f \in Flush
      PROVE  /\ HistoryKept(f) /\ NewSafe(f)
             /\ owed'[f] \cap permits' \subseteq owed[f] \cap permits
  <2>1. owed'[f] \cap permits' \subseteq owed[f] \cap permits
    BY Zenon, <1>0, <1>1
  <2>2. ASSUME NEW b \in Task, AttachedBefore(f, b)' PROVE AttachedBefore(f, b)
    <3>1. PICK e \in Event : /\ place'[e] = "attached" /\ e \in atCall'[f]
                             /\ foreign'[e].stage = "task" /\ foreign'[e].owner = b
      BY Zenon, <2>2 DEF AttachedBefore
    <3>2. Onward(place[e], place'[e])
      BY Zenon, <1>1 DEF Publication
    <3>3. place[e] = "attached"
      BY <3>1, <3>2 DEF Onward
    <3>4. task[b] = "running"
      BY Zenon, <1>1, <2>2 DEF AttachedBefore
    <3> QED BY Zenon, <1>1, <3>1, <3>3, <3>4 DEF AttachedBefore
  <2>3. HistoryKept(f)
    BY Zenon, <1>1, <2>2 DEF HistoryKept
  <2>4. NewSafe(f)
    BY Zenon, <2>1 DEF NewSafe
  <2> QED BY Zenon, <2>1, <2>3, <2>4
<1> QED BY Zenon, <1>2, <1>3, <1>4, <1>5

\* The flushes that wait miss nothing after a step that leaves them what they wait for.
LEMMA FlushesKept ==
    ASSUME Around, QueuedFlushInv, DeferredFlushInv, NEW d \in {0, 1}, Kept(d),
           \A f \in Flush : flush[f] # "idle" => HistoryKept(f) /\ NewSafe(f) /\ flush'[f] # "idle",
           d = 0 \/ \A f \in Flush : owed'[f] \cap permits' \subseteq owed[f] \cap permits
    PROVE  /\ \A i \in DOMAIN queue : \A f \in Flush : i > d /\ FlushAt(i, f) => QueuedSafe(f, i - d)'
           /\ \A f \in Flush : \A ls : DeferredSafe(f, ls) => DeferredSafe(f, ls)'
           /\ SafeAfter(pendingFlushes)
<1>1. ASSUME NEW i \in DOMAIN queue, NEW f \in Flush, i > d, FlushAt(i, f) PROVE QueuedSafe(f, i - d)'
  <2>1. QueuedSafe(f, i)
    BY Zenon, <1>1 DEF QueuedFlushInv
  <2>2. HistoryKept(f) /\ NewSafe(f) /\ flush'[f] # "idle"
    BY Zenon, <2>1 DEF QueuedSafe
  <2> QED BY Zenon, <1>1, <2>1, <2>2, QueuedKept
<1>2. ASSUME NEW f \in Flush, NEW ls, DeferredSafe(f, ls) PROVE DeferredSafe(f, ls)'
  <2>1. HistoryKept(f) /\ NewSafe(f) /\ flush'[f] # "idle"
    BY Zenon, <1>2 DEF DeferredSafe
  <2> QED BY Zenon, <1>2, <2>1, DeferredKept
<1>3. ASSUME NEW i \in DOMAIN pendingFlushes, NEW g \in Flush, NEW ls,
             pendingFlushes[i].flush = g, pendingFlushes[i].lineages = ls
      PROVE  DeferredSafe(g, ls)
  BY Zenon, <1>3 DEF DeferredFlushInv
<1> QED BY Zenon, <1>1, <1>2, <1>3 DEF SafeAfter

\* The histories after a step of the dispatcher thread, given that what is acknowledged
\* is owed nothing.
LEMMA DispatcherHistory ==
    ASSUME Around, HistoryInv, DispatcherStep,
           \A f \in Flush : flush'[f] = "idle" => flush[f] = "idle",
           \A f \in Flush : flush'[f] # "waiting" => flush[f] # "waiting" \/ owed'[f] \cap permits' = {}
    PROVE  HistoryInv'
<1>0. TypeOK /\ Own
  BY Zenon DEF Around, OwnershipInv
<1>1. /\ owed' = owed /\ atCall' = atCall /\ mode' = mode
      /\ \A y \in Publication : Onward(place[y], place'[y])
  BY Zenon, <1>0, DispatcherMoves
<1>2. \A y \in Publication : place[y] # "unused" => place'[y] # "unused"
  BY <1>1 DEF Onward
<1>3. \A p \in Pending : pending[p] # "none" => pending'[p] # "none"
  <2>1. CASE HandleCompletePending
    <3>1. pending' = [pending EXCEPT ![Head(queue).id] = "done"]
      BY Zenon, <2>1 DEF HandleCompletePending
    <3>2. pending \in [Pending -> {"none", "registered", "released", "done"}]
      BY Zenon DEF Around, TypeOK
    <3> QED BY <3>1, <3>2
  <2>2. CASE ~HandleCompletePending
    <3>1. pending' = pending
      BY ZenonT(60), <2>2 DEF DispatcherStep, HandleFlush, HandleRegisterPending, ReceivePublication,
         HandleDeliver, EndStage, EndSubscribers, FinishDeliver, HandleBarrier, ReceivePublications,
         ReleaseBarrier, emitterVars
    <3> QED BY Zenon, <3>1
  <2> QED BY <2>1, <2>2
<1>4. \A f \in Flush : owed'[f] \cap permits' \subseteq owed[f] \cap permits
  BY Zenon, DispatcherKept
<1>5. ASSUME NEW f \in Flush, flush'[f] # "waiting" PROVE owed'[f] \cap permits' = {}
  <2>1. flush[f] # "waiting" => owed[f] \cap permits = {}
    BY Zenon DEF HistoryInv
  <2>2. owed[f] \cap permits = {} => owed'[f] \cap permits' = {}
    BY <1>4
  <2> QED BY Zenon, <1>5, <2>1, <2>2
<1> QED BY ZenonT(60), <1>1, <1>2, <1>3, <1>5 DEF HistoryInv

\* Where the flushes of the channel stand after one of its messages was received.
LEMMA ReceivedSafe ==
    ASSUME Around, QueuedFlushInv, NEW d \in {0, 1},
           d = 0 => UNCHANGED queue,
           d = 1 => queue # <<>> /\ queue' = Tail(queue),
           \A i \in DOMAIN queue : \A f \in Flush : i > d /\ FlushAt(i, f) => QueuedSafe(f, i - d)'
    PROVE  QueuedFlushInv'
<1> SUFFICES ASSUME NEW j \in DOMAIN queue', NEW f \in Flush, FlushAt(j, f)'
             PROVE  QueuedSafe(f, j)'
  BY Zenon DEF QueuedFlushInv
<1>0. queue \in Seq(Message)
  BY Zenon DEF Around, TypeOK
<1>1. PICK i \in DOMAIN queue : i \in Nat /\ i > d /\ i - d = j /\ queue[i] = queue'[j]
  <2>1. CASE d = 0
    <3>1. j \in DOMAIN queue /\ queue[j] = queue'[j]
      BY Zenon, <2>1
    <3>2. j \in Nat /\ j > 0 /\ j - 0 = j
      BY <1>0, <3>1
    <3> QED BY Zenon, <2>1, <3>1, <3>2
  <2>2. CASE d = 1
    <3>1. j \in Nat /\ j >= 1 /\ j + 1 \in DOMAIN queue /\ queue'[j] = queue[j + 1]
      <4>1. queue # <<>> /\ queue' = Tail(queue)
        BY Zenon, <2>2
      <4>2. \A k \in DOMAIN Tail(queue) :
              k \in Nat /\ k >= 1 /\ k + 1 \in DOMAIN queue /\ Tail(queue)[k] = queue[k + 1]
        BY Zenon, <1>0, <4>1, TailAt
      <4> QED BY Zenon, <4>1, <4>2
    <3>2. j + 1 > 1 /\ (j + 1) - 1 = j /\ j + 1 \in Nat
      BY <3>1
    <3> QED BY Zenon, <2>2, <3>1, <3>2
  <2> QED BY <2>1, <2>2
<1>2. FlushAt(i, f)
  BY Zenon, <1>1 DEF FlushAt
<1>3. QueuedSafe(f, i - d)'
  BY Zenon, <1>1, <1>2
<1> QED BY <1>1, <1>3

\* Every step of the dispatcher thread but the handling of a flush.
LEMMA OtherFlushes ==
    ASSUME Around, HistoryInv, QueuedFlushInv, DeferredFlushInv, DispatcherStep, ~HandleFlush
    PROVE  HistoryInv' /\ QueuedFlushInv' /\ DeferredFlushInv'
<1>1. \/ UNCHANGED <<pendingFlushes, flush>>
      \/ \E reg : CompleteReadyFlushes(pendingFlushes, reg, flush)
  BY ZenonT(60) DEF DispatcherStep, HandleRegisterPending, HandleCompletePending, ReceivePublication,
         HandleDeliver, EndStage, EndSubscribers, FinishDeliver, HandleBarrier, ReceivePublications,
         ReleaseBarrier, flushVars
<1>2. /\ \A f \in Flush : flush'[f] = flush[f] \/ flush'[f] = "ok"
      /\ pendingFlushes \in Seq(PendingFlush)
  <2>1. ASSUME NEW reg, CompleteReadyFlushes(pendingFlushes, reg, flush), NEW f \in Flush
        PROVE  flush'[f] = flush[f] \/ flush'[f] = "ok"
    BY Zenon, <2>1 DEF CompleteReadyFlushes
  <2> QED BY Zenon, <1>1, <2>1 DEF Around, TypeOK
<1>3. \A f \in Flush : /\ flush[f] # "idle" => flush'[f] # "idle"
                       /\ flush'[f] = "idle" => flush[f] = "idle"
  BY <1>2
<1>4. PICK d \in {0, 1} : /\ d = 0 => UNCHANGED queue
                          /\ d = 1 => queue # <<>> /\ queue' = Tail(queue)
                          /\ ChannelKept(d)
  <2>1. 0 \in {0, 1} /\ 1 \in {0, 1} /\ 0 # 1
    OBVIOUS
  <2> QED BY Zenon, <2>1, DispatcherChannel
<1>5. Kept(d)
  BY Zenon, <1>4, DispatcherKept DEF Kept
<1>6. /\ \A i \in DOMAIN queue : \A f \in Flush : i > d /\ FlushAt(i, f) => QueuedSafe(f, i - d)'
      /\ SafeAfter(pendingFlushes)
  <2>1. /\ \A f \in Flush : flush[f] # "idle" => HistoryKept(f) /\ NewSafe(f) /\ flush'[f] # "idle"
        /\ \A f \in Flush : owed'[f] \cap permits' \subseteq owed[f] \cap permits
    BY Zenon, <1>3, DispatcherKept
  <2> QED BY Zenon, <1>5, <2>1, FlushesKept
<1>7. QueuedFlushInv'
  BY Zenon, <1>4, <1>6, ReceivedSafe
<1>8. /\ DeferredFlushInv'
      /\ \A f \in Flush : flush'[f] = flush[f] \/ owed'[f] \cap permits' = {}
  <2>1. CASE UNCHANGED <<pendingFlushes, flush>>
    <3>1. \A i \in DOMAIN pendingFlushes : pendingFlushes[i].flush \in Flush
      <4>1. \A w \in PendingFlush : w.flush \in Flush
        BY DEF PendingFlush
      <4> QED BY Zenon, <1>2, <4>1, SeqLen, SeqElement
    <3>2. DeferredFlushInv'
      <4> SUFFICES ASSUME NEW i \in DOMAIN pendingFlushes', NEW g, NEW ls,
                          g = pendingFlushes'[i].flush, ls = pendingFlushes'[i].lineages
                   PROVE  DeferredSafe(g, ls)'
        BY Zenon DEF DeferredFlushInv
      <4>1. i \in DOMAIN pendingFlushes /\ g = pendingFlushes[i].flush /\ ls = pendingFlushes[i].lineages
        BY Zenon, <2>1
      <4> QED BY Zenon, <1>6, <3>1, <4>1 DEF SafeAfter
    <3> QED BY Zenon, <2>1, <3>2
  <2>2. ASSUME NEW reg, CompleteReadyFlushes(pendingFlushes, reg, flush)
        PROVE  /\ DeferredFlushInv'
               /\ \A f \in Flush : flush'[f] = flush[f] \/ owed'[f] \cap permits' = {}
    <3>1. UNCHANGED lineage /\ \A p \in Pending : lineage[p] = p
      BY Zenon, DispatcherMoves DEF Around, OwnershipInv, LineageInv
    <3>2. pendingFlushes \in Seq(PendingFlush) /\ SafeAfter(pendingFlushes)
      BY Zenon, <1>2, <1>6
    <3>3. /\ DeferredFlushInv'
          /\ \A f \in Flush : flush'[f] = flush[f] \/ (flush'[f] = "ok" /\ owed'[f] \cap permits' = {})
      BY <2>2, <3>1, <3>2, ReadySafe
    <3> QED BY Zenon, <3>3
  <2> QED BY Zenon, <1>1, <2>1, <2>2
<1>9. HistoryInv'
  BY Zenon, <1>3, <1>8, DispatcherHistory
<1> QED BY Zenon, <1>7, <1>8, <1>9

\* Nothing is in hand when the flush h is received: what it owes is on a lineage that it
\* then waits for, or will be handled under the cover of one.
LEMMA HeadSafe ==
    ASSUME Around, HistoryInv, stack = <<>>, delivering = NoDelivery,
           NEW h \in Flush, QueuedSafe(h, 1), NEW ls,
           ls = {l \in active : (mode[h] = "all" \/ l \notin Pending) /\ Outstanding(l)}
    PROVE  DeferredSafe(h, ls)
<1>0. \A j \in DOMAIN queue : ~(j < 1)
  BY PositionsNat
<1>1. \A x \in Publication : place[x] \notin {"stack", "delivering", "nested"}
  <2> SUFFICES ASSUME NEW x \in Publication PROVE place[x] \notin {"stack", "delivering", "nested"}
    OBVIOUS
  <2>1. place[x] # "stack" /\ place[x] # "nested"
    BY Zenon DEF Around, Owners
  <2>2. place[x] # "delivering"
    <3>1. delivering.event # x
      BY DisjointIds DEF NoDelivery, Publication
    <3> QED BY Zenon, <3>1 DEF Around, Owners
  <2> QED BY <2>1, <2>2
<1>2. \A b \in Task : ~TaskAhead(b, 1)
  <2>1. \A b \in Task : place[b] \notin {"stack", "nested"}
    BY <1>1 DEF Publication
  <2> QED BY Zenon, <1>0, <2>1 DEF TaskAhead
<1>3. \A p \in Pending : lineage[p] = p
  BY Zenon DEF Around, OwnershipInv, LineageInv
<1>4. ASSUME NEW p \in owed[h], p \in permits, p \in Pending PROVE p \in ls
  <2>1. p \notin Publication
    BY <1>4, DisjointIds DEF Publication
  <2>2. p \in active
    BY Zenon, <1>0, <1>4, <2>1 DEF QueuedSafe, SafeQueued
  <2>3. mode[h] = "all"
    BY Zenon, <1>4 DEF HistoryInv
  <2> QED BY Zenon, <1>3, <1>4, <2>2, <2>3 DEF Outstanding
<1>5. ASSUME NEW x \in Publication, x \in permits, lineage[x] \in active PROVE lineage[x] \in ls
  <2>1. lineage[x] \in Publication
    BY Zenon DEF Around, OwnershipInv, LineageInv
  <2>2. lineage[x] \notin Pending
    BY <2>1, DisjointIds DEF Publication
  <2> QED BY Zenon, <1>5, <2>2 DEF Outstanding
<1>6. ASSUME NEW x \in owed[h], x \in permits PROVE SafeDeferred(h, ls, x)
  <2>1. CASE x \in Pending
    BY Zenon, <1>3, <1>4, <1>6, <2>1 DEF SafeDeferred
  <2>2. CASE x \notin Pending
    <3>1. SafeQueued(h, 1, x)
      BY Zenon, <1>6 DEF QueuedSafe
    <3>2. /\ x \in Publication
          /\ \/ lineage[x] \in active
             \/ \E b \in Task : /\ x \in Ids(taskBuffer[b])
                                /\ lineage[b] \in active /\ lineage[x] \notin atCall[h]
             \/ /\ lineage[x] \notin atCall[h] /\ place[x] = "queue"
                /\ \E p \in owed[h] \cap permits \cap Pending :
                     \/ pending[p] = "registered"
                     \/ \E j, k \in DOMAIN queue : j < k /\ QueuedAt(j, x) /\ CompleteAt(k, p)
      BY ZenonT(60), <1>0, <1>1, <1>2, <2>2, <3>1 DEF SafeQueued
    <3>3. CASE lineage[x] \in active
      BY Zenon, <1>5, <1>6, <3>2, <3>3 DEF SafeDeferred
    <3>4. ASSUME NEW b \in Task, x \in Ids(taskBuffer[b]), lineage[b] \in active, lineage[x] \notin atCall[h]
          PROVE  SafeDeferred(h, ls, x)
      <4>1. b \in permits /\ b \in Publication
        BY Zenon, <3>4 DEF Around, Owners, Publication
      <4>2. lineage[b] \in ls
        BY Zenon, <1>5, <3>4, <4>1
      <4> QED BY Zenon, <3>2, <3>4, <4>1, <4>2 DEF SafeDeferred
    <3>5. ASSUME lineage[x] \notin atCall[h], place[x] = "queue",
                 NEW p \in owed[h] \cap permits \cap Pending,
                 \/ pending[p] = "registered"
                 \/ \E j, k \in DOMAIN queue : j < k /\ QueuedAt(j, x) /\ CompleteAt(k, p)
          PROVE  SafeDeferred(h, ls, x)
      <4>1. p \in permits \cap Pending \cap ls
        BY Zenon, <1>4, <3>5
      <4>2. place[x] \in {"queue", "stack", "delivering"}
        BY <3>5
      <4> QED BY Zenon, <3>2, <3>5, <4>1, <4>2 DEF SafeDeferred
    <3> QED BY Zenon, <3>2, <3>3, <3>4, <3>5
  <2> QED BY Zenon, <2>1, <2>2
<1> QED BY Zenon, <1>2, <1>6 DEF QueuedSafe, DeferredSafe

\* defer_or_complete_flush: a flush is acknowledged at once only if all it owes was
\* handled, and is deferred otherwise on lineages that cover it.
LEMMA HeadFlushes ==
    ASSUME Around, HistoryInv, QueuedFlushInv, DeferredFlushInv, HandleFlush
    PROVE  HistoryInv' /\ QueuedFlushInv' /\ DeferredFlushInv'
<1> DEFINE h == Head(queue).id
           ls == {l \in active : (mode[h] = "all" \/ l \notin Pending) /\ Outstanding(l)}
           pf == IF ls = {} THEN pendingFlushes ELSE Append(pendingFlushes, [flush |-> h, lineages |-> ls])
           fs == IF ls = {} THEN [flush EXCEPT ![h] = "ok"] ELSE flush
<1>0. /\ DispatcherStep /\ TypeOK /\ Own /\ queue \in Seq(Message) /\ active \subseteq Lineage
      /\ pendingFlushes \in Seq(PendingFlush) /\ flush \in [Flush -> {"idle", "waiting", "ok", "skipped", "failed"}]
  BY Zenon DEF Around, OwnershipInv, TypeOK, DispatcherStep
<1>1. /\ queue # <<>> /\ Head(queue).kind = "flush" /\ stack = <<>> /\ queue' = Tail(queue)
      /\ delivering.stage = "idle" /\ permits' = permits
      /\ CompleteReadyFlushes(pf, active, fs)
  <2>1. /\ queue # <<>> /\ Head(queue).kind = "flush" /\ stack = <<>> /\ queue' = Tail(queue)
        /\ delivering.stage = "idle" /\ permits' = permits
    BY Zenon DEF HandleFlush, Receive
  <2>2. IF ls = {}
        THEN CompleteReadyFlushes(pendingFlushes, active, [flush EXCEPT ![h] = "ok"])
        ELSE CompleteReadyFlushes(Append(pendingFlushes, [flush |-> h, lineages |-> ls]), active, flush)
    BY Zenon DEF HandleFlush
  <2> HIDE DEF h, ls
  <2>3. CompleteReadyFlushes(pf, active, fs)
    BY Zenon, <2>2
  <2> QED BY Zenon, <2>1, <2>3
<1>2. 1 \in DOMAIN queue /\ Head(queue) = queue[1] /\ h \in Flush /\ FlushAt(1, h)
  <2>1. 1 \in DOMAIN queue /\ Head(queue) = queue[1]
    BY Zenon, <1>0, <1>1, TailAt
  <2>2. queue[1] \in Message
    BY Zenon, <1>0, <2>1, SeqLen, SeqElement
  <2>3. h \in Flush
    BY Zenon, <1>1, <2>1, <2>2, MessageKinds
  <2> QED BY Zenon, <1>1, <2>1, <2>3 DEF FlushAt
<1>3. DeferredSafe(h, ls)
  <2>1. QueuedSafe(h, 1)
    BY Zenon, <1>2 DEF QueuedFlushInv
  <2>2. delivering = NoDelivery
    BY Zenon, <1>0, <1>1, InDelivery
  <2> QED BY Zenon, <1>1, <1>2, <2>1, <2>2, HeadSafe
<1>4. PICK g \in Flush, L \in SUBSET Lineage : g = h /\ L = ls /\ DeferredSafe(g, L)
  <2>1. ls \in SUBSET Lineage
    BY <1>0
  <2> QED BY Zenon, <1>2, <1>3, <2>1
<1> HIDE DEF h, ls
<1>5. ls = {} => owed[g] \cap permits = {}
  BY Zenon, <1>4 DEF DeferredSafe, SafeDeferred
<1>6. \A f \in Flush : fs[f] = flush[f] \/ (ls = {} /\ f = g /\ fs[f] = "ok")
  BY <1>0, <1>4
<1>7. /\ pf \in Seq(PendingFlush)
      /\ \A i \in DOMAIN pf : \/ i \in DOMAIN pendingFlushes /\ pf[i] = pendingFlushes[i]
                              \/ pf[i] = [flush |-> g, lineages |-> L]
  <2>1. CASE ls = {}
    BY Zenon, <1>0, <2>1
  <2>2. CASE ls # {}
    <3>1. [flush |-> g, lineages |-> L] \in PendingFlush
      BY DEF PendingFlush
    <3>2. pf = Append(pendingFlushes, [flush |-> g, lineages |-> L])
      BY Zenon, <1>4, <2>2
    <3> HIDE DEF pf
    <3>3. PICK w \in PendingFlush : w = [flush |-> g, lineages |-> L]
      BY Zenon, <3>1
    <3>4. /\ Append(pendingFlushes, w) \in Seq(PendingFlush)
          /\ \A i \in DOMAIN Append(pendingFlushes, w) :
                \/ i \in DOMAIN pendingFlushes /\ Append(pendingFlushes, w)[i] = pendingFlushes[i]
                \/ Append(pendingFlushes, w)[i] = w
      BY <1>0, AppendAt, SeqAppend
    <3> QED BY Zenon, <3>2, <3>3, <3>4
  <2> QED BY Zenon, <2>1, <2>2
<1> HIDE DEF pf, fs
<1>8. \A f \in Flush : flush'[f] = fs[f] \/ flush'[f] = "ok"
  BY Zenon, <1>1 DEF CompleteReadyFlushes
<1>9. \A f \in Flush : /\ flush[f] # "idle" => flush'[f] # "idle"
                       /\ flush'[f] = "idle" => flush[f] = "idle"
  BY <1>6, <1>8
<1>10. Kept(1)
  <2>1. queue' # queue
    <3>1. Len(Tail(queue)) = Len(queue) - 1 /\ Len(queue) \in Nat
      BY Zenon, <1>0, <1>1, SeqHeadTail, SeqLen
    <3>2. Tail(queue) # queue
      BY <3>1
    <3> QED BY Zenon, <1>1, <3>2
  <2> QED BY Zenon, <1>0, <2>1, DispatcherChannel, DispatcherKept DEF Kept
<1>11. /\ \A i \in DOMAIN queue : \A f \in Flush : i > 1 /\ FlushAt(i, f) => QueuedSafe(f, i - 1)'
       /\ DeferredSafe(g, L)' /\ SafeAfter(pendingFlushes)
  <2>1. /\ \A f \in Flush : flush[f] # "idle" => HistoryKept(f) /\ NewSafe(f) /\ flush'[f] # "idle"
        /\ \A f \in Flush : owed'[f] \cap permits' \subseteq owed[f] \cap permits
    BY Zenon, <1>0, <1>9, DispatcherKept
  <2>2. 1 \in {0, 1}
    OBVIOUS
  <2> QED BY Zenon, <1>4, <1>10, <2>1, <2>2, FlushesKept
<1>12. QueuedFlushInv'
  <2>1. 1 \in {0, 1} /\ 1 # 0
    OBVIOUS
  <2> QED BY Zenon, <1>1, <1>11, <2>1, ReceivedSafe
<1>13. SafeAfter(pf)
  <2> SUFFICES ASSUME NEW i \in DOMAIN pf, NEW f \in Flush, NEW K, pf[i].flush = f, pf[i].lineages = K
               PROVE  DeferredSafe(f, K)'
    BY Zenon DEF SafeAfter
  <2>1. CASE i \in DOMAIN pendingFlushes /\ pf[i] = pendingFlushes[i]
    BY Zenon, <1>11, <2>1 DEF SafeAfter
  <2>2. CASE pf[i] = [flush |-> g, lineages |-> L]
    <3>1. f = g /\ K = L
      BY <2>2
    <3> QED BY <1>11, <3>1
  <2> QED BY Zenon, <1>7, <2>1, <2>2
<1>14. /\ DeferredFlushInv'
       /\ \A f \in Flush : flush'[f] = fs[f] \/ (flush'[f] = "ok" /\ owed'[f] \cap permits' = {})
  <2>1. UNCHANGED lineage /\ \A p \in Pending : lineage[p] = p
    BY Zenon, <1>0, DispatcherMoves DEF Around, OwnershipInv, LineageInv
  <2>2. pf \in Seq(PendingFlush) /\ CompleteReadyFlushes(pf, active, fs)
    BY Zenon, <1>1, <1>7
  <2> QED BY <1>13, <2>1, <2>2, ReadySafe
<1>15. ASSUME NEW f \in Flush, flush'[f] # "waiting"
       PROVE  flush[f] # "waiting" \/ owed'[f] \cap permits' = {}
  <2>1. CASE ls = {} /\ f = g
    <3>1. owed'[f] \cap permits' \subseteq owed[f] \cap permits
      BY Zenon, <1>0, DispatcherKept
    <3> QED BY <1>5, <2>1, <3>1
  <2>2. CASE flush'[f] = flush[f]
    BY <1>15, <2>2
  <2> QED BY Zenon, <1>6, <1>14, <2>1, <2>2
<1>16. HistoryInv'
  BY Zenon, <1>0, <1>9, <1>15, DispatcherHistory
<1> QED BY Zenon, <1>12, <1>14, <1>16

-----------------------------------------------------------------------------
(* Steps of emitters, tasks and callers *)

\* A step that only adds to what is on its way.
LEMMA EnvKept ==
    ASSUME Around, UNCHANGED <<stack, delivering, active>>,
           UNCHANGED queue \/ \E m \in Message : queue' = Append(queue, m),
           \A x \in permits \cap permits' : lineage'[x] = lineage[x],
           \A x \in Publication \cap permits \cap permits' : place[x] = "attached" \/ place'[x] = place[x],
           \A p \in Pending \cap permits : p \in permits',
           \A b \in Task : Ids(taskBuffer[b]) \cap permits' \subseteq Ids(taskBuffer'[b]),
           CallsKept
    PROVE  Kept(0)
<1>0. queue \in Seq(Message)
  BY Zenon DEF Around, TypeOK
<1>1. \A j \in DOMAIN queue : j \in DOMAIN queue' /\ queue'[j] = queue[j]
  BY Zenon, <1>0, SentAt
<1>2. \A j \in DOMAIN queue : ~(j <= 0) /\ j - 0 = j
  BY PositionsNat
<1>3. ChannelKept(0)
  BY Zenon, <1>1, <1>2 DEF ChannelKept
<1>4. PermitsKept
  BY Zenon DEF PermitsKept, Onward
<1>5. BuffersKept
  <2>1. \A b \in Task : \A x : UnderRelease(b, x) => UnderRelease(b, x)'
    BY Zenon DEF UnderRelease, StackAt
  <2> QED BY Zenon, <2>1 DEF BuffersKept
<1> QED BY Zenon, <1>3, <1>4, <1>5 DEF Kept

\* The histories of the flushes after such a step.
LEMMA EnvHistory ==
    ASSUME Around, HistoryInv, UNCHANGED atCall, \A f \in Flush : owed[f] \subseteq owed'[f],
           \A e \in Event : place'[e] = "attached" =>
              place[e] = "unused" \/ (place[e] = "attached" /\ foreign'[e] = foreign[e]),
           \A b \in Task : task'[b] = "running" => task[b] = "running" \/ place[b] = "unused"
    PROVE  \A f \in Flush : HistoryKept(f)
<1> SUFFICES ASSUME NEW f \in Flush, NEW b \in Task, AttachedBefore(f, b)' PROVE AttachedBefore(f, b)
  BY Zenon DEF HistoryKept
<1>1. PICK e \in Event : /\ place'[e] = "attached" /\ e \in atCall[f] /\ task'[b] = "running"
                         /\ foreign'[e].stage = "task" /\ foreign'[e].owner = b
  BY Zenon DEF AttachedBefore
<1>2. place[e] # "unused"
  BY Zenon, <1>1 DEF HistoryInv, Publication
<1>3. place[e] = "attached" /\ foreign'[e] = foreign[e]
  BY Zenon, <1>1, <1>2
<1>4. place[b] # "unused"
  <2>1. foreign[e] # None
    BY Zenon, <1>3 DEF Around, OwnershipInv, LineageInv
  <2> QED BY Zenon, <1>1, <1>3, <2>1 DEF Around, OwnershipInv, LineageInv
<1> QED BY Zenon, <1>1, <1>3, <1>4 DEF AttachedBefore

\* A flush is owed more only while it waits, and only what is on its way.
LEMMA HistoryGrows ==
    ASSUME Around, HistoryInv, UNCHANGED <<flush, mode, atCall>>,
           \A f \in Flush : \A x \in owed'[f] :
              x \in owed[f] \/ (flush[f] = "waiting" /\ x \in Publication /\ place'[x] # "unused"),
           \A y \in Publication : place[y] # "unused" => place'[y] # "unused",
           \A p \in Pending : pending[p] # "none" => pending'[p] # "none",
           \A x \in permits' : \/ x \in permits
                               \/ x \in Publication /\ place[x] = "unused"
                               \/ x \in Pending /\ pending[x] = "none"
    PROVE  HistoryInv'
<1> SUFFICES ASSUME NEW f \in Flush
             PROVE  /\ flush'[f] = "idle" => owed'[f] = {}
                    /\ \A x \in owed'[f] \cap Publication : place'[x] # "unused"
                    /\ \A p \in owed'[f] \cap Pending : pending'[p] # "none" /\ mode'[f] = "all"
                    /\ \A l \in atCall'[f] \cap Publication : place'[l] # "unused"
                    /\ flush'[f] # "waiting" => owed'[f] \cap permits' = {}
  BY Zenon DEF HistoryInv
<1>1. /\ flush[f] = "idle" => owed[f] = {}
      /\ \A x \in owed[f] \cap Publication : place[x] # "unused"
      /\ \A p \in owed[f] \cap Pending : pending[p] # "none" /\ mode[f] = "all"
      /\ \A l \in atCall[f] \cap Publication : place[l] # "unused"
      /\ flush[f] # "waiting" => owed[f] \cap permits = {}
  BY Zenon DEF HistoryInv
<1>2. flush[f] # "waiting" => owed'[f] \subseteq owed[f]
  BY Zenon
<1>3. flush'[f] = "idle" => owed'[f] = {}
  BY <1>1, <1>2
<1>4. \A x \in owed'[f] \cap Publication : place'[x] # "unused"
  BY Zenon, <1>1
<1>5. \A p \in owed'[f] \cap Pending : pending'[p] # "none" /\ mode'[f] = "all"
  <2>1. \A p \in Pending : p \notin Publication
    BY DisjointIds DEF Publication
  <2> QED BY Zenon, <1>1, <2>1
<1>6. flush'[f] # "waiting" => owed'[f] \cap permits' = {}
  BY Zenon, <1>1, <1>2
<1> QED BY Zenon, <1>1, <1>3, <1>4, <1>5, <1>6

\* What a callback emits on the lineage of its event is covered where the event is.
LEMMA CoveredByEvent ==
    ASSUME Around, NEW f \in Flush, NEW x \in Publication, delivering # NoDelivery, UNCHANGED active,
           delivering.event \in owed[f], delivering.event \in Event, lineage[delivering.event] \in atCall[f],
           lineage'[x] = lineage[delivering.event]
    PROVE  Covered(f, x)
<1>1. lineage'[x] \in active' /\ delivering.event \in permits
  <2>1. lineage[delivering.event] \in active
    BY Zenon DEF Around, OwnershipInv, LineageInv
  <2>2. place[delivering.event] = "delivering"
    BY Zenon DEF Around, Owners, Publication
  <2>3. delivering.event \in permits
    <3>1. place[delivering.event] \notin {"unused", "gone"}
      BY <2>2
    <3> QED BY Zenon, <3>1 DEF Around, Owners, Publication
  <2> QED BY Zenon, <2>1, <2>3
<1>2. ASSUME NEW ls, DeferredSafe(f, ls) PROVE SafeDeferred(f, ls, x)'
  <2>1. SafeDeferred(f, ls, delivering.event)
    BY Zenon, <1>1, <1>2 DEF DeferredSafe
  <2>2. lineage[delivering.event] \in ls
    BY Zenon, <2>1 DEF SafeDeferred
  <2> QED BY Zenon, <2>2 DEF SafeDeferred
<1> QED BY Zenon, <1>1, <1>2 DEF Covered, SafeQueued

\* The terminal event of a managed call is covered where the call is.
LEMMA CoveredByCall ==
    ASSUME Around, HistoryInv, NEW f \in Flush, NEW x \in Publication, place[x] = "unused",
           NEW p \in Pending, pending[p] = "registered", p \in owed[f], UNCHANGED <<pending, atCall>>,
           owed[f] \subseteq owed'[f], permits \subseteq permits', lineage'[x] = x, place'[x] = "queue"
    PROVE  Covered(f, x)
<1>1. p \in permits /\ lineage[p] = p /\ p \notin Publication
  <2>1. p \in permits /\ lineage[p] = p
    BY Zenon DEF Around, OwnershipInv, PendingInv, LineageInv
  <2> QED BY <2>1, DisjointIds DEF Publication
<1>2. lineage'[x] \notin atCall'[f]
  BY Zenon DEF HistoryInv
<1>3. p \in permits' /\ p \in owed'[f] /\ pending'[p] = "registered"
  BY Zenon, <1>1
<1>4. \A i : SafeQueued(f, i, x)'
  BY Zenon, <1>2, <1>3 DEF SafeQueued
<1>5. ASSUME NEW ls, DeferredSafe(f, ls) PROVE SafeDeferred(f, ls, x)'
  <2>1. p \in ls
    BY Zenon, <1>1, <1>5 DEF DeferredSafe, SafeDeferred
  <2>2. place'[x] \in {"queue", "stack", "delivering"}
    OBVIOUS
  <2> QED BY Zenon, <1>2, <1>3, <2>1, <2>2 DEF SafeDeferred
<1> QED BY Zenon, <1>4, <1>5 DEF Covered

\* An event that goes to the buffer of a task is covered where the task is, and one whose
\* thread attached before the flush was called, because the task is.
LEMMA CoveredByTask ==
    ASSUME Around, HistoryInv, Kept(0), NEW f \in Flush, HistoryKept(f), NEW x \in Event,
           NEW b \in Task, b \in permits', task[b] = "running", b \in owed[f], lineage[b] \in atCall[f],
           x \in Ids(taskBuffer'[b]), lineage'[x] = x,
           place[x] = "unused" \/
              (place[x] = "attached" /\ foreign[x].stage = "task" /\ foreign[x].owner = b)
    PROVE  Covered(f, x)
<1>1. b \in permits /\ b \in Publication /\ x \in Publication /\ b \notin Event /\ b \notin Pending
  <2>1. b \in permits
    BY Zenon DEF Around, Owners
  <2> QED BY Zenon, <2>1, DisjointIds DEF Publication
<1>2. place[b] \in {"queue", "nested", "stack"}
  BY Zenon, <1>1 DEF Around, Owners
<1>3. atCall'[f] = atCall[f] /\ lineage'[b] = lineage[b] /\ (lineage[b] \in active => lineage[b] \in active')
  BY Zenon, <1>1 DEF HistoryKept, Kept, PermitsKept
<1>4. x \in atCall[f] => AttachedBefore(f, b)
  <2>1. x \in atCall[f] => place[x] # "unused"
    BY Zenon, <1>1 DEF HistoryInv
  <2> QED BY Zenon, <2>1 DEF AttachedBefore
<1>5. ASSUME NEW i \in DOMAIN queue, QueuedSafe(f, i) PROVE SafeQueued(f, i, x)'
  <2>1. i \in Nat /\ i > 0 /\ i - 0 = i
    BY PositionsNat
  <2>2. SafeQueued(f, i, b)
    BY Zenon, <1>1, <1>5 DEF QueuedSafe
  <2>3. TaskAhead(b, i) \/ lineage[b] \in active
    <3>1. \A c \in Task : b \notin Ids(taskBuffer[c])
      BY Zenon, <1>1 DEF Around, Owners
    <3>2. place[b] # "delivering"
      BY <1>2
    <3>3. place[b] \in {"stack", "delivering", "nested"} => place[b] \in {"stack", "nested"}
      BY <3>2
    <3> QED BY Zenon, <1>1, <2>2, <3>1, <3>3 DEF SafeQueued, TaskAhead
  <2>4. CASE TaskAhead(b, i)
    <3>1. TaskAhead(b, i - 0)'
      <4>1. 0 \in {0, 1}
        OBVIOUS
      <4> QED BY Zenon, <1>1, <2>1, <2>4, <4>1, AheadKept
    <3>2. TaskAhead(b, i)'
      BY <2>1, <3>1
    <3> QED BY Zenon, <1>1, <3>2 DEF SafeQueued
  <2>5. CASE ~TaskAhead(b, i)
    <3>1. ~AttachedBefore(f, b)
      BY Zenon, <1>5, <2>5 DEF QueuedSafe
    <3>2. lineage'[x] \notin atCall'[f] /\ lineage'[b] \in active'
      BY Zenon, <1>3, <1>4, <2>3, <2>5, <3>1
    <3> QED BY Zenon, <1>1, <3>2 DEF SafeQueued
  <2> QED BY Zenon, <2>4, <2>5
<1>6. ASSUME NEW ls, DeferredSafe(f, ls) PROVE SafeDeferred(f, ls, x)'
  <2>1. SafeDeferred(f, ls, b) /\ ~AttachedBefore(f, b)
    BY Zenon, <1>1, <1>6 DEF DeferredSafe
  <2>2. lineage'[b] \in ls
    BY Zenon, <1>3, <2>1 DEF SafeDeferred
  <2>3. lineage'[x] \notin atCall'[f]
    BY ZenonT(60), <1>3, <1>4, <2>1
  <2> QED BY Zenon, <1>1, <2>2, <2>3 DEF SafeDeferred
<1> QED BY Zenon, <1>5, <1>6 DEF Covered

\* What a publication is promised to: the flushes that wait and are owed its cause.
LEMMA PromiseGrows ==
    ASSUME NEW x, NEW o, Promise(x, o) \/ UNCHANGED owed
    PROVE  \A f \in Flush : /\ owed[f] \subseteq owed'[f]
                            /\ \A y \in owed'[f] : \/ y \in owed[f]
                                                   \/ /\ y = x /\ flush[f] = "waiting"
                                                      /\ Promise(x, o)
                                                      /\ o \in owed[f] /\ lineage[o] \in atCall[f]
<1>1. CASE UNCHANGED owed
  BY Zenon, <1>1
<1>2. CASE Promise(x, o)
  <2>1. owed' = [f \in Flush |->
                  IF flush[f] = "waiting" /\ o \in owed[f] /\ lineage[o] \in atCall[f]
                  THEN owed[f] \cup {x} ELSE owed[f]]
    BY Zenon, <1>2 DEF Promise
  <2> QED BY <1>2, <2>1
<1> QED BY <1>1, <1>2

\* A publication that takes its permit was on no lineage and holds none before.
LEMMA Born ==
    ASSUME Around, NEW x \in Publication, place[x] = "unused", NEW l, Attach(x, l), NEW to, Move({x}, to)
    PROVE  /\ x \notin permits /\ permits' = permits \cup {x} /\ lineage'[x] = l
           /\ \A y \in permits : lineage'[y] = lineage[y]
           /\ \A y \in Publication : place'[y] = IF y = x THEN to ELSE place[y]
<1>1. x \notin permits
  BY Zenon DEF Around, Owners
<1>2. lineage \in [Lineage -> Lineage] /\ x \in Lineage /\ permits \subseteq Lineage
  BY Zenon DEF Around, TypeOK, Lineage
<1>3. /\ permits' = permits \cup {x} /\ lineage' = [lineage EXCEPT ![x] = l]
      /\ \A y \in Publication : place'[y] = IF y = x THEN to ELSE place[y]
  BY DEF Attach, Move
<1> QED BY <1>1, <1>2, <1>3

\* The flushes after a step that sends nothing, or something behind them.
LEMMA SentSafe ==
    ASSUME Around, QueuedFlushInv, DeferredFlushInv, Kept(0), UNCHANGED pendingFlushes,
           UNCHANGED queue \/ \E m \in Message : queue' = Append(queue, m),
           \A f \in Flush : flush[f] # "idle" => HistoryKept(f) /\ NewSafe(f) /\ flush'[f] # "idle"
    PROVE  /\ \A i \in DOMAIN queue' : \A f \in Flush :
                 FlushAt(i, f)' => QueuedSafe(f, i)' \/ (queue' = Append(queue, queue'[i]) /\ i = Len(queue) + 1)
           /\ DeferredFlushInv'
<1>0. queue \in Seq(Message) /\ pendingFlushes \in Seq(PendingFlush) /\ 0 \in {0, 1}
  BY Zenon DEF Around, TypeOK
<1>1. /\ \A i \in DOMAIN queue : \A f \in Flush : i > 0 /\ FlushAt(i, f) => QueuedSafe(f, i - 0)'
      /\ SafeAfter(pendingFlushes)
  BY Zenon, <1>0, FlushesKept
<1>2. ASSUME NEW i \in DOMAIN queue, NEW f \in Flush, queue'[i] = queue[i], FlushAt(i, f)'
      PROVE  QueuedSafe(f, i)'
  <2>1. FlushAt(i, f)
    BY Zenon, <1>2 DEF FlushAt
  <2>2. i > 0 /\ i - 0 = i
    BY PositionsNat
  <2>3. QueuedSafe(f, i - 0)'
    BY Zenon, <1>1, <2>1, <2>2
  <2> QED BY <2>2, <2>3
<1>3. ASSUME NEW i \in DOMAIN queue'
      PROVE  \/ i \in DOMAIN queue /\ queue'[i] = queue[i]
             \/ queue' = Append(queue, queue'[i]) /\ i = Len(queue) + 1
  BY Zenon, <1>0, SentAt
<1>4. DeferredFlushInv'
  <2> SUFFICES ASSUME NEW i \in DOMAIN pendingFlushes', NEW g, NEW ls,
                      g = pendingFlushes'[i].flush, ls = pendingFlushes'[i].lineages
               PROVE  DeferredSafe(g, ls)'
    BY Zenon DEF DeferredFlushInv
  <2>1. i \in DOMAIN pendingFlushes /\ g = pendingFlushes[i].flush /\ ls = pendingFlushes[i].lineages
    BY Zenon
  <2>2. g \in Flush
    <3>1. \A w \in PendingFlush : w.flush \in Flush
      BY DEF PendingFlush
    <3> QED BY Zenon, <1>0, <2>1, <3>1, SeqLen, SeqElement
  <2> QED BY Zenon, <1>1, <2>1, <2>2 DEF SafeAfter
<1> QED BY Zenon, <1>2, <1>3, <1>4

\* What the step of an emitter leaves of the three invariants.
StepKeeps == HistoryInv' /\ Kept(0) /\ \A f \in Flush : HistoryKept(f) /\ NewSafe(f)

\* No flush is called: the three invariants after a step of an emitter, from its parts.
LEMMA EnvDone ==
    ASSUME Around, QueuedFlushInv, DeferredFlushInv, StepKeeps, UNCHANGED <<pendingFlushes, flush>>,
           UNCHANGED queue \/ \E m \in Message : m.kind # "flush" /\ queue' = Append(queue, m)
    PROVE  HistoryInv' /\ QueuedFlushInv' /\ DeferredFlushInv'
<1>1. /\ \A i \in DOMAIN queue' : \A f \in Flush :
            FlushAt(i, f)' => QueuedSafe(f, i)' \/ (queue' = Append(queue, queue'[i]) /\ i = Len(queue) + 1)
      /\ DeferredFlushInv'
  BY Zenon, SentSafe DEF StepKeeps
<1>2. ASSUME NEW i \in DOMAIN queue', NEW f \in Flush, FlushAt(i, f)', i = Len(queue) + 1,
             queue' = Append(queue, queue'[i])
      PROVE  FALSE
  <2>0. queue \in Seq(Message) /\ queue'[i].kind = "flush" /\ queue' \in Seq(Message)
    BY Zenon, <1>2 DEF FlushAt, Around, TypeOK
  <2>1. DOMAIN queue = 1 .. Len(queue) /\ Len(queue) \in Nat
    BY Zenon, <2>0, SeqLen
  <2>2. Len(queue) + 1 \notin 1 .. Len(queue)
    BY <2>1
  <2>3. queue' # queue
    BY Zenon, <1>2, <2>1, <2>2
  <2>4. PICK m \in Message : m.kind # "flush" /\ queue' = Append(queue, m)
    BY Zenon, <2>3
  <2>5. queue'[Len(queue) + 1] = m
    BY Zenon, <2>0, <2>4, SentAt
  <2> QED BY Zenon, <1>2, <2>0, <2>4, <2>5
<1>3. QueuedFlushInv'
  BY Zenon, <1>1, <1>2 DEF QueuedFlushInv
<1> QED BY Zenon, <1>1, <1>3 DEF StepKeeps

\* A publication takes its permit: it is missed by no flush if it is covered for those
\* that are owed its cause.
LEMMA Birth ==
    ASSUME Around, HistoryInv, NEW x \in Publication, place[x] = "unused", NEW l, Attach(x, l),
           NEW to, to # "unused", Move({x}, to),
           UNCHANGED <<stack, delivering, active, pending, foreign, flush, mode, atCall>>,
           UNCHANGED queue \/ \E m \in Message : queue' = Append(queue, m),
           \A b \in Task : Ids(taskBuffer[b]) \subseteq Ids(taskBuffer'[b]),
           \A b \in Task : task'[b] = "running" => task[b] = "running" \/ b = x,
           NEW o, Promise(x, o) \/ UNCHANGED owed
    PROVE  /\ HistoryInv' /\ Kept(0) /\ \A f \in Flush : HistoryKept(f)
           /\ (\A f \in Flush : Promise(x, o) /\ o \in owed[f] /\ lineage[o] \in atCall[f] => Covered(f, x))
              => StepKeeps
<1>1. /\ x \notin permits /\ permits' = permits \cup {x} /\ lineage'[x] = l
      /\ \A y \in permits : lineage'[y] = lineage[y]
      /\ \A y \in Publication : place'[y] = IF y = x THEN to ELSE place[y]
  BY Zenon, Born
<1>2. \A f \in Flush : /\ owed[f] \subseteq owed'[f]
                       /\ \A y \in owed'[f] : \/ y \in owed[f]
                                              \/ /\ y = x /\ flush[f] = "waiting"
                                                 /\ Promise(x, o)
                                                 /\ o \in owed[f] /\ lineage[o] \in atCall[f]
  BY Zenon, PromiseGrows
<1>3. \A y \in Publication : y # x => place'[y] = place[y]
  BY Zenon, <1>1
<1>4. place'[x] # "unused"
  BY Zenon, <1>1
<1>5. CallsKept
  BY Zenon DEF CallsKept
<1>6. Kept(0)
  <2>1. \A y \in permits \cap permits' : lineage'[y] = lineage[y]
    BY Zenon, <1>1
  <2>2. \A y \in Publication \cap permits \cap permits' : place[y] = "attached" \/ place'[y] = place[y]
    BY Zenon, <1>1, <1>3
  <2>3. \A p \in Pending \cap permits : p \in permits'
    BY Zenon, <1>1
  <2>4. \A b \in Task : Ids(taskBuffer[b]) \cap permits' \subseteq Ids(taskBuffer'[b])
    BY Zenon
  <2> QED BY Zenon, <1>5, <2>1, <2>2, <2>3, <2>4, EnvKept
<1>7. \A f \in Flush : HistoryKept(f)
  <2>1. ASSUME NEW e \in Event, place'[e] = "attached"
        PROVE  place[e] = "unused" \/ (place[e] = "attached" /\ foreign'[e] = foreign[e])
    BY Zenon, <1>3, <2>1 DEF Publication
  <2>2. \A b \in Task : task'[b] = "running" => task[b] = "running" \/ place[b] = "unused"
    BY Zenon
  <2> QED BY Zenon, <1>2, <2>1, <2>2, EnvHistory
<1>8. HistoryInv'
  <2>1. \A f \in Flush : \A y \in owed'[f] :
          y \in owed[f] \/ (flush[f] = "waiting" /\ y \in Publication /\ place'[y] # "unused")
    BY Zenon, <1>2, <1>4
  <2>2. \A y \in Publication : place[y] # "unused" => place'[y] # "unused"
    BY Zenon, <1>3
  <2>3. \A y \in permits' : \/ y \in permits
                            \/ y \in Publication /\ place[y] = "unused"
                            \/ y \in Pending /\ pending[y] = "none"
    BY Zenon, <1>1
  <2>4. \A p \in Pending : pending[p] # "none" => pending'[p] # "none"
    BY Zenon
  <2> QED BY Zenon, <2>1, <2>2, <2>3, <2>4, HistoryGrows
<1>9. ASSUME NEW f \in Flush,
             Promise(x, o) /\ o \in owed[f] /\ lineage[o] \in atCall[f] => Covered(f, x)
      PROVE  NewSafe(f)
  <2> SUFFICES ASSUME NEW y \in owed'[f] \cap permits', y \notin owed[f] \cap permits
               PROVE  Covered(f, y)
    BY Zenon DEF NewSafe
  <2>1. CASE y \in owed[f]
    <3>1. y = x
      BY Zenon, <1>1, <2>1
    <3>2. place[x] # "unused"
      BY Zenon, <2>1, <3>1 DEF HistoryInv
    <3> QED BY Zenon, <3>2
  <2>2. CASE y \notin owed[f]
    BY Zenon, <1>2, <1>9, <2>2
  <2> QED BY Zenon, <2>1, <2>2
<1> QED BY Zenon, <1>6, <1>7, <1>8, <1>9 DEF StepKeeps

\* A task only adds to its buffer.
LEMMA BufferGrows ==
    ASSUME Around, NEW e \in Event, NEW b \in Task,
           taskBuffer' = [taskBuffer EXCEPT ![b] = Append(@, Msg(e))]
    PROVE  e \in Ids(taskBuffer'[b]) /\ \A c \in Task : Ids(taskBuffer[c]) \subseteq Ids(taskBuffer'[c])
<1>1. taskBuffer[b] \in Seq(DeliverMsg) /\ Msg(e) \in DeliverMsg
  BY Zenon, MsgType DEF Around, TypeOK, Publication
<1>2. Ids(Append(taskBuffer[b], Msg(e))) = Ids(taskBuffer[b]) \cup {Msg(e).id}
  BY <1>1, IdsAppend
<1>3. Msg(e).id = e
  BY DEF Msg
<1>4. \A c \in Task : taskBuffer'[c] = IF c = b THEN Append(taskBuffer[b], Msg(e)) ELSE taskBuffer[c]
  <2>1. taskBuffer \in [Task -> Seq(DeliverMsg)]
    BY Zenon DEF Around, TypeOK
  <2> QED BY <2>1
<1> QED BY Zenon, <1>2, <1>3, <1>4

\* A callback runs for an event.
LEMMA CallbackEvent ==
    ASSUME Around, delivering.stage # "idle"
    PROVE  delivering.event \in Event /\ delivering # NoDelivery
BY Zenon, InDelivery DEF Around

\* Emitting, from any context, keeps the invariants of the flushes.
LEMMA EmitKeeps ==
    ASSUME Around, HistoryInv, NEW x \in Publication, NEW p \in Pending \cup {None},
           Emit(x, p) \/ SubscriberEmit(x) \/ NestedEmit(x) \/ \E b \in Task : TaskEmit(x, b) /\ x \in Event
    PROVE  StepKeeps
<1> USE DEF channelVars, permitVars, loopVars, emitterVars, flushVars, promiseVars
<1>1. Msg(x) \in Message
  BY Zenon, MsgType DEF Message
<1>2. \A b \in Task : StartTask(x) /\ task'[b] = "running" => task[b] = "running" \/ b = x
  BY Zenon DEF StartTask
<1>3. CASE Emit(x, p)
  <2>1. /\ place[x] = "unused" /\ Attach(x, x) /\ Move({x}, "queue") /\ Promise(x, p) /\ StartTask(x)
        /\ queue' = Append(queue, Msg(x)) /\ (p # None => pending[p] = "registered")
        /\ UNCHANGED <<stack, delivering, active, pending, foreign, flush, mode, atCall, taskBuffer>>
    BY Zenon, <1>3 DEF Emit, Unused, SendPublication
  <2>2. /\ HistoryInv' /\ Kept(0) /\ \A f \in Flush : HistoryKept(f)
        /\ (\A f \in Flush : Promise(x, p) /\ p \in owed[f] /\ lineage[p] \in atCall[f] => Covered(f, x))
              => StepKeeps
    BY Zenon, <1>1, <1>2, <2>1, Birth
  <2>3. ASSUME NEW f \in Flush, p \in owed[f]
        PROVE  Covered(f, x)
    <3>1. p \in Lineage
      BY Zenon, <2>3 DEF Around, TypeOK
    <3>2. p # None /\ p \in Pending
      BY Zenon, <3>1, DisjointIds DEF Lineage, Publication
    <3>3. permits \subseteq permits' /\ lineage'[x] = x /\ place'[x] = "queue"
      BY Zenon, <2>1, Born
    <3>4. owed[f] \subseteq owed'[f]
      BY Zenon, <2>2 DEF HistoryKept
    <3> QED BY Zenon, <2>1, <2>3, <3>2, <3>3, <3>4, CoveredByCall
  <2> QED BY Zenon, <2>2, <2>3
<1>4. CASE SubscriberEmit(x) \/ NestedEmit(x)
  <2>0. delivering.stage # "idle"
    BY <1>4 DEF SubscriberEmit, NestedEmit, MiddlewareStages
  <2>1. PICK to, o, l :
          /\ to = "queue" \/ to = "nested"
          /\ o = delivering.event /\ l = lineage[delivering.event]
          /\ place[x] = "unused" /\ Attach(x, l) /\ Move({x}, to) /\ Promise(x, o) /\ StartTask(x)
          /\ UNCHANGED queue \/ queue' = Append(queue, Msg(x))
          /\ UNCHANGED <<stack, delivering, active, pending, foreign, flush, mode, atCall, taskBuffer>>
    BY ZenonT(60), <1>4 DEF SubscriberEmit, NestedEmit, Unused, SendPublication
  <2>2. to # "unused"
    <3>1. "queue" # "unused" /\ "nested" # "unused"
      OBVIOUS
    <3> QED BY Zenon, <2>1, <3>1
  <2>3. (\A f \in Flush : Promise(x, o) /\ o \in owed[f] /\ lineage[o] \in atCall[f] => Covered(f, x))
              => StepKeeps
    BY Zenon, <1>1, <1>2, <2>1, <2>2, Birth
  <2>4. ASSUME NEW f \in Flush, o \in owed[f], lineage[o] \in atCall[f]
        PROVE  Covered(f, x)
    <3>1. lineage'[x] = l
      BY Zenon, <2>1, Born
    <3> QED BY Zenon, <2>0, <2>1, <2>4, <3>1, CallbackEvent, CoveredByEvent
  <2> QED BY Zenon, <2>3, <2>4
<1>5. ASSUME NEW b \in Task, TaskEmit(x, b), x \in Event
      PROVE  StepKeeps
  <2>1. /\ place[x] = "unused" /\ Attach(x, x) /\ Move({x}, "task") /\ Promise(x, b) /\ task[b] = "running"
        /\ taskBuffer' = [taskBuffer EXCEPT ![b] = Append(@, Msg(x))]
        /\ UNCHANGED <<queue, task, stack, delivering, active, pending, foreign, flush, mode, atCall>>
    BY Zenon, <1>5 DEF TaskEmit, Unused
  <2>2. x \in Ids(taskBuffer'[b]) /\ \A c \in Task : Ids(taskBuffer[c]) \subseteq Ids(taskBuffer'[c])
    BY Zenon, <1>5, <2>1, BufferGrows
  <2>3. /\ HistoryInv' /\ Kept(0) /\ \A f \in Flush : HistoryKept(f)
        /\ (\A f \in Flush : Promise(x, b) /\ b \in owed[f] /\ lineage[b] \in atCall[f] => Covered(f, x))
              => StepKeeps
    BY Zenon, <2>1, <2>2, Birth
  <2>4. ASSUME NEW f \in Flush, b \in owed[f], lineage[b] \in atCall[f]
        PROVE  Covered(f, x)
    <3>1. lineage'[x] = x /\ permits \subseteq permits'
      BY Zenon, <2>1, Born
    <3>2. b \in permits'
      BY Zenon, <2>1, <3>1 DEF Around, Owners
    <3> QED BY Zenon, <1>5, <2>1, <2>2, <2>3, <2>4, <3>1, <3>2, CoveredByTask
  <2> QED BY Zenon, <2>3, <2>4
<1> QED BY Zenon, <1>3, <1>4, <1>5

\* What a captured buffer belongs to.
LEMMA CapturedOwner ==
    ASSUME Around, NEW e \in Event, foreign[e] # None
    PROVE  /\ foreign[e].stage = "task" => foreign[e].owner \in Task
           /\ foreign[e].stage # "task" /\ IsActive(foreign[e]) =>
                 delivering.stage # "idle" /\ delivering.event = foreign[e].owner
<1>1. foreign[e] \in Buffer
  BY Zenon DEF Around, TypeOK
<1> QED BY <1>1 DEF Buffer, MiddlewareStages, IsActive

\* A foreign thread takes its permit.
LEMMA ForeignAttachKeeps ==
    ASSUME Around, HistoryInv, NEW e \in Event, ForeignAttach(e)
    PROVE  StepKeeps
<1> USE DEF channelVars, permitVars, loopVars, emitterVars, flushVars, promiseVars
<1>1. PICK o, l, st :
        /\ o = foreign[e].owner /\ st = foreign[e].stage /\ foreign[e] # None
        /\ l = (IF st = "task" THEN e ELSE lineage[o]) /\ Attach(e, l)
        /\ place[e] = "unused" /\ Move({e}, "attached")
        /\ (st # "task" /\ delivering.stage # "idle" /\ delivering.event = o /\ Promise(e, o)) \/ UNCHANGED owed
        /\ UNCHANGED <<queue, task, taskBuffer, stack, delivering, active, pending, foreign, flush, mode, atCall>>
  BY Zenon, CapturedOwner DEF ForeignAttach
<1>2. e \in Publication /\ "attached" # "unused"
  BY DEF Publication
<1>3. (\A f \in Flush : Promise(e, o) /\ o \in owed[f] /\ lineage[o] \in atCall[f] => Covered(f, e))
        => StepKeeps
  BY Zenon, <1>1, <1>2, Birth
<1>4. CASE st # "task" /\ delivering.stage # "idle" /\ delivering.event = o
  <2>1. lineage'[e] = lineage[o]
    BY Zenon, <1>1, <1>2, <1>4, Born
  <2>2. ASSUME NEW f \in Flush, o \in owed[f], lineage[o] \in atCall[f]
        PROVE  Covered(f, e)
    BY Zenon, <1>1, <1>2, <1>4, <2>1, <2>2, CallbackEvent, CoveredByEvent
  <2> QED BY Zenon, <1>3, <2>2
<1>5. CASE UNCHANGED owed
  <2>0. permits' = permits \cup {e}
    BY Zenon, <1>1, <1>2, Born
  <2>1. /\ HistoryInv' /\ Kept(0) /\ \A f \in Flush : HistoryKept(f)
    BY Zenon, <1>1, <1>2, Birth
  <2>2. ASSUME NEW f \in Flush PROVE NewSafe(f)
    <3>1. ASSUME NEW y \in owed'[f] \cap permits' PROVE y \in owed[f] \cap permits
      <4>1. y = e \/ y \in permits
        BY Zenon, <2>0, <3>1
      <4>2. y # e
        BY Zenon, <1>1, <1>2, <1>5, <3>1 DEF HistoryInv
      <4>3. y \in owed[f]
        BY Zenon, <1>5, <3>1
      <4> QED BY Zenon, <4>1, <4>2, <4>3
    <3> QED BY Zenon, <3>1 DEF NewSafe
  <2> QED BY Zenon, <2>1, <2>2 DEF StepKeeps
<1> QED BY Zenon, <1>1, <1>4, <1>5

\* And pushes, into the buffer it captured or to the channel.
LEMMA ForeignPushKeeps ==
    ASSUME Around, HistoryInv, NEW e \in Event, ForeignPush(e)
    PROVE  StepKeeps
<1> USE DEF channelVars, permitVars, loopVars, emitterVars, flushVars, promiseVars
<1>1. PICK b, to :
        /\ b = foreign[e].owner /\ to # "unused" /\ to # "attached" /\ Move({e}, to)
        /\ foreign[e] # None /\ place[e] = "attached" /\ permits' \subseteq permits /\ permits \subseteq permits' \cup {e}
        /\ UNCHANGED queue \/ queue' = Append(queue, Msg(e))
        /\ \/ UNCHANGED <<taskBuffer, owed>>
           \/ /\ foreign[e].stage = "task" /\ task[b] = "running" /\ Promise(e, b) /\ UNCHANGED permits
              /\ taskBuffer' = [taskBuffer EXCEPT ![b] = Append(@, Msg(e))]
        /\ UNCHANGED <<lineage, task, stack, delivering, active, pending, foreign, flush, mode, atCall>>
  <2>1. "queue" \notin {"unused", "attached"} /\ "nested" \notin {"unused", "attached"}
        /\ "task" \notin {"unused", "attached"} /\ "gone" \notin {"unused", "attached"}
    OBVIOUS
  <2> QED BY Zenon, <2>1 DEF ForeignPush, SendPublication
<1>2. e \in Publication /\ Msg(e) \in Message /\ (foreign[e].stage = "task" => b \in Task)
  BY Zenon, <1>1, MsgType, CapturedOwner DEF Publication, Message
<1>3. \A y \in Publication : place'[y] = IF y = e THEN to ELSE place[y]
  BY Zenon, <1>1 DEF Move
<1>4. \A f \in Flush : /\ owed[f] \subseteq owed'[f]
                       /\ \A y \in owed'[f] : \/ y \in owed[f]
                                              \/ /\ y = e /\ flush[f] = "waiting"
                                                 /\ Promise(e, b)
                                                 /\ b \in owed[f] /\ lineage[b] \in atCall[f]
  <2>1. Promise(e, b) \/ UNCHANGED owed
    BY Zenon, <1>1
  <2> QED BY Zenon, <2>1, PromiseGrows
<1>5. \A c \in Task : Ids(taskBuffer[c]) \subseteq Ids(taskBuffer'[c])
  <2>1. CASE UNCHANGED taskBuffer
    BY Zenon, <2>1
  <2>2. CASE foreign[e].stage = "task" /\ taskBuffer' = [taskBuffer EXCEPT ![b] = Append(@, Msg(e))]
    BY Zenon, <1>2, <2>2, BufferGrows
  <2> QED BY Zenon, <1>1, <2>1, <2>2
<1>6. Kept(0)
  <2>1. \A y \in Publication \cap permits \cap permits' : place[y] = "attached" \/ place'[y] = place[y]
    BY Zenon, <1>1, <1>3
  <2>2. \A p \in Pending \cap permits : p \in permits'
    BY Zenon, <1>1, DisjointIds
  <2>3. CallsKept
    BY Zenon, <1>1 DEF CallsKept
  <2>4. \A c \in Task : Ids(taskBuffer[c]) \cap permits' \subseteq Ids(taskBuffer'[c])
    BY Zenon, <1>5
  <2> QED BY Zenon, <1>1, <1>2, <2>1, <2>2, <2>3, <2>4, EnvKept
<1>7. \A f \in Flush : HistoryKept(f)
  <2>1. \A y \in Event : place'[y] = "attached" =>
          place[y] = "unused" \/ (place[y] = "attached" /\ foreign'[y] = foreign[y])
    BY Zenon, <1>1, <1>3 DEF Publication
  <2> QED BY Zenon, <1>1, <1>4, <2>1, EnvHistory
<1>8. HistoryInv'
  <2>1. \A y \in Publication : place[y] # "unused" => place'[y] # "unused"
    BY Zenon, <1>1, <1>3
  <2>2. \A f \in Flush : \A y \in owed'[f] :
          y \in owed[f] \/ (flush[f] = "waiting" /\ y \in Publication /\ place'[y] # "unused")
    BY Zenon, <1>1, <1>2, <1>3, <1>4
  <2>3. \A y \in permits' : \/ y \in permits
                            \/ y \in Publication /\ place[y] = "unused"
                            \/ y \in Pending /\ pending[y] = "none"
    BY Zenon, <1>1
  <2>4. \A p \in Pending : pending[p] # "none" => pending'[p] # "none"
    BY Zenon, <1>1
  <2> QED BY Zenon, <1>1, <2>1, <2>2, <2>3, <2>4, HistoryGrows
<1>9. ASSUME NEW f \in Flush PROVE NewSafe(f)
  <2> SUFFICES ASSUME NEW y \in owed'[f] \cap permits', y \notin owed[f] \cap permits
               PROVE  Covered(f, y)
    BY Zenon DEF NewSafe
  <2>1. y \notin owed[f] /\ y = e /\ b \in owed[f] /\ lineage[b] \in atCall[f]
    BY Zenon, <1>1, <1>4
  <2>2. /\ foreign[e].stage = "task" /\ task[b] = "running" /\ UNCHANGED permits
        /\ taskBuffer' = [taskBuffer EXCEPT ![b] = Append(@, Msg(e))]
    BY Zenon, <1>1, <2>1
  <2>3. e \in Ids(taskBuffer'[b]) /\ b \in permits'
    BY Zenon, <1>2, <2>2, BufferGrows DEF Around, Owners
  <2>4. lineage'[e] = e
    BY Zenon, <1>1, <2>2 DEF Around, OwnershipInv, LineageInv
  <2> QED BY Zenon, <1>1, <1>2, <1>6, <1>7, <2>1, <2>2, <2>3, <2>4, CoveredByTask
<1> QED BY Zenon, <1>6, <1>7, <1>8, <1>9 DEF StepKeeps

\* A step that emits nothing.
LEMMA QuietStep ==
    ASSUME Around, HistoryInv, UNCHANGED <<stack, delivering, active, flush, mode, atCall, owed>>,
           UNCHANGED queue \/ \E m \in Message : queue' = Append(queue, m),
           \A y \in permits \cap permits' : lineage'[y] = lineage[y],
           \A y \in Publication \cap permits' : y \in permits /\ place'[y] = place[y],
           \A y \in Publication : place[y] # "unused" => place'[y] # "unused",
           \A e \in Event : place'[e] = "attached" => place[e] = "attached" /\ foreign'[e] = foreign[e],
           \A p \in Pending : pending[p] # "none" => pending'[p] # "none",
           \A p \in Pending \cap permits : p \in permits',
           \A p \in Pending \cap permits' : p \in permits \/ pending[p] = "none",
           \A b \in Task : Ids(taskBuffer[b]) \cap permits' \subseteq Ids(taskBuffer'[b]),
           \A b \in Task : task'[b] = "running" => task[b] = "running",
           CallsKept
    PROVE  StepKeeps
<1>1. Kept(0)
  BY Zenon, EnvKept
<1>2. \A f \in Flush : HistoryKept(f)
  BY Zenon, EnvHistory
<1>3. ASSUME NEW y \in permits' PROVE y \in permits \/ (y \in Pending /\ pending[y] = "none")
  BY Zenon, <1>3 DEF Around, TypeOK, Lineage
<1>4. HistoryInv'
  BY Zenon, <1>3, HistoryGrows
<1>5. ASSUME NEW f \in Flush PROVE NewSafe(f)
  <2>1. \A y \in owed[f] \cap Pending : pending[y] # "none"
    BY Zenon DEF HistoryInv
  <2>2. \A y \in owed'[f] \cap permits' : y \in owed[f] \cap permits
    BY Zenon, <1>3, <2>1
  <2> QED BY Zenon, <2>2 DEF NewSafe
<1> QED BY Zenon, <1>1, <1>2, <1>4, <1>5 DEF StepKeeps

\* What else threads and tasks do, short of calling a flush.
LEMMA QuietKeeps ==
    ASSUME Around, HistoryInv,
           \/ \E e \in Event : EmitLost(e) \/ ForeignCapture(e)
           \/ \E b \in Task : TaskFinish(b) \/ TaskDrop(b)
           \/ UNCHANGED vars
    PROVE  StepKeeps
<1> USE DEF channelVars, permitVars, loopVars, emitterVars, flushVars, promiseVars
<1>1. UNCHANGED <<queue, lineage, stack, delivering, active, pending, flush, mode, atCall, owed>>
  BY Zenon DEF EmitLost, ForeignCapture, TaskFinish, TaskDrop, vars
<1>2. CallsKept
  BY Zenon, <1>1 DEF CallsKept
<1>3. \A y \in Publication : y \in permits' => place'[y] # "gone" /\ place'[y] # "unused"
  <2>1. \A y \in Publication : y \in permits' => place'[y] \notin {"unused", "gone"}
    BY Zenon DEF Around, Owners
  <2> QED BY <2>1
<1>4. \A y \in Publication : y \notin permits => place[y] \in {"unused", "gone"}
  BY Zenon DEF Around, Owners
<1>5. ASSUME NEW X, Move(X, "gone") \/ UNCHANGED place, NEW L, permits' = permits \ L, L \cap Pending = {},
             \A b \in Task : Ids(taskBuffer[b]) \cap permits' \subseteq Ids(taskBuffer'[b]),
             \A b \in Task : task'[b] = "running" => task[b] = "running",
             \A e \in Event : place[e] = "attached" => foreign'[e] = foreign[e]
      PROVE  StepKeeps
  <2>1. \A y \in Publication : place'[y] = place[y] \/ place'[y] = "gone"
    BY Zenon, <1>5 DEF Move
  <2>2. "gone" # "unused" /\ "gone" # "attached"
    OBVIOUS
  <2>3. \A y \in Publication \cap permits' : y \in permits /\ place'[y] = place[y]
    BY Zenon, <1>3, <1>5, <2>1
  <2>4. /\ \A y \in Publication : place[y] # "unused" => place'[y] # "unused"
        /\ \A e \in Event : place'[e] = "attached" => place[e] = "attached" /\ foreign'[e] = foreign[e]
    BY Zenon, <1>5, <2>1, <2>2 DEF Publication
  <2>5. /\ \A p \in Pending \cap permits : p \in permits'
        /\ \A p \in Pending \cap permits' : p \in permits \/ pending[p] = "none"
    BY Zenon, <1>5
  <2>6. \A p \in Pending : pending[p] # "none" => pending'[p] # "none"
    BY Zenon, <1>1
  <2>7. \A y \in permits \cap permits' : lineage'[y] = lineage[y]
    BY Zenon, <1>1
  <2> QED BY Zenon, <1>1, <1>2, <1>5, <2>3, <2>4, <2>5, <2>6, <2>7, QuietStep
<1>6. permits = permits \ {} /\ {} \cap Pending = {}
  BY Zenon
<1>7. CASE \E e \in Event : EmitLost(e)
  <2>1. PICK e \in Event : EmitLost(e)
    BY <1>7
  <2>2. Move({e}, "gone") /\ permits' = permits \ {} /\ UNCHANGED <<taskBuffer, task, foreign>>
    BY Zenon, <1>6, <2>1 DEF EmitLost
  <2>3. \A b \in Task : Ids(taskBuffer[b]) \cap permits' \subseteq Ids(taskBuffer'[b])
    BY Zenon, <2>2
  <2> QED BY Zenon, <1>5, <1>6, <2>2, <2>3
<1>8. CASE \E e \in Event : ForeignCapture(e)
  <2>1. PICK e \in Event : ForeignCapture(e)
    BY <1>8
  <2>2. PICK buf : /\ UNCHANGED place /\ permits' = permits \ {} /\ UNCHANGED <<taskBuffer, task>>
                   /\ place[e] = "unused" /\ foreign' = [foreign EXCEPT ![e] = buf]
    BY Zenon, <1>6, <2>1 DEF ForeignCapture, Unused
  <2>3. \A b \in Task : Ids(taskBuffer[b]) \cap permits' \subseteq Ids(taskBuffer'[b])
    BY Zenon, <2>2
  <2>4. \A y \in Event : place[y] = "attached" => foreign'[y] = foreign[y]
    <3>1. foreign \in [Event -> Buffer \cup {None}]
      BY Zenon DEF Around, TypeOK
    <3> QED BY <2>2, <3>1
  <2> QED BY Zenon, <1>5, <1>6, <2>2, <2>3, <2>4
<1>9. CASE \E b \in Task : TaskFinish(b)
  <2>1. PICK b \in Task : TaskFinish(b)
    BY <1>9
  <2>2. /\ UNCHANGED place /\ permits' = permits \ {} /\ UNCHANGED <<taskBuffer, foreign>>
        /\ task' = [task EXCEPT ![b] = "published"]
    BY Zenon, <1>6, <2>1 DEF TaskFinish
  <2>3. \A c \in Task : Ids(taskBuffer[c]) \cap permits' \subseteq Ids(taskBuffer'[c])
    BY Zenon, <2>2
  <2>4. \A c \in Task : task'[c] = "running" => task[c] = "running"
    <3>1. task \in [Task -> {"none", "running", "published", "dropped"}]
      BY Zenon DEF Around, TypeOK
    <3> QED BY <2>2, <3>1
  <2> QED BY Zenon, <1>5, <1>6, <2>2, <2>3, <2>4
<1>10. CASE \E b \in Task : TaskDrop(b)
  <2>1. PICK b \in Task : TaskDrop(b)
    BY <1>10
  <2>2. PICK L : /\ L = Ids(taskBuffer[b]) /\ Move(L, "gone") /\ permits' = permits \ L /\ UNCHANGED foreign
                 /\ taskBuffer' = [taskBuffer EXCEPT ![b] = <<>>] /\ task' = [task EXCEPT ![b] = "dropped"]
    BY Zenon, <2>1 DEF TaskDrop
  <2>3. L \subseteq Event /\ L \cap Pending = {}
    BY ZenonT(60), <2>2, DisjointIds DEF Around, Owners
  <2>4. \A c \in Task : task'[c] = "running" => task[c] = "running"
    <3>1. task \in [Task -> {"none", "running", "published", "dropped"}]
      BY Zenon DEF Around, TypeOK
    <3> QED BY <2>2, <3>1
  <2>5. \A c \in Task : c = b \/ taskBuffer'[c] = taskBuffer[c]
    <3>1. taskBuffer \in [Task -> Seq(DeliverMsg)]
      BY Zenon DEF Around, TypeOK
    <3> QED BY <2>2, <3>1
  <2>6. \A c \in Task : Ids(taskBuffer[c]) \cap permits' \subseteq Ids(taskBuffer'[c])
    BY Zenon, <2>2, <2>5
  <2> QED BY Zenon, <1>5, <2>2, <2>3, <2>4, <2>6
<1>11. CASE UNCHANGED vars
  <2>1. UNCHANGED <<place, taskBuffer, task, foreign>> /\ permits' = permits \ {}
    BY Zenon, <1>6, <1>11 DEF vars
  <2>2. \A c \in Task : Ids(taskBuffer[c]) \cap permits' \subseteq Ids(taskBuffer'[c])
    BY Zenon, <2>1
  <2> QED BY Zenon, <1>5, <1>6, <2>1, <2>2
<1> QED BY Zenon, <1>7, <1>8, <1>9, <1>10, <1>11

\* A managed call takes its handle.
LEMMA RegisterKeeps ==
    ASSUME Around, HistoryInv, NEW p \in Pending, RegisterPending(p)
    PROVE  StepKeeps
<1> USE DEF channelVars, permitVars, loopVars, emitterVars, flushVars, promiseVars
<1>1. /\ pending[p] = "none" /\ queue' = Append(queue, [kind |-> "register", id |-> p]) /\ Attach(p, p)
      /\ pending' = [pending EXCEPT ![p] = "registered"]
      /\ UNCHANGED <<stack, delivering, active, flush, mode, atCall, owed, task, taskBuffer, place, foreign>>
  BY Zenon DEF RegisterPending
<1>2. [kind |-> "register", id |-> p] \in Message /\ p \notin Publication
  BY DisjointIds DEF Message, Publication
<1>3. p \notin permits
  <2>1. p \in permits <=> pending[p] \in {"registered", "released"}
    BY Zenon DEF Around, OwnershipInv, PendingInv
  <2> QED BY <1>1, <2>1
<1>4. permits' = permits \cup {p} /\ \A y \in permits : lineage'[y] = lineage[y]
  <2>1. lineage \in [Lineage -> Lineage] /\ permits \subseteq Lineage
    BY Zenon DEF Around, TypeOK
  <2> QED BY <1>1, <1>3, <2>1 DEF Attach
<1>5. \A q \in Pending : pending'[q] = IF q = p THEN "registered" ELSE pending[q]
  <2>1. pending \in [Pending -> {"none", "registered", "released", "done"}]
    BY Zenon DEF Around, TypeOK
  <2> QED BY <1>1, <2>1
<1>6. CallsKept
  BY Zenon, <1>3, <1>5 DEF CallsKept
<1>7. \A q \in Pending : pending[q] # "none" => pending'[q] # "none"
  BY Zenon, <1>1, <1>5
<1>8. /\ \A y \in permits \cap permits' : lineage'[y] = lineage[y]
      /\ \A y \in Publication \cap permits' : y \in permits /\ place'[y] = place[y]
      /\ \A y \in Publication : place[y] # "unused" => place'[y] # "unused"
      /\ \A e \in Event : place'[e] = "attached" => place[e] = "attached" /\ foreign'[e] = foreign[e]
      /\ \A q \in Pending \cap permits : q \in permits'
      /\ \A q \in Pending \cap permits' : q \in permits \/ pending[q] = "none"
      /\ \A b \in Task : task'[b] = "running" => task[b] = "running"
  BY Zenon, <1>1, <1>2, <1>4
<1>9. \A b \in Task : Ids(taskBuffer[b]) \cap permits' \subseteq Ids(taskBuffer'[b])
  BY Zenon, <1>1
<1> QED BY Zenon, <1>1, <1>2, <1>6, <1>7, <1>8, <1>9, QuietStep

\* And drops it, which queues its completion.
LEMMA ReleaseKeeps ==
    ASSUME Around, HistoryInv, NEW p \in Pending, ReleasePending(p)
    PROVE  StepKeeps
<1> USE DEF channelVars, permitVars, loopVars, emitterVars, flushVars, promiseVars
<1>1. /\ queue' = Append(queue, [kind |-> "complete", id |-> p])
      /\ pending' = [pending EXCEPT ![p] = "released"]
      /\ UNCHANGED <<permits, lineage, stack, delivering, active, flush, mode, atCall, owed,
                     task, taskBuffer, place, foreign>>
  BY Zenon DEF ReleasePending
<1>2. [kind |-> "complete", id |-> p] \in Message
  BY DEF Message
<1>3. \A q \in Pending : pending'[q] = IF q = p THEN "released" ELSE pending[q]
  <2>1. pending \in [Pending -> {"none", "registered", "released", "done"}]
    BY Zenon DEF Around, TypeOK
  <2> QED BY <1>1, <2>1
<1>4. "released" # "none"
  OBVIOUS
<1>5. \E k \in DOMAIN queue' : CompleteAt(k, p)' /\ \A j \in DOMAIN queue' : j = k \/ j < k
  <2>1. queue \in Seq(Message) /\ [kind |-> "complete", id |-> p].kind = "complete"
        /\ [kind |-> "complete", id |-> p].id = p
    BY Zenon DEF Around, TypeOK
  <2>2. PICK k : k = Len(queue) + 1
    OBVIOUS
  <2>3. /\ k \in DOMAIN queue' /\ queue'[k] = [kind |-> "complete", id |-> p]
        /\ \A j \in DOMAIN queue' : j \in DOMAIN queue \/ j = k
    BY Zenon, <1>1, <1>2, <2>1, <2>2, SentAt
  <2>4. \A j \in DOMAIN queue : j < k
    BY <2>1, <2>2, SeqLen
  <2>5. CompleteAt(k, p)'
    BY Zenon, <2>1, <2>3 DEF CompleteAt
  <2> QED BY Zenon, <2>3, <2>4, <2>5
<1>6. CallsKept
  BY Zenon, <1>3, <1>5 DEF CallsKept
<1>7. \A q \in Pending : pending[q] # "none" => pending'[q] # "none"
  BY Zenon, <1>3, <1>4
<1>8. /\ \A y \in permits \cap permits' : lineage'[y] = lineage[y]
      /\ \A y \in Publication \cap permits' : y \in permits /\ place'[y] = place[y]
      /\ \A y \in Publication : place[y] # "unused" => place'[y] # "unused"
      /\ \A e \in Event : place'[e] = "attached" => place[e] = "attached" /\ foreign'[e] = foreign[e]
      /\ \A q \in Pending \cap permits : q \in permits'
      /\ \A q \in Pending \cap permits' : q \in permits \/ pending[q] = "none"
      /\ \A b \in Task : task'[b] = "running" => task[b] = "running"
  BY Zenon, <1>1
<1>9. \A b \in Task : Ids(taskBuffer[b]) \cap permits' \subseteq Ids(taskBuffer'[b])
  BY Zenon, <1>1
<1> QED BY Zenon, <1>1, <1>2, <1>6, <1>7, <1>8, <1>9, QuietStep

\* Every step of an emitter keeps the invariants of the flushes.
LEMMA EmitterFlushes ==
    ASSUME Around, HistoryInv, QueuedFlushInv, DeferredFlushInv, [Next]_vars, ~DispatcherStep,
           \A f \in Flush : ~FlushInCallback(f) /\ \A m \in Modes : ~FlushCall(f, m)
    PROVE  HistoryInv' /\ QueuedFlushInv' /\ DeferredFlushInv'
<1> USE DEF channelVars, permitVars, loopVars, emitterVars, flushVars, promiseVars
<1>0. ASSUME NEW x \in Publication PROVE Msg(x) \in Message /\ Msg(x).kind # "flush"
  <2>1. Msg(x) \in Message
    BY Zenon, MsgType DEF Message
  <2>2. Msg(x).kind # "flush"
    BY DEF Msg
  <2> QED BY Zenon, <2>1, <2>2
<1>1. ASSUME StepKeeps, UNCHANGED <<pendingFlushes, flush>>, NEW x \in Publication,
             UNCHANGED queue \/ queue' = Append(queue, Msg(x))
      PROVE  HistoryInv' /\ QueuedFlushInv' /\ DeferredFlushInv'
  BY Zenon, <1>0, <1>1, EnvDone
<1>2. CASE \E x \in Publication, p \in Pending \cup {None} : Emit(x, p)
  <2>1. PICK x \in Publication, p \in Pending \cup {None} : Emit(x, p)
    BY Zenon, <1>2
  <2>2. UNCHANGED <<pendingFlushes, flush>> /\ queue' = Append(queue, Msg(x))
    BY Zenon, <2>1 DEF Emit, SendPublication
  <2> QED BY Zenon, <1>1, <2>1, <2>2, EmitKeeps
<1>3. CASE \E x \in Publication : SubscriberEmit(x) \/ NestedEmit(x)
  <2>1. PICK x \in Publication : SubscriberEmit(x) \/ NestedEmit(x)
    BY Zenon, <1>3
  <2>2. UNCHANGED <<pendingFlushes, flush>> /\ (UNCHANGED queue \/ queue' = Append(queue, Msg(x)))
    BY Zenon, <2>1 DEF SubscriberEmit, NestedEmit, SendPublication
  <2> QED BY Zenon, <1>1, <2>1, <2>2, EmitKeeps
<1>4. CASE \E e \in Event : ForeignAttach(e) \/ ForeignPush(e)
  <2>1. PICK e \in Event : ForeignAttach(e) \/ ForeignPush(e)
    BY Zenon, <1>4
  <2>2. UNCHANGED <<pendingFlushes, flush>> /\ (UNCHANGED queue \/ queue' = Append(queue, Msg(e)))
    BY Zenon, <2>1 DEF ForeignAttach, ForeignPush, SendPublication
  <2> QED BY Zenon, <1>1, <2>1, <2>2, ForeignAttachKeeps, ForeignPushKeeps DEF Publication
<1>5. CASE \E b \in Task, e \in Event : TaskEmit(e, b)
  <2>1. PICK b \in Task, e \in Event : TaskEmit(e, b)
    BY Zenon, <1>5
  <2>2. UNCHANGED <<pendingFlushes, flush, queue>>
    BY Zenon, <2>1 DEF TaskEmit
  <2>3. StepKeeps
    BY Zenon, <2>1, EmitKeeps DEF Publication
  <2> QED BY Zenon, <1>1, <2>2, <2>3 DEF Publication
<1>6. CASE \E p \in Pending : RegisterPending(p) \/ ReleasePending(p)
  <2>1. PICK p \in Pending : RegisterPending(p) \/ ReleasePending(p)
    BY Zenon, <1>6
  <2>2. PICK m : /\ m = [kind |-> "register", id |-> p] \/ m = [kind |-> "complete", id |-> p]
                 /\ queue' = Append(queue, m) /\ UNCHANGED <<pendingFlushes, flush>>
    BY Zenon, <2>1 DEF RegisterPending, ReleasePending
  <2>3. m \in Message /\ m.kind # "flush"
    BY <2>2 DEF Message
  <2> QED BY Zenon, <2>1, <2>2, <2>3, RegisterKeeps, ReleaseKeeps, EnvDone
<1>7. CASE \/ \E e \in Event : EmitLost(e) \/ ForeignCapture(e)
           \/ \E b \in Task : TaskFinish(b) \/ TaskDrop(b)
           \/ UNCHANGED vars
  <2>1. UNCHANGED <<pendingFlushes, flush, queue>>
    BY Zenon, <1>7 DEF EmitLost, ForeignCapture, TaskFinish, TaskDrop, vars
  <2> QED BY Zenon, <1>7, <2>1, QuietKeeps, EnvDone
<1> QED BY Zenon, <1>2, <1>3, <1>4, <1>5, <1>6, <1>7 DEF Next

\* What is in the channel is ahead of a message that is sent now.
LEMMA AheadOfNew ==
    ASSUME Around, NEW m \in Message, queue' = Append(queue, m), NEW k, k = Len(queue) + 1
    PROVE  /\ \A x \in Publication : place[x] = "queue" => \E j \in DOMAIN queue' : j < k /\ QueuedAt(j, x)'
           /\ \A p \in Pending \cap permits : p \in active \/ \E j \in DOMAIN queue' : j < k /\ RegisterAt(j, p)'
           /\ k \in DOMAIN queue' /\ queue'[k] = m
<1>1. queue \in Seq(Message)
  BY Zenon DEF Around, TypeOK
<1>2. /\ \A j \in DOMAIN queue : j \in DOMAIN queue' /\ queue'[j] = queue[j]
      /\ k \in DOMAIN queue' /\ queue'[k] = m
  BY Zenon, <1>1, SentAt
<1>3. \A j \in DOMAIN queue : j < k
  BY <1>1, SeqLen
<1>4. ASSUME NEW x \in Publication, place[x] = "queue"
      PROVE  \E j \in DOMAIN queue' : j < k /\ QueuedAt(j, x)'
  <2>1. PICK j \in DOMAIN queue : QueuedAt(j, x)
    BY Zenon, <1>4 DEF Around, Owners
  <2>2. QueuedAt(j, x)' /\ j \in DOMAIN queue' /\ j < k
    BY Zenon, <1>2, <1>3, <2>1 DEF QueuedAt
  <2> QED BY Zenon, <2>2
<1>5. ASSUME NEW p \in Pending, p \in permits, p \notin active
      PROVE  \E j \in DOMAIN queue' : j < k /\ RegisterAt(j, p)'
  <2>1. PICK j \in DOMAIN queue : RegisterAt(j, p)
    BY Zenon, <1>5 DEF Around, OwnershipInv, PendingInv
  <2>2. RegisterAt(j, p)' /\ j \in DOMAIN queue' /\ j < k
    BY Zenon, <1>2, <1>3, <2>1 DEF RegisterAt
  <2> QED BY Zenon, <2>2
<1> QED BY Zenon, <1>2, <1>4, <1>5

\* A flush that is sent behind all that is on its way misses nothing of it.
LEMMA NewFlushSafe ==
    ASSUME Around, NEW f \in Flush, NEW m \in Message, queue' = Append(queue, m), NEW k, k = Len(queue) + 1,
           UNCHANGED <<permits, active, place, taskBuffer, task>>, flush'[f] # "idle",
           \A x \in owed'[f] \cap Publication : place[x] # "attached"
    PROVE  QueuedSafe(f, k)'
<1>1. /\ \A x \in Publication : place[x] = "queue" => \E j \in DOMAIN queue' : j < k /\ QueuedAt(j, x)'
      /\ \A p \in Pending \cap permits : p \in active \/ \E j \in DOMAIN queue' : j < k /\ RegisterAt(j, p)'
  BY Zenon, AheadOfNew
<1>2. ASSUME NEW b \in Task, b \in permits PROVE TaskAhead(b, k)'
  <2>1. place[b] \in {"queue", "nested", "stack"} /\ b \in Publication
    BY Zenon, <1>2 DEF Around, Owners, Publication
  <2>2. CASE place[b] = "queue"
    BY Zenon, <1>1, <2>1, <2>2 DEF TaskAhead
  <2>3. CASE place[b] \in {"stack", "nested"}
    BY Zenon, <2>3 DEF TaskAhead
  <2> QED BY Zenon, <2>1, <2>2, <2>3
<1>3. ASSUME NEW b \in Task, AttachedBefore(f, b)' PROVE TaskAhead(b, k)'
  <2>1. b \in permits
    BY Zenon, <1>3 DEF AttachedBefore, Around, Owners
  <2> QED BY Zenon, <1>2, <2>1
<1>4. ASSUME NEW x \in owed'[f] \cap permits' PROVE SafeQueued(f, k, x)'
  <2>1. CASE x \in Pending
    BY Zenon, <1>1, <1>4, <2>1 DEF SafeQueued
  <2>2. CASE x \in Publication
    <3>1. place[x] \in Places /\ place[x] \notin {"unused", "gone", "attached"}
      <4>1. place[x] \notin {"unused", "gone"}
        BY Zenon, <1>4, <2>2 DEF Around, Owners
      <4>2. place[x] \in Places
        BY Zenon, <2>2 DEF Around, TypeOK
      <4>3. place[x] # "attached"
        BY Zenon, <1>4, <2>2
      <4> QED BY <4>1, <4>2, <4>3
    <3>2. place[x] \in {"queue", "task", "stack", "delivering", "nested"}
      BY <3>1 DEF Places
    <3>3. CASE place[x] = "queue"
      BY Zenon, <1>1, <2>2, <3>3 DEF SafeQueued
    <3>4. CASE place[x] = "task"
      <4>1. PICK b \in Task : x \in Ids(taskBuffer[b]) /\ b \in permits
        BY Zenon, <2>2, <3>4 DEF Around, Owners
      <4>2. x \in Ids(taskBuffer'[b]) /\ TaskAhead(b, k)'
        BY Zenon, <1>2, <4>1
      <4> QED BY Zenon, <2>2, <4>2 DEF SafeQueued
    <3>5. CASE place[x] \in {"stack", "delivering", "nested"}
      BY Zenon, <2>2, <3>5 DEF SafeQueued
    <3> QED BY Zenon, <3>2, <3>3, <3>4, <3>5
  <2>3. x \in Lineage
    BY Zenon, <1>4 DEF Around, TypeOK
  <2> QED BY Zenon, <2>1, <2>2, <2>3 DEF Lineage
<1> QED BY Zenon, <1>3, <1>4 DEF QueuedSafe

\* The histories of a flush that is called now.
LEMMA CalledHistory ==
    ASSUME Around, NEW m \in Modes
    PROVE  /\ \A x \in InTransit(m) \cap Publication : place[x] # "unused" /\ place[x] # "attached"
           /\ \A p \in InTransit(m) \cap Pending : pending[p] # "none" /\ m = "all"
           /\ \A l \in Publication : Outstanding(l) => place[l] # "unused"
<1>1. \A x \in Publication : x \in permits => place[x] # "unused" /\ x \notin Pending
  <2>1. \A x \in Publication : x \in permits => place[x] \notin {"unused", "gone"}
    BY Zenon DEF Around, Owners
  <2> QED BY <2>1, DisjointIds DEF Publication
<1>2. \A p \in Pending : p \in permits => pending[p] # "none"
  <2>1. \A p \in Pending : p \in permits => pending[p] \in {"registered", "released"}
    BY Zenon DEF Around, OwnershipInv, PendingInv
  <2> QED BY <2>1
<1>3. \A x \in InTransit(m) : x \in permits /\ (x \in Pending => m = "all") /\ (x \notin Pending => place[x] # "attached")
  BY Zenon DEF InTransit
<1>4. ASSUME NEW l \in Publication, NEW x \in permits, lineage[x] = l PROVE place[l] # "unused"
  <2>1. x \in Lineage
    BY Zenon, <1>4 DEF Around, TypeOK
  <2>2. CASE x \in Publication
    BY Zenon, <1>1, <1>4, <2>2 DEF Around, OwnershipInv, LineageInv
  <2>3. CASE x \in Pending
    <3>1. lineage[x] = x /\ x \notin Publication
      BY Zenon, <2>3, DisjointIds DEF Around, OwnershipInv, LineageInv, Publication
    <3> QED BY Zenon, <1>4, <3>1
  <2> QED BY Zenon, <2>1, <2>2, <2>3 DEF Lineage
<1> QED BY Zenon, <1>1, <1>2, <1>3, <1>4 DEF Outstanding

\* A flush is called: the others keep what they had, and it misses nothing itself.
LEMMA CallFlushes ==
    ASSUME Around, HistoryInv, QueuedFlushInv, DeferredFlushInv, NEW f \in Flush, NEW m \in Modes,
           FlushInCallback(f) \/ FlushCall(f, m)
    PROVE  HistoryInv' /\ QueuedFlushInv' /\ DeferredFlushInv'
<1> USE DEF channelVars, permitVars, loopVars, emitterVars, flushVars, promiseVars
<1> DEFINE msg == [kind |-> "flush", id |-> f]
<1>1. /\ flush[f] = "idle"
      /\ UNCHANGED <<permits, lineage, active, pendingFlushes, stack, delivering, task, taskBuffer,
                     pending, foreign, place>>
      /\ mode' = mode \/ mode' = [mode EXCEPT ![f] = m]
  BY Zenon DEF FlushInCallback, FlushCall
<1>2. \/ /\ UNCHANGED <<queue, owed, atCall>>
         /\ \E r \in {"ok", "failed", "skipped"} : flush' = [flush EXCEPT ![f] = r]
      \/ /\ queue' = Append(queue, msg) /\ flush' = [flush EXCEPT ![f] = "waiting"]
         /\ mode' = [mode EXCEPT ![f] = m]
         /\ owed' = [owed EXCEPT ![f] = InTransit(m)]
         /\ atCall' = [atCall EXCEPT ![f] = {l \in Lineage : Outstanding(l)}]
  BY Zenon DEF FlushInCallback, FlushCall
<1>3. /\ msg \in Message /\ msg.kind = "flush" /\ msg.id = f
  BY DEF Message
<1> HIDE DEF msg
<1>4. /\ flush \in [Flush -> {"idle", "waiting", "ok", "skipped", "failed"}] /\ mode \in [Flush -> Modes]
      /\ owed \in [Flush -> SUBSET Lineage] /\ atCall \in [Flush -> SUBSET Lineage]
      /\ permits \subseteq Lineage
  BY Zenon DEF Around, TypeOK
<1>5. ASSUME NEW g \in Flush, g # f
      PROVE  flush'[g] = flush[g] /\ mode'[g] = mode[g] /\ owed'[g] = owed[g] /\ atCall'[g] = atCall[g]
  <2>1. flush'[g] = flush[g]
    BY <1>2, <1>4, <1>5
  <2>2. mode'[g] = mode[g]
    BY <1>1, <1>4, <1>5
  <2>3. owed'[g] = owed[g]
    BY <1>2, <1>4, <1>5
  <2>4. atCall'[g] = atCall[g]
    BY <1>2, <1>4, <1>5
  <2> QED BY <2>1, <2>2, <2>3, <2>4
<1>6. flush'[f] # "idle"
  BY <1>2, <1>4
<1>7. Kept(0)
  <2>1. CallsKept
    BY Zenon, <1>1 DEF CallsKept
  <2>2. \A b \in Task : Ids(taskBuffer[b]) \cap permits' \subseteq Ids(taskBuffer'[b])
    BY Zenon, <1>1
  <2>3. UNCHANGED queue \/ \E w \in Message : queue' = Append(queue, w)
    BY Zenon, <1>2, <1>3
  <2> QED BY Zenon, <1>1, <2>1, <2>2, <2>3, EnvKept
<1>8. ASSUME NEW g \in Flush, flush[g] # "idle"
      PROVE  HistoryKept(g) /\ NewSafe(g) /\ flush'[g] # "idle"
  <2>1. g # f
    BY Zenon, <1>1, <1>8
  <2>2. HistoryKept(g)
    BY Zenon, <1>1, <1>5, <2>1 DEF HistoryKept, AttachedBefore
  <2>3. NewSafe(g)
    BY Zenon, <1>1, <1>5, <2>1 DEF NewSafe
  <2> QED BY Zenon, <1>5, <1>8, <2>1, <2>2, <2>3
<1>9. /\ \A i \in DOMAIN queue' : \A g \in Flush :
            FlushAt(i, g)' => QueuedSafe(g, i)' \/ (queue' = Append(queue, queue'[i]) /\ i = Len(queue) + 1)
      /\ DeferredFlushInv'
  <2>1. UNCHANGED queue \/ \E w \in Message : queue' = Append(queue, w)
    BY Zenon, <1>2, <1>3
  <2> QED BY Zenon, <1>1, <1>7, <1>8, <2>1, SentSafe
<1>10. /\ \A x \in InTransit(m) \cap Publication : place[x] # "unused" /\ place[x] # "attached"
       /\ \A p \in InTransit(m) \cap Pending : pending[p] # "none" /\ m = "all"
       /\ \A l \in Publication : Outstanding(l) => place[l] # "unused"
  BY Zenon, CalledHistory
<1>11. owed[f] = {} /\ \A l \in atCall[f] \cap Publication : place[l] # "unused"
  BY Zenon, <1>1 DEF HistoryInv
<1>12. \/ UNCHANGED queue /\ owed'[f] = {} /\ atCall'[f] = atCall[f] /\ flush'[f] # "waiting"
       \/ /\ queue' = Append(queue, msg) /\ flush'[f] = "waiting" /\ mode'[f] = m
          /\ owed'[f] = InTransit(m) /\ atCall'[f] = {l \in Lineage : Outstanding(l)}
  BY <1>2, <1>4, <1>11
<1>13. HistoryInv'
  <2> SUFFICES ASSUME NEW g \in Flush
               PROVE  /\ flush'[g] = "idle" => owed'[g] = {}
                      /\ \A x \in owed'[g] \cap Publication : place'[x] # "unused"
                      /\ \A p \in owed'[g] \cap Pending : pending'[p] # "none" /\ mode'[g] = "all"
                      /\ \A l \in atCall'[g] \cap Publication : place'[l] # "unused"
                      /\ flush'[g] # "waiting" => owed'[g] \cap permits' = {}
    BY Zenon DEF HistoryInv
  <2>1. CASE g # f
    BY Zenon, <1>1, <1>5, <2>1 DEF HistoryInv
  <2>2. CASE g = f /\ owed'[f] = {} /\ atCall'[f] = atCall[f]
    BY Zenon, <1>1, <1>11, <2>2
  <2>3. CASE /\ g = f /\ flush'[f] = "waiting" /\ mode'[f] = m
             /\ owed'[f] = InTransit(m) /\ atCall'[f] = {l \in Lineage : Outstanding(l)}
    BY Zenon, <1>1, <1>6, <1>10, <2>3
  <2> QED BY Zenon, <1>12, <2>1, <2>2, <2>3
<1>14. QueuedFlushInv'
  <2> SUFFICES ASSUME NEW i \in DOMAIN queue', NEW g \in Flush, FlushAt(i, g)'
               PROVE  QueuedSafe(g, i)'
    BY Zenon DEF QueuedFlushInv
  <2>1. CASE queue' = Append(queue, queue'[i]) /\ i = Len(queue) + 1
    <3>1. queue' # queue
      <4>1. queue \in Seq(Message)
        BY Zenon DEF Around, TypeOK
      <4>2. DOMAIN queue = 1 .. Len(queue) /\ Len(queue) \in Nat
        BY Zenon, <4>1, SeqLen
      <4>3. Len(queue) + 1 \notin 1 .. Len(queue)
        BY <4>2
      <4> QED BY Zenon, <2>1, <4>2, <4>3
    <3>2. queue' = Append(queue, msg) /\ owed'[f] = InTransit(m)
      BY Zenon, <1>12, <3>1
    <3>3. queue'[i] = msg
      BY Zenon, <1>3, <2>1, <3>2, AheadOfNew
    <3>4. g = f
      BY Zenon, <1>3, <3>3 DEF FlushAt
    <3>5. \A x \in owed'[f] \cap Publication : place[x] # "attached"
      BY Zenon, <1>10, <3>2
    <3> QED BY Zenon, <1>1, <1>3, <1>6, <2>1, <3>2, <3>4, <3>5, NewFlushSafe
  <2> QED BY Zenon, <1>9, <2>1
<1> QED BY Zenon, <1>9, <1>13, <1>14

\* Every step keeps the invariants of the flushes.
LEMMA FlushStep ==
    ASSUME Around, HistoryInv, QueuedFlushInv, DeferredFlushInv, [Next]_vars
    PROVE  HistoryInv' /\ QueuedFlushInv' /\ DeferredFlushInv'
<1>1. CASE DispatcherStep /\ ~HandleFlush
  BY Zenon, <1>1, OtherFlushes
<1>2. CASE HandleFlush
  BY Zenon, <1>2, HeadFlushes
<1>3. CASE \E f \in Flush : FlushInCallback(f) \/ \E m \in Modes : FlushCall(f, m)
  <2>1. "all" \in Modes
    BY DEF Modes
  <2> QED BY Zenon, <1>3, <2>1, CallFlushes
<1>4. CASE ~DispatcherStep /\ \A f \in Flush : ~FlushInCallback(f) /\ \A m \in Modes : ~FlushCall(f, m)
  BY Zenon, <1>4, EmitterFlushes
<1> QED BY Zenon, <1>1, <1>2, <1>3, <1>4
==============================================================================
