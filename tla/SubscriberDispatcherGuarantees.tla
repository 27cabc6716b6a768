------------------- MODULE SubscriberDispatcherGuarantees -------------------
(***************************************************************************)
(* What callers rely on: publications are handled in the order of the      *)
(* positions they reserved, and a flush covers what it is owed.            *)
(***************************************************************************)
EXTENDS SubscriberDispatcherOwnership, SubscriberDispatcherFlush

-----------------------------------------------------------------------------
(* The order of the channel *)

\* A message behind the others: a publication that belongs to no earlier position, or
\* something else.
LEMMA QueueTurnsAppend ==
    ASSUME NEW q \in Seq(Message), NEW m \in Message, NEW t, NEW u, QueueTurns(q, t),
           \A j \in DOMAIN q : q[j].kind \in PublicationKinds => u[q[j].id] = t[q[j].id],
           m.kind \in PublicationKinds =>
              \A j \in DOMAIN q : q[j].kind \in PublicationKinds => u[q[j].id] <= u[m.id]
    PROVE  QueueTurns(Append(q, m), u)
<1> DEFINE r == Append(q, m)
           n == Len(q) + 1
<1>1. /\ \A j \in DOMAIN q : r[j] = q[j] /\ j < n /\ j \in Nat
      /\ \A j \in DOMAIN r : j = n \/ j \in DOMAIN q
      /\ r[n] = m /\ n \in Nat
  BY AppendAt
<1> HIDE DEF r, n
<1>2. ASSUME NEW i \in DOMAIN r, NEW j \in DOMAIN r, i < j,
             r[i].kind \in PublicationKinds, r[j].kind \in PublicationKinds
      PROVE  u[r[i].id] <= u[r[j].id]
  <2>1. i \in DOMAIN q
    BY <1>1, <1>2
  <2>2. CASE j = n
    BY Zenon, <1>1, <1>2, <2>1, <2>2
  <2>3. CASE j \in DOMAIN q
    <3>1. t[q[i].id] <= t[q[j].id]
      BY Zenon, <1>1, <1>2, <2>1, <2>3 DEF QueueTurns
    <3> QED
      BY Zenon, <1>1, <1>2, <2>1, <2>3, <3>1
  <2> QED
    BY Zenon, <1>1, <2>2, <2>3
<1>3. QueueTurns(r, u)
  BY Zenon, <1>2 DEF QueueTurns
<1> QED
  BY <1>3 DEF r

\* The head is received.
LEMMA QueueTurnsTail ==
    ASSUME NEW q \in Seq(Message), q # <<>>, NEW t, QueueTurns(q, t)
    PROVE  QueueTurns(Tail(q), t)
<1> DEFINE r == Tail(q)
<1>1. \A j \in DOMAIN r : j \in Nat /\ j + 1 \in DOMAIN q /\ r[j] = q[j + 1]
  BY TailAt
<1> HIDE DEF r
<1>2. ASSUME NEW i \in DOMAIN r, NEW j \in DOMAIN r, i < j,
             r[i].kind \in PublicationKinds, r[j].kind \in PublicationKinds
      PROVE  t[r[i].id] <= t[r[j].id]
  <2>1. i + 1 < j + 1
    BY <1>1, <1>2
  <2> QED
    BY Zenon, <1>1, <1>2, <2>1 DEF QueueTurns
<1>3. QueueTurns(r, t)
  BY Zenon, <1>2 DEF QueueTurns
<1> QED
  BY <1>3 DEF r

\* Nothing new is in the channel, and what is in hand belongs to the position of
\* something that was in hand before.
LEMMA HandKeep ==
    ASSUME TypeOK, HandTurns, UNCHANGED <<turn, sends>>,
           \A y \in Publication : place'[y] = "queue" => place[y] = "queue",
           \A x \in InHand' : \E y \in InHand : turn[x] = turn[y],
           UNCHANGED served \/ (\E e \in InHand : served' = turn[e])
    PROVE  HandTurns'
<1>1. InHand \subseteq Publication /\ InHand' \subseteq Publication
  BY Zenon DEF InHand, InPlace
<1>2. InPlace("queue")' \subseteq InPlace("queue")
  BY Zenon DEF InPlace
<1>3. turn \in [Publication -> Nat] /\ served \in Nat /\ sends \in Nat
  BY Zenon DEF TypeOK
<1>4. served <= served' /\ served' <= sends' /\ \A x \in InHand : served' <= turn[x]
  BY <1>1, <1>3 DEF HandTurns
<1>5. \A x \in InHand' : served' <= turn'[x] /\ \A y \in InHand' : turn'[x] = turn'[y]
  BY Zenon, <1>4 DEF HandTurns
<1>6. \A y \in InPlace("queue")' : \A x \in InHand' : turn'[x] <= turn'[y]
  BY Zenon, <1>2 DEF HandTurns
<1>7. \A y \in InPlace("queue")' : served' <= turn'[y]
  BY Zenon, <1>2 DEF HandTurns
<1>8. \A x \in Publication : turn'[x] <= sends'
  BY Zenon DEF HandTurns
<1> QED
  BY Zenon, <1>4, <1>5, <1>6, <1>7, <1>8 DEF HandTurns

\* A new publication gets the next position of the channel, or the position of what it
\* was emitted by.
LEMMA HandEmit ==
    ASSUME TypeOK, HandTurns, UNCHANGED served, NEW x \in Publication, place[x] \in {"unused", "attached"},
           NEW to, Move({x}, to), NEW t, turn' = [turn EXCEPT ![x] = t],
           \/ to = "queue" /\ t = sends + 1 /\ sends' = sends + 1
           \/ to = "nested" /\ UNCHANGED sends /\ \E y \in InHand : t = turn[y]
           \/ to = "task" /\ UNCHANGED sends /\ \E y \in Publication : t = turn[y]
    PROVE  HandTurns'
<1>1. InHand \subseteq Publication
  BY Zenon DEF InHand, InPlace
<1>2. turn \in [Publication -> Nat] /\ served \in Nat /\ sends \in Nat
  BY Zenon DEF TypeOK
<1>3. /\ InPlace("queue")' = IF to = "queue" THEN InPlace("queue") \cup {x} ELSE InPlace("queue")
      /\ InHand' = IF to = "nested" THEN InHand \cup {x} ELSE InHand
      /\ x \notin InHand /\ x \notin InPlace("queue") /\ InPlace("queue") \subseteq Publication
  <2>1. place[x] # to
    OBVIOUS
  <2>2. \A pl \in {"queue", "nested", "task", "stack", "delivering"} :
           /\ InPlace(pl)' = IF pl = to THEN InPlace(pl) \cup {x} ELSE InPlace(pl)
           /\ x \notin InPlace(pl)
    BY Zenon, <2>1, MoveNew
  <2>3. InPlace("queue") \subseteq Publication
    BY Zenon DEF InPlace
  <2> QED
    BY <2>2, <2>3 DEF InHand
<1>4. \A y \in Publication : turn'[y] = IF y = x THEN t ELSE turn[y]
  BY <1>2
<1>5. CASE to = "queue" /\ t = sends + 1 /\ sends' = sends + 1
  BY <1>1, <1>2, <1>3, <1>4, <1>5 DEF HandTurns
<1>6. CASE to = "nested" /\ UNCHANGED sends /\ \E y \in InHand : t = turn[y]
  BY <1>1, <1>2, <1>3, <1>4, <1>6 DEF HandTurns
<1>7. CASE to = "task" /\ UNCHANGED sends /\ \E y \in Publication : t = turn[y]
  BY <1>1, <1>2, <1>3, <1>4, <1>7 DEF HandTurns
<1> QED
  BY <1>5, <1>6, <1>7

\* A new publication is in no buffer, and a new task has an empty one.
LEMMA NewTurn ==
    ASSUME TypeOK, OwnershipInv, NEW x \in Publication, place[x] \in {"unused", "attached"},
           NEW t, turn' = [turn EXCEPT ![x] = t]
    PROVE  /\ \A j \in DOMAIN queue : queue[j].kind \in PublicationKinds =>
                 queue[j].id \in Publication /\ turn'[queue[j].id] = turn[queue[j].id]
           /\ TaskTurns(taskBuffer, turn) => TaskTurns(taskBuffer, turn')
           /\ turn'[x] = t
<1>1. turn \in [Publication -> Nat]
  BY Zenon DEF TypeOK
<1>2. \A y \in Publication : turn'[y] = IF y = x THEN t ELSE turn[y]
  BY <1>1
<1>3. x \notin InPlace("queue") /\ x \notin InPlace("task")
  BY DEF InPlace
<1>4. ASSUME NEW j \in DOMAIN queue, queue[j].kind \in PublicationKinds
      PROVE  queue[j].id \in Publication /\ turn'[queue[j].id] = turn[queue[j].id]
  <2>1. queue[j].id \in InPlace("queue")
    BY Zenon, <1>4 DEF OwnershipInv, Own, OwnedQueue, OwnsMsgs
  <2>2. queue[j].id \in Publication
    BY Zenon, <2>1 DEF InPlace
  <2> QED
    BY Zenon, <1>2, <1>3, <2>1, <2>2
<1>5. ASSUME TaskTurns(taskBuffer, turn), NEW b \in Task, NEW y \in Ids(taskBuffer[b])
      PROVE  turn'[y] = turn'[b]
  <2>1. y \in InPlace("task") /\ y \in Publication /\ b \in Publication
    BY Zenon DEF OwnershipInv, Own, OwnedTask, InPlace, Publication
  <2>2. b # x
    <3>1. taskBuffer[b] # <<>>
      BY DEF Ids
    <3>2. place[b] \in {"queue", "nested", "stack"}
      BY Zenon, <3>1 DEF OwnershipInv, TaskInv
    <3> QED
      BY <3>2
  <2> QED
    BY Zenon, <1>2, <1>3, <1>5, <2>1, <2>2 DEF TaskTurns
<1> QED
  BY Zenon, <1>2, <1>4, <1>5 DEF TaskTurns

\* send_dispatch_message: the publication is last in the channel and in the order.
LEMMA TurnSend ==
    ASSUME TypeOK, OwnershipInv, TurnInv, NEW x \in Publication, place[x] \in {"unused", "attached"},
           SendPublication(x), UNCHANGED <<taskBuffer, served>>
    PROVE  TurnInv'
<1>1. /\ queue' = Append(queue, Msg(x)) /\ sends' = sends + 1 /\ turn' = [turn EXCEPT ![x] = sends + 1]
      /\ Move({x}, "queue")
  BY Zenon DEF SendPublication
<1>2. HandTurns'
  BY Zenon, <1>1, HandEmit DEF TurnInv
<1>3. /\ \A j \in DOMAIN queue : queue[j].kind \in PublicationKinds =>
            queue[j].id \in Publication /\ turn'[queue[j].id] = turn[queue[j].id]
      /\ TaskTurns(taskBuffer, turn') /\ turn'[x] = sends + 1
  BY Zenon, <1>1, NewTurn DEF TurnInv
<1>4. Msg(x) \in Message /\ Msg(x).id = x
  BY MsgType DEF Msg, Message
<1>5. \A j \in DOMAIN queue : queue[j].kind \in PublicationKinds => turn'[queue[j].id] <= turn'[Msg(x).id]
  <2>1. turn \in [Publication -> Nat] /\ sends \in Nat /\ \A y \in Publication : turn[y] <= sends
    BY Zenon DEF TypeOK, TurnInv, HandTurns
  <2>2. \A y \in Publication : turn[y] <= sends + 1
    BY <2>1
  <2> QED
    BY Zenon, <1>3, <1>4, <2>2
<1>6. QueueTurns(queue', turn')
  <2>1. queue \in Seq(Message) /\ QueueTurns(queue, turn)
    BY Zenon DEF TypeOK, TurnInv
  <2>2. \A j \in DOMAIN queue : queue[j].kind \in PublicationKinds => turn'[queue[j].id] = turn[queue[j].id]
    BY Zenon, <1>3
  <2>3. QueueTurns(Append(queue, Msg(x)), turn')
    BY Zenon, <1>4, <1>5, <2>1, <2>2, QueueTurnsAppend
  <2> QED
    BY Zenon, <1>1, <2>3
<1> QED
  BY Zenon, <1>2, <1>3, <1>6 DEF TurnInv

\* A nested publication belongs to the position of the event whose middleware emits it.
LEMMA TurnNested ==
    ASSUME TypeOK, OwnershipInv, TurnInv, NEW x \in Publication, place[x] \in {"unused", "attached"},
           Move({x}, "nested"), NEW y \in InHand, turn' = [turn EXCEPT ![x] = turn[y]],
           UNCHANGED <<queue, taskBuffer, sends, served>>
    PROVE  TurnInv'
<1>1. HandTurns'
  BY Zenon, HandEmit DEF TurnInv
<1>2. /\ \A j \in DOMAIN queue : queue[j].kind \in PublicationKinds => turn'[queue[j].id] = turn[queue[j].id]
      /\ TaskTurns(taskBuffer, turn')
  BY Zenon, NewTurn DEF TurnInv
<1>3. QueueTurns(queue, turn')
  BY Zenon, <1>2 DEF TurnInv, QueueTurns
<1> QED
  BY Zenon, <1>1, <1>2, <1>3 DEF TurnInv

\* An event of a task belongs to the position that was reserved for the task.
LEMMA TurnTask ==
    ASSUME TypeOK, OwnershipInv, TurnInv, NEW x \in Event, place[x] \in {"unused", "attached"},
           Move({x}, "task"), NEW b \in Task, turn' = [turn EXCEPT ![x] = turn[b]],
           taskBuffer' = [taskBuffer EXCEPT ![b] = Append(@, Msg(x))],
           UNCHANGED <<queue, sends, served>>
    PROVE  TurnInv'
<1>0. x \in Publication /\ b \in Publication /\ x # b
  BY DisjointIds DEF Publication
<1>1. HandTurns'
  BY Zenon, <1>0, HandEmit DEF TurnInv
<1>2. /\ \A j \in DOMAIN queue : queue[j].kind \in PublicationKinds => turn'[queue[j].id] = turn[queue[j].id]
      /\ TaskTurns(taskBuffer, turn')
  BY Zenon, <1>0, NewTurn DEF TurnInv
<1>3. QueueTurns(queue, turn')
  BY Zenon, <1>2 DEF TurnInv, QueueTurns
<1>4. turn'[x] = turn'[b]
  <2>1. turn \in [Publication -> Nat]
    BY Zenon DEF TypeOK
  <2> QED
    BY ZenonT(60), <1>0, <2>1
<1>5. \A z \in Ids(taskBuffer'[b]) : z \in Ids(taskBuffer[b]) \/ z = x
  <2>1. taskBuffer[b] \in Seq(DeliverMsg) /\ taskBuffer'[b] = Append(taskBuffer[b], Msg(x))
    <3>1. taskBuffer \in [Task -> Seq(DeliverMsg)]
      BY Zenon DEF TypeOK
    <3> QED BY ZenonT(60), <3>1
  <2>2. Msg(x) \in DeliverMsg /\ Msg(x).id = x
    BY <1>0, MsgType DEF Msg
  <2>3. Ids(taskBuffer'[b]) = Ids(taskBuffer[b]) \cup {x}
    BY <2>1, <2>2, IdsAppend
  <2> QED
    BY Zenon, <2>3
<1>6. \A c \in Task : c # b => taskBuffer'[c] = taskBuffer[c]
  BY DEF TypeOK
<1>7. TaskTurns(taskBuffer', turn')
  <2> SUFFICES ASSUME NEW c \in Task, NEW z \in Ids(taskBuffer'[c])
               PROVE  turn'[z] = turn'[c]
    BY Zenon DEF TaskTurns
  <2>1. CASE c = b
    BY Zenon, <1>2, <1>4, <1>5, <2>1 DEF TaskTurns
  <2>2. CASE c # b
    BY Zenon, <1>2, <1>6, <2>2 DEF TaskTurns
  <2> QED
    BY <2>1, <2>2
<1> QED
  BY Zenon, <1>1, <1>3, <1>7 DEF TurnInv

\* Steps that emit nothing: what is in hand was in hand, or belongs to its position.
LEMMA TurnKeep ==
    ASSUME TypeOK, TurnInv, UNCHANGED <<turn, sends>>,
           \/ UNCHANGED queue
           \/ queue # <<>> /\ queue' = Tail(queue)
           \/ \E m \in Message : m.kind \notin PublicationKinds /\ queue' = Append(queue, m),
           \A b \in Task : taskBuffer'[b] = taskBuffer[b] \/ taskBuffer'[b] = <<>>,
           \A y \in Publication : place'[y] = "queue" => place[y] = "queue",
           \A x \in InHand' : \E y \in InHand : turn[x] = turn[y],
           UNCHANGED served \/ (\E e \in InHand : served' = turn[e])
    PROVE  TurnInv'
<1>0. queue \in Seq(Message) /\ QueueTurns(queue, turn) /\ HandTurns /\ TaskTurns(taskBuffer, turn)
  BY Zenon DEF TypeOK, TurnInv
<1>1. HandTurns'
  BY Zenon, <1>0, HandKeep
<1>2. QueueTurns(queue', turn)
  BY ZenonT(60), <1>0, QueueTurnsTail, QueueTurnsAppend
<1>3. Ids(<<>>) = {}
  BY DEF Ids
<1>4. TaskTurns(taskBuffer', turn)
  BY Zenon, <1>0, <1>3 DEF TaskTurns
<1> QED
  BY Zenon, <1>1, <1>2, <1>4 DEF TurnInv

\* Moving messages out of hand, or within it.
LEMMA HandShrinks ==
    ASSUME \A y \in Publication : place'[y] \in {"stack", "delivering", "nested"} =>
              place[y] \in {"stack", "delivering", "nested"}
    PROVE  \A x \in InHand' : \E y \in InHand : turn[x] = turn[y]
BY Zenon DEF InHand, InPlace

\* deliver_event goes on or returns: its event and what it emitted stay in hand or leave.
LEMMA HandAdvance ==
    ASSUME TypeOK, Own, NEW e \in Event, place[e] \in {"stack", "delivering"}, NEW rest,
           (\E pt : Advance(e, pt, rest)) \/ (\E r : EndDelivery(e, r, rest))
    PROVE  /\ \A y \in Publication : place'[y] = "queue" => place[y] = "queue"
           /\ \A x \in InHand' : \E y \in InHand : turn[x] = turn[y]
<1>1. CASE \E r : EndDelivery(e, r, rest)
  <2>1. InPlace("nested") = Ids(nested)
    BY ZenonT(60), FramesOf DEF TypeOK, Own, OwnedNested
  <2>2. \A y \in Publication :
           place'[y] = IF y = e THEN "gone" ELSE IF place[y] = "nested" THEN "stack" ELSE place[y]
    BY ZenonT(60), <1>1, <2>1 DEF EndDelivery, InPlace
  <2>3. /\ \A y \in Publication : place'[y] = "queue" => place[y] = "queue"
        /\ \A y \in Publication : place'[y] \in {"stack", "delivering", "nested"} =>
              place[y] \in {"stack", "delivering", "nested"}
    BY <2>2
  <2> QED
    BY Zenon, <2>3, HandShrinks
<1>2. CASE Move({e}, "delivering")
  <2>1. \A y \in Publication : place'[y] = IF y = e THEN "delivering" ELSE place[y]
    BY Zenon, <1>2 DEF Move
  <2>2. /\ \A y \in Publication : place'[y] = "queue" => place[y] = "queue"
        /\ \A y \in Publication : place'[y] \in {"stack", "delivering", "nested"} =>
              place[y] \in {"stack", "delivering", "nested"}
    BY <2>1
  <2> QED
    BY Zenon, <2>2, HandShrinks
<1> QED
  BY Zenon, <1>1, <1>2 DEF Advance

\* A publication is received when nothing is in hand, and is the first of the channel.
LEMMA HandReceive ==
    ASSUME TypeOK, OwnershipInv, TurnInv, ReceivePublication
    PROVE  TurnInv'
<1> DEFINE h == Head(queue).id
<1>1. /\ queue # <<>> /\ queue' = Tail(queue) /\ Head(queue).kind \in PublicationKinds
      /\ stack = <<>> /\ delivering.stage = "idle" /\ Move({h}, "stack")
      /\ UNCHANGED <<taskBuffer, turn, sends, served>>
  BY Zenon DEF ReceivePublication, Receive, PublicationKinds, emitterVars, orderVars
<1>2. /\ queue \in Seq(Message) /\ QueueTurns(queue, turn) /\ HandTurns /\ TaskTurns(taskBuffer, turn)
      /\ turn \in [Publication -> Nat] /\ OwnsMsgs(queue, InPlace("queue"))
  BY Zenon DEF TypeOK, TurnInv, OwnershipInv, Own, OwnedQueue
<1>3. InHand = {}
  <2>1. delivering = NoDelivery /\ delivering.event = None
    BY Zenon, <1>1, InDelivery
  <2>2. nested = <<>> /\ OwnsMsgs(nested, InPlace("nested")) /\ OwnsFrames(stack, InPlace("stack"))
    BY Zenon, <2>1 DEF OwnershipInv, Own, OwnedNested, OwnedStack
  <2>3. InPlace("nested") = {} /\ InPlace("stack") = {}
    BY <1>1, <2>2 DEF OwnsMsgs, OwnsFrames
  <2>4. InPlace("delivering") = {}
    <3>1. None \notin Publication
      BY DisjointIds DEF Publication
    <3> QED
      BY Zenon, <2>1, <3>1 DEF OwnershipInv, Own, OwnedDelivering, InPlace
  <2> QED
    BY Zenon, <2>3, <2>4 DEF InHand
<1>4. /\ 1 \in DOMAIN queue /\ Head(queue) = queue[1]
      /\ \A j \in DOMAIN queue : j # 1 => 1 < j
  BY <1>1, <1>2, TailAt
<1>5. h \in InPlace("queue")
  BY Zenon, <1>1, <1>2, <1>4 DEF OwnsMsgs
<1>6. \A y \in InPlace("queue") : y # h => turn[h] <= turn[y]
  <2> SUFFICES ASSUME NEW y \in InPlace("queue"), y # h
               PROVE  turn[h] <= turn[y]
    OBVIOUS
  <2>1. PICK j \in DOMAIN queue : queue[j].kind \in PublicationKinds /\ queue[j].id = y
    BY Zenon, <1>2 DEF OwnsMsgs
  <2> QED
    BY Zenon, <1>1, <1>2, <1>4, <2>1 DEF QueueTurns
<1> HIDE DEF h
<1>7. InHand' = {h} /\ InPlace("queue")' = InPlace("queue") \ {h} /\ h \in Publication
  <2>1. h \in Publication /\ place[h] = "queue"
    BY Zenon, <1>5 DEF InPlace
  <2>2. \A y \in Publication : place'[y] = IF y = h THEN "stack" ELSE place[y]
    BY Zenon, <1>1 DEF Move
  <2>3. \A y \in Publication : place[y] \notin {"stack", "delivering", "nested"}
    BY Zenon, <1>3 DEF InHand, InPlace
  <2> QED
    BY <2>1, <2>2, <2>3 DEF InHand, InPlace
<1>8. HandTurns'
  <2>1. served' <= turn'[h] /\ served' <= sends' /\ \A x \in Publication : turn'[x] <= sends'
    BY Zenon, <1>1, <1>2, <1>5 DEF HandTurns
  <2>2. \A y \in InPlace("queue")' : served' <= turn'[y] /\ turn'[h] <= turn'[y]
    BY Zenon, <1>1, <1>2, <1>6, <1>7 DEF HandTurns
  <2> QED
    BY Zenon, <1>7, <2>1, <2>2 DEF HandTurns
<1>9. QueueTurns(queue', turn')
  BY Zenon, <1>1, <1>2, QueueTurnsTail
<1> QED
  BY Zenon, <1>1, <1>2, <1>8, <1>9 DEF TurnInv

\* What emitters, tasks and callers do.
LEMMA TurnEnv ==
    ASSUME TypeOK, OwnershipInv, TurnInv, [Next]_vars, ~DispatcherStep
    PROVE  TurnInv'
<1> USE DEF emitterVars, orderVars, channelVars
<1>0. Event \subseteq Publication
  BY DEF Publication
<1>1. ASSUME NEW X, NEW to \in {"gone", "attached"}, Move(X, to) \/ UNCHANGED place
      PROVE  /\ \A y \in Publication : place'[y] = "queue" => place[y] = "queue"
             /\ \A x \in InHand' : \E y \in InHand : turn[x] = turn[y]
  <2>1. \A y \in Publication : place'[y] = to \/ place'[y] = place[y]
    BY Zenon, <1>1 DEF Move
  <2>2. /\ \A y \in Publication : place'[y] = "queue" => place[y] = "queue"
        /\ \A y \in Publication : place'[y] \in {"stack", "delivering", "nested"} =>
              place[y] \in {"stack", "delivering", "nested"}
    BY <2>1
  <2> QED
    BY Zenon, <2>2, HandShrinks
<1>2. CASE UNCHANGED vars
  <2>1. UNCHANGED <<turn, sends, served, queue, taskBuffer, place>>
    BY Zenon, <1>2 DEF vars
  <2> QED
    BY Zenon, <1>1, <2>1, TurnKeep
<1>3. ASSUME NEW x \in Publication, NEW p, Emit(x, p) \/ SubscriberEmit(x)
      PROVE  TurnInv'
  <2>1. place[x] = "unused" /\ SendPublication(x) /\ UNCHANGED <<taskBuffer, served>>
    BY Zenon, <1>3 DEF Emit, SubscriberEmit, Unused
  <2> QED
    BY Zenon, <2>1, TurnSend
<1>4. delivering.stage \in MiddlewareStages => delivering.event \in InHand
  <2> SUFFICES ASSUME delivering.stage \in MiddlewareStages
               PROVE  delivering.event \in InHand
    OBVIOUS
  <2>1. delivering.event \in Event
    BY InDelivery DEF MiddlewareStages
  <2>2. delivering.event \in Publication /\ place[delivering.event] = "delivering"
    BY Zenon, <1>0, <2>1 DEF OwnershipInv, Own, OwnedDelivering
  <2> QED
    BY Zenon, <2>2 DEF InHand, InPlace
<1>5. ASSUME NEW x \in Publication, NestedEmit(x)
      PROVE  TurnInv'
  <2>1. /\ place[x] = "unused" /\ Move({x}, "nested") /\ delivering.event \in InHand
        /\ turn' = [turn EXCEPT ![x] = turn[delivering.event]] /\ UNCHANGED <<queue, taskBuffer, sends, served>>
    BY Zenon, <1>4, <1>5 DEF NestedEmit, Unused
  <2> QED
    BY Zenon, <2>1, TurnNested
<1>6. ASSUME NEW e \in Event, NEW b \in Task, TaskEmit(e, b)
      PROVE  TurnInv'
  <2>1. /\ place[e] = "unused" /\ Move({e}, "task") /\ turn' = [turn EXCEPT ![e] = turn[b]]
        /\ taskBuffer' = [taskBuffer EXCEPT ![b] = Append(@, Msg(e))]
        /\ UNCHANGED <<queue, sends, served>>
    BY Zenon, <1>6 DEF TaskEmit, Unused
  <2> QED
    BY Zenon, <2>1, TurnTask
<1>7. ASSUME NEW e \in Event, EmitLost(e) \/ ForeignCapture(e) \/ ForeignAttach(e)
      PROVE  TurnInv'
  <2>1. /\ UNCHANGED <<turn, sends, served, queue, taskBuffer>>
        /\ UNCHANGED place \/ Move({e}, "gone") \/ Move({e}, "attached")
    BY Zenon, <1>7 DEF EmitLost, ForeignCapture, ForeignAttach
  <2> QED
    BY ZenonT(60), <1>1, <2>1, TurnKeep
<1>8. ASSUME NEW e \in Event, ForeignPush(e)
      PROVE  TurnInv'
  <2> DEFINE buf == foreign[e]
  <2>0. place[e] = "attached" /\ buf # None /\ UNCHANGED served /\ e \in Publication
    BY Zenon, <1>0, <1>8 DEF ForeignPush
  <2>1. CASE SendPublication(e) /\ UNCHANGED taskBuffer
    BY Zenon, <2>0, <2>1, TurnSend
  <2>2. CASE /\ buf.stage # "task" /\ IsActive(buf) /\ Move({e}, "nested")
             /\ turn' = [turn EXCEPT ![e] = turn[buf.owner]] /\ UNCHANGED <<queue, taskBuffer, sends>>
    <3>1. delivering.event = buf.owner /\ delivering.stage = buf.stage
      BY Zenon, <2>2 DEF IsActive
    <3>2. delivering.stage \in MiddlewareStages
      <4>1. foreign \in [Event -> Buffer \cup {None}]
        BY Zenon DEF TypeOK
      <4>2. buf \in Buffer
        BY <2>0, <4>1
      <4> QED
        BY <2>2, <3>1, <4>2 DEF Buffer
    <3>3. buf.owner \in InHand
      BY Zenon, <1>4, <3>1, <3>2
    <3> QED
      BY Zenon, <2>0, <2>2, <3>3, TurnNested
  <2>3. CASE /\ buf.stage = "task" /\ taskBuffer' = [taskBuffer EXCEPT ![buf.owner] = Append(@, Msg(e))]
             /\ Move({e}, "task") /\ turn' = [turn EXCEPT ![e] = turn[buf.owner]] /\ UNCHANGED <<queue, sends>>
    <3>1. buf.owner \in Task
      <4>1. foreign \in [Event -> Buffer \cup {None}]
        BY Zenon DEF TypeOK
      <4>2. buf \in Buffer
        BY <2>0, <4>1
      <4> QED
        BY <2>3, <4>2 DEF Buffer, MiddlewareStages
    <3> QED
      BY Zenon, <2>0, <2>3, <3>1, TurnTask
  <2>4. CASE Move({e}, "gone") /\ UNCHANGED <<queue, taskBuffer, turn, sends>>
    BY ZenonT(60), <1>1, <2>0, <2>4, TurnKeep
  <2> QED
    BY Zenon, <1>8, <2>1, <2>2, <2>3, <2>4 DEF ForeignPush
<1>9. ASSUME NEW b \in Task, TaskFinish(b)
      PROVE  TurnInv'
  <2>1. UNCHANGED <<turn, sends, served, queue, taskBuffer, place>>
    BY Zenon, <1>9 DEF TaskFinish
  <2> QED
    BY Zenon, <1>1, <2>1, TurnKeep
<1>10. ASSUME NEW b \in Task, TaskDrop(b)
       PROVE  TurnInv'
  <2>1. /\ UNCHANGED <<turn, sends, served, queue>> /\ Move(Ids(taskBuffer[b]), "gone")
        /\ taskBuffer' = [taskBuffer EXCEPT ![b] = <<>>]
    BY Zenon, <1>10 DEF TaskDrop
  <2>2. \A c \in Task : taskBuffer'[c] = taskBuffer[c] \/ taskBuffer'[c] = <<>>
    BY Zenon, <2>1 DEF TypeOK
  <2> QED
    BY Zenon, <1>1, <2>1, <2>2, TurnKeep
<1>11. ASSUME NEW p \in Pending, RegisterPending(p) \/ ReleasePending(p)
       PROVE  TurnInv'
  <2>1. /\ UNCHANGED <<turn, sends, served, taskBuffer, place>>
        /\ \E k \in {"register", "complete"} : queue' = Append(queue, [kind |-> k, id |-> p])
    BY Zenon, <1>11 DEF RegisterPending, ReleasePending
  <2>2. \A k \in {"register", "complete"} :
           [kind |-> k, id |-> p] \in Message /\ [kind |-> k, id |-> p].kind \notin PublicationKinds
    BY DEF Message, PublicationKinds
  <2> QED
    BY ZenonT(60), <1>1, <2>1, <2>2, TurnKeep
<1>12. ASSUME NEW f \in Flush, NEW m, FlushInCallback(f) \/ FlushCall(f, m)
       PROVE  TurnInv'
  <2>1. /\ UNCHANGED <<turn, sends, served, taskBuffer, place>>
        /\ UNCHANGED queue \/ queue' = Append(queue, [kind |-> "flush", id |-> f])
    BY Zenon, <1>12 DEF FlushInCallback, FlushCall
  <2>2. /\ [kind |-> "flush", id |-> f] \in Message
        /\ [kind |-> "flush", id |-> f].kind \notin PublicationKinds
    BY DEF Message, PublicationKinds
  <2> QED
    BY ZenonT(60), <1>1, <2>1, <2>2, TurnKeep
<1> QED
  BY Zenon, <1>2, <1>3, <1>5, <1>6, <1>7, <1>8, <1>9, <1>10, <1>11, <1>12 DEF Next

\* Every step keeps the order, and handles no event of an earlier position.
LEMMA TurnStep ==
    ASSUME TypeOK, OwnershipInv, TurnInv, [Next]_vars
    PROVE  TurnInv' /\ (served' = served \/ served <= served')
<1> USE DEF emitterVars, orderVars, channelVars
<1>0. \A e \in InHand : served <= turn[e]
  BY Zenon DEF TurnInv, HandTurns
<1>1. stack # <<>> /\ Head(stack).op # "finish" => Head(stack).id \in Publication /\ place[Head(stack).id] = "stack"
  <2> SUFFICES ASSUME stack # <<>>, Head(stack).op # "finish"
               PROVE  Head(stack).id \in Publication /\ place[Head(stack).id] = "stack"
    OBVIOUS
  <2>1. Head(stack).id \in InPlace("stack")
    BY Zenon, FramesTail DEF TypeOK, OwnershipInv, Own, OwnedStack
  <2> QED
    BY <2>1 DEF InPlace
<1>2. CASE ~DispatcherStep
  <2>1. UNCHANGED served
    BY ZenonT(60), <1>2 DEF Next, vars, Emit, EmitLost, SubscriberEmit, NestedEmit, TaskEmit, ForeignCapture,
       ForeignAttach, ForeignPush, TaskFinish, TaskDrop, RegisterPending, ReleasePending, FlushCall, FlushInCallback
  <2> QED
    BY Zenon, <1>2, <2>1, TurnEnv
<1>3. CASE ReceivePublication
  <2>1. UNCHANGED served
    BY Zenon, <1>3 DEF ReceivePublication
  <2> QED
    BY Zenon, <1>3, <2>1, HandReceive
<1>4. CASE HandleFlush \/ HandleRegisterPending \/ HandleCompletePending \/ FinishDeliver \/ HandleBarrier
  <2>1. /\ UNCHANGED <<turn, sends, served, taskBuffer, place>>
        /\ UNCHANGED queue \/ (queue # <<>> /\ queue' = Tail(queue))
    BY Zenon, <1>4 DEF HandleFlush, HandleRegisterPending, HandleCompletePending, FinishDeliver, HandleBarrier, Receive
  <2>2. \A x \in InHand' : \E y \in InHand : turn[x] = turn[y]
    BY Zenon, <2>1, HandShrinks
  <2> QED
    BY Zenon, <2>1, <2>2, TurnKeep
<1>5. CASE HandleDeliver
  <2> DEFINE e == Head(stack).id
  <2>1. /\ e \in Event /\ (\E pt \in EnterTransform(e) : Advance(e, pt, Tail(stack)))
        /\ UNCHANGED <<turn, sends, queue, taskBuffer>> /\ served' = turn[e]
        /\ stack # <<>> /\ Head(stack).op # "finish"
    BY <1>5 DEF HandleDeliver, Step
  <2>2. e \in Publication /\ place[e] = "stack"
    BY Zenon, <1>1, <2>1
  <2> HIDE DEF e
  <2>3. /\ \A y \in Publication : place'[y] = "queue" => place[y] = "queue"
        /\ \A x \in InHand' : \E y \in InHand : turn[x] = turn[y]
    BY Zenon, <2>1, <2>2, HandAdvance DEF OwnershipInv
  <2>4. e \in InHand
    BY Zenon, <2>2 DEF InHand, InPlace
  <2> QED
    BY Zenon, <1>0, <2>1, <2>3, <2>4, TurnKeep
<1>6. CASE EndStage \/ EndSubscribers
  <2> DEFINE e == delivering.event
  <2>1. /\ e \in Event /\ UNCHANGED <<turn, sends, served, queue, taskBuffer>>
        /\ \/ \E pt \in AfterStage(delivering) : Advance(e, pt, stack)
           \/ EndDelivery(e, delivering.view, stack)
    BY ZenonT(60), <1>6, InDelivery DEF EndStage, EndSubscribers, MiddlewareStages
  <2>2. place[e] = "delivering"
    BY <2>1 DEF OwnershipInv, Own, OwnedDelivering, Publication
  <2> HIDE DEF e
  <2>3. /\ \A y \in Publication : place'[y] = "queue" => place[y] = "queue"
        /\ \A x \in InHand' : \E y \in InHand : turn[x] = turn[y]
    BY Zenon, <2>1, <2>2, HandAdvance DEF OwnershipInv
  <2> QED
    BY Zenon, <2>1, <2>3, TurnKeep
<1>7. CASE ReceivePublications
  <2> DEFINE b == Head(stack).id
             X == Ids(taskBuffer[b])
  <2>1. /\ UNCHANGED <<turn, sends, served, queue>> /\ Move(X, "stack")
        /\ stack # <<>> /\ Head(stack).op = "await"
        /\ taskBuffer' = [taskBuffer EXCEPT ![b] = <<>>] /\ stack \in Seq(Frame)
    BY ZenonT(60), <1>7 DEF ReceivePublications, Step, TypeOK
  <2>2. b \in Task
    BY <2>1, SeqHeadTail DEF Frame
  <2>3. b \in InHand
    <3>1. b \in Publication /\ place[b] = "stack"
      BY <1>1, <2>1
    <3> QED
      BY Zenon, <3>1 DEF InHand, InPlace
  <2>4. \A x \in X : turn[x] = turn[b]
    BY Zenon, <2>2 DEF TurnInv, TaskTurns
  <2> HIDE DEF X
  <2>5. \A y \in Publication : place'[y] = IF y \in X THEN "stack" ELSE place[y]
    BY Zenon, <2>1 DEF Move
  <2>6. \A y \in Publication : place'[y] = "queue" => place[y] = "queue"
    BY <2>5
  <2>7. \A x \in InHand' : \E y \in InHand : turn[x] = turn[y]
    BY ZenonT(60), <2>3, <2>4, <2>5 DEF InHand, InPlace
  <2>8. \A c \in Task : taskBuffer'[c] = taskBuffer[c] \/ taskBuffer'[c] = <<>>
    BY Zenon, <2>1 DEF TypeOK
  <2> QED
    BY Zenon, <2>1, <2>6, <2>7, <2>8, TurnKeep
<1>8. CASE ReleaseBarrier
  <2>1. Move({Head(stack).id}, "gone") /\ UNCHANGED <<turn, sends, served, queue, taskBuffer>>
    BY Zenon, <1>8 DEF ReleaseBarrier
  <2>2. \A y \in Publication : place'[y] = "gone" \/ place'[y] = place[y]
    BY Zenon, <2>1 DEF Move
  <2>3. /\ \A y \in Publication : place'[y] = "queue" => place[y] = "queue"
        /\ \A y \in Publication : place'[y] \in {"stack", "delivering", "nested"} =>
              place[y] \in {"stack", "delivering", "nested"}
    BY <2>2
  <2> QED
    BY Zenon, <2>1, <2>3, HandShrinks, TurnKeep
<1> QED
  BY Zenon, <1>2, <1>3, <1>4, <1>5, <1>6, <1>7, <1>8 DEF DispatcherStep

\* Events are handled in the order of the channel positions they belong to, however
\* callbacks, tasks and foreign threads interleave.
THEOREM PositionsInOrder == Spec => ReservedOrder
<1>1. Init => TurnInv
  <2> SUFFICES ASSUME Init PROVE TurnInv
    OBVIOUS
  <2>1. queue = <<>> /\ (\A b \in Task : taskBuffer[b] = <<>>) /\ served = 0 /\ sends = 0
        /\ (\A x \in Publication : turn[x] = 0 /\ place[x] = "unused")
    BY Zenon DEF Init
  <2>2. InHand = {} /\ InPlace("queue") = {}
    BY <2>1 DEF InHand, InPlace
  <2>3. HandTurns
    BY <2>1, <2>2 DEF HandTurns
  <2>4. QueueTurns(queue, turn) /\ TaskTurns(taskBuffer, turn)
    BY <2>1 DEF QueueTurns, TaskTurns, Ids
  <2> QED
    BY Zenon, <2>3, <2>4 DEF TurnInv
<1>2. TypeOK /\ OwnershipInv /\ TurnInv /\ [Next]_vars => TurnInv' /\ [served <= served']_served
  BY Zenon, TurnStep
<1> QED
  BY <1>1, <1>2, TypeCorrect, OwnershipInvariant, PTL DEF Spec, ReservedOrder

-----------------------------------------------------------------------------
(* What a flush waits for *)

\* The inductive invariant of the dispatcher: messages have one owner, permits are held as
\* long as something is on its way, and no flush that waits will be acknowledged too early.
THEOREM FlushInvariant == Spec => []FlushInv
<1>1. Init => HistoryInv /\ QueuedFlushInv /\ DeferredFlushInv
  <2> SUFFICES ASSUME Init PROVE HistoryInv /\ QueuedFlushInv /\ DeferredFlushInv
    OBVIOUS
  <2>1. /\ queue = <<>> /\ pendingFlushes = <<>> /\ permits = {}
        /\ \A f \in Flush : owed[f] = {} /\ atCall[f] = {}
    BY Zenon DEF Init
  <2>2. DOMAIN <<>> = {}
    OBVIOUS
  <2>3. HistoryInv
    BY Zenon, <2>1 DEF HistoryInv
  <2>4. QueuedFlushInv /\ DeferredFlushInv
    BY Zenon, <2>1, <2>2 DEF QueuedFlushInv, DeferredFlushInv
  <2> QED BY <2>3, <2>4
<1>2. TypeOK /\ TypeOK' /\ OwnershipInv /\ Owners /\ Owners' /\ HistoryInv /\ QueuedFlushInv /\ DeferredFlushInv
        /\ [Next]_vars => HistoryInv' /\ QueuedFlushInv' /\ DeferredFlushInv'
  BY Zenon, FlushStep DEF Around
<1>3. OwnershipInv /\ HistoryInv /\ QueuedFlushInv /\ DeferredFlushInv => FlushInv
  BY Zenon DEF OwnershipInv, Own, FlushInv
<1>4. TypeOK /\ OwnershipInv => Owners
  BY Zenon, OwnersKnown
<1> QED BY <1>1, <1>2, <1>3, <1>4, TypeCorrect, OwnershipInvariant, PTL DEF Spec

\* A flush is acknowledged only when everything it is owed was handled: what was handed to
\* the dispatcher before the call, what callbacks emitted meanwhile on those lineages, the
\* terminal events of the managed calls it covers, and the events of reserved tasks.
THEOREM FlushesCover == Spec => []FlushCovers
<1>1. ASSUME TypeOK, FlushInv PROVE FlushCovers
  <2> SUFFICES ASSUME NEW f \in Flush, flush[f] = "ok", NEW x \in owed[f] PROVE Handled(x)
    BY Zenon DEF FlushCovers
  <2>1. flush[f] # "waiting"
    OBVIOUS
  <2>2. x \notin permits
    BY Zenon, <1>1, <2>1 DEF FlushInv, HistoryInv
  <2>3. CASE x \in Event
    <3>1. place[x] # "unused" /\ x \in Publication
      BY Zenon, <1>1, <2>3 DEF FlushInv, HistoryInv, Publication
    <3>2. place[x] \in {"unused", "gone"}
      BY Zenon, <1>1, <2>2, <3>1 DEF FlushInv, PermitInv
    <3>3. outcome[x] # "none"
      BY Zenon, <1>1, <2>3, <3>1, <3>2 DEF FlushInv, PermitInv
    <3> QED BY Zenon, <2>3, <3>3 DEF Handled
  <2>4. CASE x \notin Event
    BY Zenon, <2>2, <2>4 DEF Handled
  <2> QED BY Zenon, <2>3, <2>4
<1> QED BY <1>1, TypeCorrect, FlushInvariant, PTL
==============================================================================
