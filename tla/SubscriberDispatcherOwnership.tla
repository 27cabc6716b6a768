-------------------- MODULE SubscriberDispatcherOwnership --------------------
(***************************************************************************)
(* Every message of the dispatcher has one owner, and as long as it has    *)
(* one it holds a permit: the first part of FlushInv, from which           *)
(* PermitHeld follows.                                                     *)
(***************************************************************************)
EXTENDS SubscriberDispatcherProofs

-----------------------------------------------------------------------------
(* Ownership of the messages in a sequence *)

\* Sending a publication gives its message to the channel or buffer.
LEMMA MsgsAppend ==
    ASSUME NEW S, NEW q \in Seq(S), NEW X, NEW x \in Publication \ X, OwnsMsgs(q, X),
           Msg(x) \in S
    PROVE  OwnsMsgs(Append(q, Msg(x)), X \cup {x})
<1>1. Msg(x).id = x /\ Msg(x).kind \in PublicationKinds
  BY DEF Msg, PublicationKinds
<1> QED
  BY <1>1, AppendAt DEF OwnsMsgs

\* A flush, register or complete message changes no ownership.
LEMMA MsgsAppendOther ==
    ASSUME NEW S, NEW q \in Seq(S), NEW X, NEW m \in S, OwnsMsgs(q, X),
           m.kind \notin PublicationKinds
    PROVE  OwnsMsgs(Append(q, m), X)
BY AppendAt DEF OwnsMsgs

\* Frames of different publications can be put one after the other.
LEMMA FramesConcat ==
    ASSUME NEW s \in Seq(Frame), NEW t \in Seq(Frame), NEW X, NEW Y,
           OwnsFrames(s, X), OwnsFrames(t, Y), X \cap Y = {}
    PROVE  OwnsFrames(s \o t, X \cup Y)
<1> DEFINE u == s \o t
<1>1. \A j \in DOMAIN u : \/ j \in DOMAIN s /\ u[j] = s[j]
                          \/ j - Len(s) \in DOMAIN t /\ u[j] = t[j - Len(s)] /\ j \in Nat
  BY ConcatAt
<1>2. \A j \in DOMAIN s : j \in DOMAIN u /\ u[j] = s[j]
  BY ConcatAt
<1>3. Len(s) \in Nat /\ \A j \in DOMAIN t : j \in Nat /\ Len(s) + j \in DOMAIN u /\ u[Len(s) + j] = t[j]
  BY ConcatAt
<1> HIDE DEF u
<1>4. \A j \in DOMAIN u : u[j].op # "finish" => u[j].id \in X \cup Y
  BY <1>1 DEF OwnsFrames
<1>5. \A x \in X \cup Y : \E j \in DOMAIN u : u[j].op # "finish" /\ u[j].id = x
  <2>1. \A x \in X : \E j \in DOMAIN s : s[j].op # "finish" /\ s[j].id = x
    BY DEF OwnsFrames
  <2>2. \A x \in Y : \E j \in DOMAIN t : t[j].op # "finish" /\ t[j].id = x
    BY DEF OwnsFrames
  <2>3. ASSUME NEW x \in X
        PROVE  \E j \in DOMAIN u : u[j].op # "finish" /\ u[j].id = x
    BY Zenon, <1>2, <2>1
  <2>4. ASSUME NEW x \in Y
        PROVE  \E j \in DOMAIN u : u[j].op # "finish" /\ u[j].id = x
    BY SMTT(60), <1>3, <2>2
  <2> QED
    BY Zenon, <2>3, <2>4
<1>6. \A i, j \in DOMAIN u : u[i].op # "finish" /\ u[j].op # "finish" /\ u[i].id = u[j].id => i = j
  <2> SUFFICES ASSUME NEW i \in DOMAIN u, NEW j \in DOMAIN u,
                      u[i].op # "finish", u[j].op # "finish", u[i].id = u[j].id
               PROVE  i = j
    OBVIOUS
  <2>1. CASE i \in DOMAIN s /\ u[i] = s[i]
    BY <1>1, <2>1 DEF OwnsFrames
  <2>2. CASE i - Len(s) \in DOMAIN t /\ u[i] = t[i - Len(s)] /\ i \in Nat
    <3>1. j - Len(s) \in DOMAIN t /\ u[j] = t[j - Len(s)] /\ j \in Nat
      BY <1>1, <2>2 DEF OwnsFrames
    <3>2. i - Len(s) = j - Len(s)
      BY <2>2, <3>1 DEF OwnsFrames
    <3> QED
      BY <1>3, <2>2, <3>1, <3>2
  <2> QED
    BY <1>1, <2>1, <2>2
<1> QED
  BY ZenonT(60), <1>4, <1>5, <1>6 DEF OwnsFrames, u

\* One frame.
LEMMA FramesOne ==
    ASSUME NEW fr \in Frame
    PROVE  /\ <<fr>> \in Seq(Frame)
           /\ fr.op # "finish" => OwnsFrames(<<fr>>, {fr.id})
           /\ fr.op = "finish" => OwnsFrames(<<fr>>, {})
BY DEF OwnsFrames

-----------------------------------------------------------------------------
(* Every message has one owner *)

\* Moving one new message changes what one place owns.
LEMMA MoveNew ==
    ASSUME TypeOK, NEW x \in Publication, place[x] \in {"unused", "attached"}, NEW to,
           Move({x}, to), place[x] # to
    PROVE  /\ \A y \in Publication : place'[y] = IF y = x THEN to ELSE place[y]
           /\ \A pl \in {"queue", "nested", "task", "stack", "delivering"} :
                 /\ InPlace(pl)' = IF pl = to THEN InPlace(pl) \cup {x} ELSE InPlace(pl)
                 /\ x \notin InPlace(pl)
<1>1. \A y \in Publication : place'[y] = IF y = x THEN to ELSE place[y]
  BY DEF Move
<1> QED
  BY <1>1 DEF InPlace

\* Sending to the channel.
LEMMA OwnSend ==
    ASSUME TypeOK, Own, NEW x \in Publication, place[x] \in {"unused", "attached"},
           queue' = Append(queue, Msg(x)), Move({x}, "queue"),
           UNCHANGED <<stack, nested, taskBuffer, delivering>>
    PROVE  Own'
<1>9. /\ InPlace("nested")' = InPlace("nested")
      /\ InPlace("task")' = InPlace("task")
      /\ InPlace("stack")' = InPlace("stack")
      /\ \A y \in Publication : place'[y] = IF y = x THEN "queue" ELSE place[y]
  BY Zenon, MoveNew
<1>1. OwnedQueue'
  <2>1. Msg(x) \in Message /\ queue \in Seq(Message)
    BY MsgType DEF TypeOK, Message
  <2>2. InPlace("queue")' = InPlace("queue") \cup {x} /\ x \in Publication \ InPlace("queue")
    BY Zenon, MoveNew
  <2> QED
    BY <2>1, <2>2, MsgsAppend DEF Own, OwnedQueue
<1>2. OwnedNested' /\ OwnedTask' /\ OwnedStack'
  <2>1. OwnedNested'
    BY <1>9 DEF Own, OwnedNested
  <2>2. OwnedTask'
    BY Zenon, <1>9 DEF Own, OwnedTask
  <2>3. OwnedStack'
    BY ZenonT(60), <1>9 DEF Own, OwnedStack
  <2> QED
    BY <2>1, <2>2, <2>3
<1>3. OwnedDelivering'
  BY <1>9 DEF Own, OwnedDelivering
<1> QED
  BY <1>1, <1>2, <1>3 DEF Own

\* Pushing to the buffer of the running middleware stage.
LEMMA OwnPushNested ==
    ASSUME TypeOK, Own, NEW x \in Publication, place[x] \in {"unused", "attached"},
           nested' = Append(nested, Msg(x)), Move({x}, "nested"), delivering # NoDelivery,
           UNCHANGED <<stack, queue, taskBuffer, delivering>>
    PROVE  Own'
<1>9. /\ InPlace("queue")' = InPlace("queue")
      /\ InPlace("task")' = InPlace("task")
      /\ InPlace("stack")' = InPlace("stack")
      /\ \A y \in Publication : place'[y] = IF y = x THEN "nested" ELSE place[y]
  BY Zenon, MoveNew
<1>1. OwnedNested'
  <2>1. Msg(x) \in PublicationMsg /\ nested \in Seq(PublicationMsg)
    BY MsgType DEF TypeOK
  <2>2. InPlace("nested")' = InPlace("nested") \cup {x} /\ x \in Publication \ InPlace("nested")
    BY Zenon, MoveNew
  <2> QED
    BY <2>1, <2>2, MsgsAppend DEF Own, OwnedNested
<1>2. OwnedQueue' /\ OwnedTask' /\ OwnedStack'
  <2>1. OwnedQueue'
    BY <1>9 DEF Own, OwnedQueue
  <2>2. OwnedTask'
    BY Zenon, <1>9 DEF Own, OwnedTask
  <2>3. OwnedStack'
    BY ZenonT(60), <1>9 DEF Own, OwnedStack
  <2> QED
    BY <2>1, <2>2, <2>3
<1>3. OwnedDelivering'
  BY <1>9 DEF Own, OwnedDelivering
<1> QED
  BY <1>1, <1>2, <1>3 DEF Own

\* Pushing to the buffer of a task.
LEMMA OwnPushTask ==
    ASSUME TypeOK, Own, NEW e \in Event, NEW b \in Task, place[e] \in {"unused", "attached"},
           taskBuffer' = [taskBuffer EXCEPT ![b] = Append(taskBuffer[b], Msg(e))],
           Move({e}, "task"), UNCHANGED <<stack, queue, nested, delivering>>
    PROVE  Own'
<1> e \in Publication
  BY DEF Publication
<1>9. /\ InPlace("queue")' = InPlace("queue")
      /\ InPlace("nested")' = InPlace("nested")
      /\ InPlace("stack")' = InPlace("stack")
      /\ \A y \in Publication : place'[y] = IF y = e THEN "task" ELSE place[y]
  BY Zenon, MoveNew
<1>1. OwnedTask'
  <2>1. /\ Msg(e) \in DeliverMsg /\ \A c \in Task : taskBuffer[c] \in Seq(DeliverMsg)
        /\ taskBuffer \in [Task -> Seq(DeliverMsg)]
    BY MsgType DEF TypeOK
  <2>2. InPlace("task")' = InPlace("task") \cup {e} /\ e \notin InPlace("task")
    BY Zenon, MoveNew
  <2>3. \A c \in Task : taskBuffer'[c] = IF c = b THEN Append(taskBuffer[b], Msg(e)) ELSE taskBuffer[c]
    BY ZenonT(60), <2>1
  <2>4. Ids(Append(taskBuffer[b], Msg(e))) = Ids(taskBuffer[b]) \cup {e}
    <3>1. Msg(e).id = e
      BY DEF Msg
    <3>2. taskBuffer[b] \in Seq(DeliverMsg) /\ Msg(e) \in DeliverMsg
      BY Zenon, <2>1
    <3> QED
      BY <3>1, <3>2, IdsAppend
  <2>5. \A c \in Task : e \notin Ids(taskBuffer[c])
    BY <2>2 DEF Own, OwnedTask
  <2>6. OwnsMsgs(Append(taskBuffer[b], Msg(e)), Ids(taskBuffer[b]) \cup {e})
    BY ZenonT(60), <2>1, <2>5, MsgsAppend DEF Own, OwnedTask
  <2>7. \A c \in Task : Ids(taskBuffer'[c]) = IF c = b THEN Ids(taskBuffer[b]) \cup {e} ELSE Ids(taskBuffer[c])
    <3> TAKE c \in Task
    <3>1. CASE c = b
      <4>1. taskBuffer'[c] = Append(taskBuffer[b], Msg(e))
        BY Zenon, <2>3, <3>1
      <4> QED
        BY <2>4, <3>1, <4>1
    <3>2. CASE c # b
      <4>1. taskBuffer'[c] = taskBuffer[c]
        BY <2>3, <3>2
      <4> QED
        BY <3>2, <4>1
    <3> QED
      BY ZenonT(60), <3>1, <3>2
  <2>8. \A c \in Task : OwnsMsgs(taskBuffer'[c], Ids(taskBuffer'[c]))
    BY Zenon, <2>3, <2>4, <2>6 DEF Own, OwnedTask
  <2>9. \A c, d \in Task : c # d => Ids(taskBuffer'[c]) \cap Ids(taskBuffer'[d]) = {}
    BY <2>5, <2>7 DEF Own, OwnedTask
  <2>10. InPlace("task")' = UNION {Ids(taskBuffer'[c]) : c \in Task}
    BY SMTT(60), <2>2, <2>7 DEF Own, OwnedTask
  <2> QED
    BY Zenon, <2>8, <2>9, <2>10 DEF OwnedTask, Ids
<1>2. OwnedQueue' /\ OwnedNested' /\ OwnedStack'
  <2>1. OwnedQueue'
    BY <1>9 DEF Own, OwnedQueue
  <2>2. OwnedNested'
    BY <1>9 DEF Own, OwnedNested
  <2>3. OwnedStack'
    BY ZenonT(60), <1>9 DEF Own, OwnedStack
  <2> QED
    BY ZenonT(60), <2>1, <2>2, <2>3
<1>3. OwnedDelivering'
  BY <1>9 DEF Own, OwnedDelivering
<1> QED
  BY <1>1, <1>2, <1>3 DEF Own

\* Taking a permit on a foreign thread, or losing an event.
LEMMA OwnAside ==
    ASSUME TypeOK, Own, NEW x \in Publication, place[x] \in {"unused", "attached"},
           NEW to \in {"attached", "gone"}, Move({x}, to), place[x] # to,
           UNCHANGED <<stack, queue, nested, taskBuffer, delivering>>
    PROVE  Own'
<1>9. /\ InPlace("queue")' = InPlace("queue")
      /\ InPlace("nested")' = InPlace("nested")
      /\ InPlace("task")' = InPlace("task")
      /\ InPlace("stack")' = InPlace("stack")
      /\ \A y \in Publication : place'[y] = IF y = x THEN to ELSE place[y]
  BY Zenon, MoveNew
<1>1. OwnedQueue' /\ OwnedNested' /\ OwnedTask' /\ OwnedStack'
  <2>1. OwnedQueue'
    BY <1>9 DEF Own, OwnedQueue
  <2>2. OwnedNested'
    BY <1>9 DEF Own, OwnedNested
  <2>3. OwnedTask'
    BY ZenonT(60), <1>9 DEF Own, OwnedTask
  <2>4. OwnedStack'
    BY ZenonT(60), <1>9 DEF Own, OwnedStack
  <2> QED
    BY <2>1, <2>2, <2>3, <2>4
<1>2. OwnedDelivering'
  BY <1>9 DEF Own, OwnedDelivering
<1> QED
  BY <1>1, <1>2 DEF Own

\* A message other than a publication joins the channel, or none does.
LEMMA OwnOther ==
    ASSUME TypeOK, Own,
           \/ UNCHANGED queue
           \/ \E m \in Message : m.kind \notin PublicationKinds /\ queue' = Append(queue, m)
           \/ queue # <<>> /\ Head(queue).kind \notin PublicationKinds /\ queue' = Tail(queue),
           UNCHANGED <<place, stack, nested, taskBuffer, delivering>>
    PROVE  Own'
<1> queue \in Seq(Message)
  BY DEF TypeOK
<1>1. \A pl : InPlace(pl)' = InPlace(pl)
  BY DEF InPlace
<1>2. OwnedQueue'
  <2>1. CASE UNCHANGED queue
    BY <1>1, <2>1 DEF Own, OwnedQueue
  <2>2. CASE \E m \in Message : m.kind \notin PublicationKinds /\ queue' = Append(queue, m)
    BY ZenonT(60), <1>1, <2>2, MsgsAppendOther DEF Own, OwnedQueue
  <2>3. CASE queue # <<>> /\ Head(queue).kind \notin PublicationKinds /\ queue' = Tail(queue)
    BY Zenon, <1>1, <2>3, MsgsTail DEF Own, OwnedQueue
  <2> QED
    BY ZenonT(60), <2>1, <2>2, <2>3
<1>3. OwnedStack' /\ OwnedNested' /\ OwnedTask'
  BY <1>1 DEF Own, OwnedStack, OwnedNested, OwnedTask
<1>4. OwnedDelivering'
  BY ZenonT(60) DEF Own, OwnedDelivering
<1> QED
  BY ZenonT(60), <1>2, <1>3, <1>4 DEF Own

\* The messages of a task's buffer leave it together.
LEMMA OwnTakeTask ==
    ASSUME TypeOK, Own, NEW b \in Task, taskBuffer' = [taskBuffer EXCEPT ![b] = <<>>],
           NEW to \in {"gone", "stack"}, Move(Ids(taskBuffer[b]), to)
    PROVE  /\ OwnedTask'
           /\ InPlace("queue")' = InPlace("queue") /\ InPlace("nested")' = InPlace("nested")
           /\ \A y \in Publication : place'[y] = "delivering" <=> place[y] = "delivering"
           /\ InPlace("stack")' = IF to = "stack" THEN InPlace("stack") \cup Ids(taskBuffer[b])
                                                  ELSE InPlace("stack")
           /\ InPlace("stack") \cap Ids(taskBuffer[b]) = {}
<1> DEFINE X == Ids(taskBuffer[b])
<1>1. \A y \in Publication : place'[y] = IF y \in X THEN to ELSE place[y]
  BY DEF Move
<1>2. X \subseteq InPlace("task")
  BY DEF Own, OwnedTask
<1>3. /\ InPlace("task")' = InPlace("task") \ X
      /\ InPlace("queue")' = InPlace("queue") /\ InPlace("nested")' = InPlace("nested")
      /\ \A y \in Publication : place'[y] = "delivering" <=> place[y] = "delivering"
      /\ InPlace("stack")' = IF to = "stack" THEN InPlace("stack") \cup X ELSE InPlace("stack")
      /\ InPlace("stack") \cap X = {}
  <2> HIDE DEF X
  <2> QED
    BY <1>1, <1>2 DEF InPlace
<1>4. \A c \in Task : taskBuffer'[c] = IF c = b THEN <<>> ELSE taskBuffer[c]
  BY DEF TypeOK
<1>5. Ids(<<>>) = {} /\ OwnsMsgs(<<>>, {})
  BY DEF Ids, OwnsMsgs
<1>6. \A c \in Task : /\ c = b => Ids(taskBuffer'[c]) = {}
                      /\ c # b => Ids(taskBuffer'[c]) = Ids(taskBuffer[c])
  <2> TAKE c \in Task
  <2>1. CASE c = b
    <3>1. taskBuffer'[c] = <<>>
      BY ZenonT(60), <1>4, <2>1
    <3> QED
      BY <1>5, <2>1, <3>1
  <2>2. CASE c # b
    <3>1. taskBuffer'[c] = taskBuffer[c]
      BY <1>4, <2>2
    <3> QED
      BY <2>2, <3>1
  <2> QED
    BY <2>1, <2>2
<1>7. \A c \in Task : OwnsMsgs(taskBuffer'[c], Ids(taskBuffer'[c]))
  <2> TAKE c \in Task
  <2>1. CASE c = b
    <3>1. taskBuffer'[c] = <<>> /\ Ids(taskBuffer'[c]) = {}
      BY ZenonT(60), <1>4, <1>6, <2>1
    <3> QED
      BY ZenonT(60), <1>5, <3>1
  <2>2. CASE c # b
    <3>1. taskBuffer'[c] = taskBuffer[c] /\ Ids(taskBuffer'[c]) = Ids(taskBuffer[c])
      BY ZenonT(60), <1>4, <1>6, <2>2
    <3> QED
      BY ZenonT(60), <3>1 DEF Own, OwnedTask
  <2> QED
    BY <2>1, <2>2
<1>8. \A c, d \in Task : c # d => Ids(taskBuffer'[c]) \cap Ids(taskBuffer'[d]) = {}
  BY ZenonT(60), <1>6 DEF Own, OwnedTask
<1>9. InPlace("task")' = UNION {Ids(taskBuffer'[c]) : c \in Task}
  <2>1. ASSUME NEW y \in InPlace("task")'
        PROVE  \E c \in Task : y \in Ids(taskBuffer'[c])
    <3>1. y \in InPlace("task") /\ y \notin X
      BY <1>3
    <3>2. PICK c \in Task : y \in Ids(taskBuffer[c])
      BY ZenonT(60), <3>1 DEF Own, OwnedTask
    <3> QED
      BY ZenonT(60), <1>6, <3>1, <3>2
  <2>2. ASSUME NEW c \in Task, NEW y \in Ids(taskBuffer'[c])
        PROVE  y \in InPlace("task")'
    <3>1. c # b /\ y \in Ids(taskBuffer[c])
      BY <1>6
    <3>2. y \in InPlace("task") /\ y \notin X
      BY <3>1 DEF Own, OwnedTask
    <3> QED
      BY ZenonT(60), <1>3, <3>2
  <2> QED
    BY <2>1, <2>2
<1>10. OwnedTask'
  BY Zenon, <1>7, <1>8, <1>9 DEF OwnedTask, Ids
<1> QED
  BY ZenonT(60), <1>3, <1>10

\* A publication is received and its handling begins.
LEMMA OwnReceive ==
    ASSUME TypeOK, Own, ReceivePublication
    PROVE  Own'
<1> DEFINE x == Head(queue).id
<1>1. /\ queue \in Seq(Message) /\ queue # <<>> /\ queue' = Tail(queue)
      /\ Head(queue).kind \in PublicationKinds /\ stack = <<>>
      /\ stack' = <<[op |-> "handle", id |-> x]>> /\ Move({x}, "stack")
      /\ UNCHANGED <<nested, taskBuffer, delivering>>
  BY ZenonT(60) DEF TypeOK, ReceivePublication, Receive, PublicationKinds, emitterVars
<1>2. x \in Publication
  BY ZenonT(60), <1>1, SeqHeadTail, MessageKinds DEF PublicationKinds, Publication
<1>3. x \in InPlace("queue") /\ OwnsMsgs(queue', InPlace("queue") \ {x})
  BY ZenonT(60), <1>1, MsgsTail DEF Own, OwnedQueue
<1>4. InPlace("stack") = {}
  BY <1>1 DEF Own, OwnedStack, OwnsFrames
<1> HIDE DEF x
<1>5. \A y \in Publication : place'[y] = IF y = x THEN "stack" ELSE place[y]
  BY ZenonT(60), <1>1 DEF Move
<1>6. /\ InPlace("queue")' = InPlace("queue") \ {x} /\ InPlace("stack")' = {x}
      /\ InPlace("nested")' = InPlace("nested") /\ InPlace("task")' = InPlace("task")
      /\ \A y \in Publication : place'[y] = "delivering" <=> place[y] = "delivering"
  BY ZenonT(60), <1>2, <1>3, <1>4, <1>5 DEF InPlace
<1>7. OwnedQueue'
  BY ZenonT(60), <1>3, <1>6 DEF OwnedQueue
<1>8. OwnedStack'
  <2>1. [op |-> "handle", id |-> x] \in Frame
    BY <1>2 DEF Frame
  <2>2. OwnsFrames(stack', {x})
    BY ZenonT(60), <1>1, <2>1, FramesOne
  <2> QED
    BY <1>6, <2>2 DEF OwnedStack
<1>9. OwnedNested'
  BY <1>1, <1>6 DEF Own, OwnedNested
<1>10. OwnedTask'
  <2>1. taskBuffer' = taskBuffer /\ InPlace("task")' = InPlace("task")
    BY ZenonT(60), <1>1, <1>6
  <2> QED
    BY ZenonT(60), <2>1 DEF Own, OwnedTask
<1>11. OwnedDelivering'
  BY ZenonT(60), <1>1, <1>6 DEF Own, OwnedDelivering
<1> QED
  BY ZenonT(60), <1>7, <1>8, <1>9, <1>10, <1>11 DEF Own

\* Delivery of the event on top of the stack begins.
LEMMA OwnStart ==
    ASSUME TypeOK, Own, NEW e \in Event, Step("handle"), Head(stack).id = e,
           stack' = Tail(stack), Move({e}, "delivering"), delivering'.event = e,
           delivering' # NoDelivery, UNCHANGED <<queue, nested, taskBuffer>>
    PROVE  Own'
<1>1. stack \in Seq(Frame) /\ stack # <<>> /\ Head(stack).op # "finish" /\ e \in Publication
  BY ZenonT(60) DEF TypeOK, Step, Publication
<1>2. e \in InPlace("stack") /\ OwnsFrames(stack', InPlace("stack") \ {e})
  BY ZenonT(60), <1>1, FramesTail DEF Own, OwnedStack
<1>3. \A y \in Publication : place'[y] = IF y = e THEN "delivering" ELSE place[y]
  BY ZenonT(60) DEF Move
<1>4. /\ InPlace("stack")' = InPlace("stack") \ {e} /\ InPlace("queue")' = InPlace("queue")
      /\ InPlace("nested")' = InPlace("nested") /\ InPlace("task")' = InPlace("task")
  BY <1>2, <1>3 DEF InPlace
<1>5. OwnedStack'
  BY Zenon, <1>2, <1>4 DEF OwnedStack
<1>6. OwnedQueue'
  BY <1>4 DEF Own, OwnedQueue
<1>7. OwnedNested'
  BY <1>4 DEF Own, OwnedNested
<1>8. OwnedTask'
  BY Zenon, <1>4 DEF Own, OwnedTask
<1>9. OwnedDelivering'
  <2>1. delivering.event = None
    <3>1. delivering \in Delivery
      BY Zenon DEF TypeOK
    <3> QED
      BY <3>1 DEF Step, Delivery, NoDelivery, MiddlewareStages
  <2>2. \A y \in Publication : place[y] # "delivering"
    BY <2>1, DisjointIds DEF Own, OwnedDelivering, Publication
  <2> QED
    BY SMTT(60), <1>3, <2>2 DEF OwnedDelivering
<1> QED
  BY ZenonT(60), <1>5, <1>6, <1>7, <1>8, <1>9 DEF Own

\* Delivery goes on with the next stage.
LEMMA OwnStay ==
    ASSUME TypeOK, Own, Move({delivering.event}, "delivering"), delivering.event \in Event,
           delivering'.event = delivering.event, delivering' # NoDelivery,
           UNCHANGED <<queue, stack, nested, taskBuffer>>
    PROVE  Own'
<1>1. place[delivering.event] = "delivering"
  BY ZenonT(60) DEF Own, OwnedDelivering, Publication
<1>2. place' = place
  BY ZenonT(60), <1>1 DEF Move, TypeOK
<1>3. \A pl : InPlace(pl)' = InPlace(pl)
  BY ZenonT(60), <1>2 DEF InPlace
<1>4. OwnedQueue' /\ OwnedStack'
  BY <1>3 DEF Own, OwnedQueue, OwnedStack
<1>5. OwnedNested'
  BY ZenonT(60), <1>3 DEF Own, OwnedNested
<1>6. OwnedTask'
  BY ZenonT(60), <1>3 DEF Own, OwnedTask
<1>7. OwnedDelivering'
  BY ZenonT(60), <1>2 DEF Own, OwnedDelivering
<1> QED
  BY ZenonT(60), <1>4, <1>5, <1>6, <1>7 DEF Own

\* Delivery ends: the event is gone and its nested publications are next.
LEMMA OwnEnd ==
    ASSUME TypeOK, Own, NEW e \in Event, NEW r, NEW rest \in Seq(Frame),
           OwnsFrames(rest, InPlace("stack") \ {e}), place[e] \in {"delivering", "stack"},
           delivering.event \in {e, None}, EndDelivery(e, r, rest),
           UNCHANGED <<queue, taskBuffer>>
    PROVE  Own'
<1>1. /\ HandleFrames(nested) \in Seq(Frame) /\ OwnsFrames(HandleFrames(nested), InPlace("nested"))
      /\ InPlace("nested") = Ids(nested)
  <2>1. nested \in Seq(PublicationMsg) /\ OwnsMsgs(nested, InPlace("nested"))
    BY Zenon DEF TypeOK, Own, OwnedNested
  <2> QED
    BY Zenon, <2>1, FramesOf
<1>2. \A y \in Publication :
         place'[y] = IF y = e THEN "gone" ELSE IF y \in InPlace("nested") THEN "stack" ELSE place[y]
  BY ZenonT(60), <1>1 DEF EndDelivery
<1>3. e \in Publication
  BY ZenonT(60) DEF Publication
<1>4. /\ InPlace("stack")' = InPlace("nested") \cup (InPlace("stack") \ {e})
      /\ InPlace("nested")' = {} /\ InPlace("queue")' = InPlace("queue")
      /\ InPlace("task")' = InPlace("task")
      /\ InPlace("nested") \cap (InPlace("stack") \ {e}) = {}
  BY <1>2, <1>3 DEF InPlace
<1>5. OwnedStack'
  <2> DEFINE fin == [op |-> "finish", id |-> e]
  <2>1. fin \in Frame
    BY DEF Frame
  <2>2. <<fin>> \in Seq(Frame) /\ OwnsFrames(<<fin>>, {})
    BY ZenonT(60), <2>1, FramesOne
  <2> HIDE DEF fin
  <2>3. HandleFrames(nested) \o <<fin>> \in Seq(Frame)
    BY <1>1, <2>2, ConcatAt
  <2>4. OwnsFrames(HandleFrames(nested) \o <<fin>>, InPlace("nested") \cup {})
    BY ZenonT(60), <1>1, <2>2, FramesConcat
  <2>5. InPlace("nested") \cup {} = InPlace("nested")
    OBVIOUS
  <2>6. OwnsFrames((HandleFrames(nested) \o <<fin>>) \o rest,
                   InPlace("nested") \cup (InPlace("stack") \ {e}))
    BY ZenonT(60), <1>4, <2>3, <2>4, <2>5, FramesConcat
  <2>7. stack' = (HandleFrames(nested) \o <<fin>>) \o rest
    BY ZenonT(60) DEF EndDelivery, fin
  <2> QED
    BY ZenonT(60), <1>4, <2>6, <2>7 DEF OwnedStack
<1>6. OwnedQueue'
  BY ZenonT(60), <1>4 DEF Own, OwnedQueue
<1>7. OwnedNested'
  <2>1. nested' = <<>>
    BY DEF EndDelivery
  <2> QED
    BY SMTT(60), <1>4, <2>1 DEF OwnedNested, OwnsMsgs
<1>8. OwnedTask'
  <2>1. taskBuffer' = taskBuffer /\ InPlace("task")' = InPlace("task")
    BY ZenonT(60), <1>4
  <2> QED
    BY ZenonT(60), <2>1 DEF Own, OwnedTask
<1>9. OwnedDelivering'
  <2>1. \A y \in Publication : place[y] = "delivering" => y = e
    BY ZenonT(60), DisjointIds DEF Own, OwnedDelivering, Publication
  <2>2. delivering'.event = None
    BY ZenonT(60) DEF EndDelivery, NoDelivery
  <2>3. \A y \in Publication : place'[y] # "delivering"
    BY ZenonT(60), <1>2, <2>1
  <2> QED
    BY ZenonT(60), <2>2, <2>3, DisjointIds DEF OwnedDelivering, Publication
<1> QED
  BY ZenonT(60), <1>5, <1>6, <1>7, <1>8, <1>9 DEF Own

\* The finish frame goes, the await frame replaces its handle frame, or a
\* barrier is released.
LEMMA OwnPop ==
    ASSUME TypeOK, Own, NEW X, OwnsFrames(stack', X), InPlace("stack")' = X,
           \A y \in Publication : place[y] # "stack" => place'[y] = place[y],
           \A y \in Publication : place'[y] \in {place[y], "gone"},
           UNCHANGED <<queue, nested, taskBuffer, delivering>>
    PROVE  Own'
<1>1. /\ InPlace("queue")' = InPlace("queue") /\ InPlace("nested")' = InPlace("nested")
      /\ InPlace("task")' = InPlace("task")
      /\ \A y \in Publication : place'[y] = "delivering" <=> place[y] = "delivering"
  BY ZenonT(60) DEF InPlace
<1>2. OwnedStack'
  BY ZenonT(60) DEF OwnedStack
<1>3. OwnedQueue'
  BY SMTT(60), <1>1 DEF Own, OwnedQueue
<1>4. OwnedNested'
  BY ZenonT(60), <1>1 DEF Own, OwnedNested
<1>5. OwnedTask'
  <2>1. taskBuffer' = taskBuffer /\ InPlace("task")' = InPlace("task")
    BY ZenonT(60), <1>1
  <2> QED
    BY ZenonT(60), <2>1 DEF Own, OwnedTask
<1>6. OwnedDelivering'
  BY <1>1 DEF Own, OwnedDelivering
<1> QED
  BY ZenonT(60), <1>2, <1>3, <1>4, <1>5, <1>6 DEF Own

\* A finish frame owns no message.
LEMMA OwnFinish ==
    ASSUME TypeOK, Own, FinishDeliver
    PROVE  Own'
<1>1. /\ stack \in Seq(Frame) /\ stack # <<>> /\ Head(stack).op = "finish" /\ stack' = Tail(stack)
      /\ UNCHANGED <<queue, nested, taskBuffer, delivering, place>>
  BY DEF TypeOK, FinishDeliver, Step, channelVars, emitterVars
<1>2. OwnsFrames(stack', InPlace("stack")) /\ InPlace("stack")' = InPlace("stack")
  BY Zenon, <1>1, FramesTail DEF Own, OwnedStack, InPlace
<1> QED
  BY ZenonT(60), <1>1, <1>2, OwnPop

\* Handling a barrier turns it into the frames of its task and a release.
LEMMA OwnBarrier ==
    ASSUME TypeOK, Own, HandleBarrier
    PROVE  Own'
<1> DEFINE b == Head(stack).id
           aw == [op |-> "await", id |-> b]
<1>1. /\ stack \in Seq(Frame) /\ stack # <<>> /\ Head(stack).op # "finish" /\ b \in Task
      /\ stack' = <<aw>> \o Tail(stack)
      /\ UNCHANGED <<queue, nested, taskBuffer, delivering, place>>
  BY ZenonT(60) DEF TypeOK, HandleBarrier, Step, channelVars, emitterVars
<1>2. /\ OwnsFrames(Tail(stack), InPlace("stack") \ {b}) /\ InPlace("stack")' = InPlace("stack")
      /\ b \in InPlace("stack") /\ Tail(stack) \in Seq(Frame)
  BY Zenon, <1>1, FramesTail, SeqHeadTail DEF Own, OwnedStack, InPlace
<1>3. aw \in Frame /\ aw.op # "finish" /\ aw.id = b
  BY Zenon, <1>1 DEF Frame
<1> HIDE DEF b, aw
<1>4. <<aw>> \in Seq(Frame) /\ OwnsFrames(<<aw>>, {b})
  BY <1>3, FramesOne
<1>5. OwnsFrames(stack', {b} \cup (InPlace("stack") \ {b}))
  BY Zenon, <1>1, <1>2, <1>4, FramesConcat
<1>6. {b} \cup (InPlace("stack") \ {b}) = InPlace("stack")
  BY <1>2
<1> QED
  BY ZenonT(60), <1>1, <1>2, <1>5, <1>6, OwnPop

\* Releasing a task ends the life of its barrier message.
LEMMA OwnRelease ==
    ASSUME TypeOK, Own, ReleaseBarrier
    PROVE  Own'
<1> DEFINE b == Head(stack).id
<1>1. /\ stack \in Seq(Frame) /\ stack # <<>> /\ Head(stack).op # "finish" /\ stack' = Tail(stack)
      /\ Move({b}, "gone") /\ UNCHANGED <<queue, nested, taskBuffer, delivering>>
  BY ZenonT(60) DEF TypeOK, ReleaseBarrier, Step, channelVars, emitterVars
<1>2. OwnsFrames(stack', InPlace("stack") \ {b}) /\ b \in InPlace("stack")
  BY <1>1, FramesTail DEF Own, OwnedStack
<1> HIDE DEF b
<1>3. \A y \in Publication : place'[y] = IF y = b THEN "gone" ELSE place[y]
  BY <1>1 DEF Move
<1>4. InPlace("stack")' = InPlace("stack") \ {b} /\ place[b] = "stack"
  BY <1>2, <1>3 DEF InPlace
<1> QED
  BY Zenon, <1>1, <1>2, <1>3, <1>4, OwnPop

\* The publications of a task go on the stack, or are lost with it.
LEMMA OwnTaken ==
    ASSUME TypeOK, Own, ReceivePublications
    PROVE  Own'
<1> DEFINE b == Head(stack).id
           rel == [op |-> "release", id |-> b]
           X == Ids(taskBuffer[b])
           hs == HandleFrames(taskBuffer[b])
           rest == Tail(stack)
<1>1. /\ stack \in Seq(Frame) /\ stack # <<>> /\ Head(stack).op = "await"
      /\ stack' = hs \o <<rel>> \o rest
      /\ taskBuffer' = [taskBuffer EXCEPT ![b] = <<>>] /\ Move(X, "stack")
      /\ UNCHANGED <<queue, nested, delivering>>
  BY ZenonT(60) DEF TypeOK, ReceivePublications, Step, channelVars
<1>2. b \in Task /\ b \in Publication
  <2>1. Head(stack) \in Frame /\ Head(stack).op = "await"
    BY Zenon, <1>1, SeqHeadTail
  <2>2. \A f \in Frame : f.op = "await" => f.id \in Task
    BY DEF Frame
  <2> QED BY Zenon, <2>1, <2>2 DEF Publication
<1>3. /\ OwnsFrames(rest, InPlace("stack") \ {b}) /\ rest \in Seq(Frame)
      /\ b \in InPlace("stack")
  BY Zenon, <1>1, FramesTail, SeqHeadTail DEF Own, OwnedStack
<1>4. /\ OwnedTask'
      /\ InPlace("queue")' = InPlace("queue") /\ InPlace("nested")' = InPlace("nested")
      /\ \A y \in Publication : place'[y] = "delivering" <=> place[y] = "delivering"
      /\ InPlace("stack")' = InPlace("stack") \cup X
      /\ InPlace("stack") \cap X = {}
  BY ZenonT(60), <1>1, <1>2, OwnTakeTask
<1>5. hs \in Seq(Frame) /\ OwnsFrames(hs, X)
  <2>1. taskBuffer[b] \in Seq(DeliverMsg)
    BY Zenon, <1>2 DEF TypeOK
  <2>2. taskBuffer[b] \in Seq(PublicationMsg)
    BY SMTT(60), <2>1 DEF PublicationMsg
  <2>3. OwnsMsgs(taskBuffer[b], X)
    BY <1>2 DEF Own, OwnedTask
  <2> QED
    BY <2>2, <2>3, FramesOf
<1>6. rel \in Frame /\ rel.op # "finish" /\ rel.id = b
  BY ZenonT(60), <1>2 DEF Frame
<1> HIDE DEF b, rel, X, hs, rest
<1>7. <<rel>> \in Seq(Frame) /\ OwnsFrames(<<rel>>, {b})
  BY <1>6, FramesOne
<1>8. hs \o <<rel>> \in Seq(Frame) /\ OwnsFrames(hs \o <<rel>>, X \cup {b})
  <2>1. X \cap {b} = {}
    BY <1>3, <1>4
  <2>2. OwnsFrames(hs \o <<rel>>, X \cup {b})
    BY Zenon, <1>5, <1>7, <2>1, FramesConcat
  <2> QED
    BY ZenonT(60), <1>5, <1>7, <2>2, ConcatAt
<1>9. OwnsFrames(stack', (X \cup {b}) \cup (InPlace("stack") \ {b}))
  BY ZenonT(60), <1>1, <1>3, <1>4, <1>8, FramesConcat
<1>10. (X \cup {b}) \cup (InPlace("stack") \ {b}) = InPlace("stack")'
  BY <1>3, <1>4
<1>11. OwnedStack'
  BY SMTT(60), <1>9, <1>10 DEF OwnedStack
<1>12. OwnedQueue'
  BY ZenonT(60), <1>1, <1>4 DEF Own, OwnedQueue
<1>13. OwnedNested'
  BY ZenonT(60), <1>1, <1>4 DEF Own, OwnedNested
<1>14. OwnedDelivering'
  BY <1>1, <1>4 DEF Own, OwnedDelivering
<1> QED
  BY ZenonT(60), <1>4, <1>11, <1>12, <1>13, <1>14 DEF Own

\* Starting or continuing a delivery, or ending it at once.
LEMMA OwnAdvance ==
    ASSUME TypeOK, Own, NEW e \in Event, NEW s \in MiddlewareStages \cup {"subscribe", "drop"},
           NEW v, NEW rest \in Seq(Frame), Advance(e, <<s, v>>, rest), UNCHANGED <<queue, taskBuffer>>,
           \/ Step("handle") /\ Head(stack).id = e /\ rest = Tail(stack)
           \/ delivering.event = e /\ delivering # NoDelivery /\ rest = stack
    PROVE  Own'
<1> e \in Publication
  BY DEF Publication
<1>1. CASE Step("handle") /\ Head(stack).id = e /\ rest = Tail(stack)
  <2>1. stack \in Seq(Frame) /\ stack # <<>> /\ Head(stack).op # "finish" /\ delivering.event = None
    BY Zenon, <1>1, InDelivery DEF TypeOK, Step
  <2>2. OwnsFrames(rest, InPlace("stack") \ {e}) /\ place[e] = "stack"
    <3>1. OwnsFrames(rest, InPlace("stack") \ {e}) /\ e \in InPlace("stack")
      BY ZenonT(60), <1>1, <2>1, FramesTail DEF Own, OwnedStack
    <3> QED
      BY Zenon, <3>1 DEF InPlace
  <2>3. CASE s = "drop"
    <3>1. EndDelivery(e, "dropped", rest)
      BY <2>3 DEF Advance
    <3> QED
      BY ZenonT(60), <2>1, <2>2, <3>1, OwnEnd
  <2>4. CASE s # "drop"
    <3>1. /\ delivering' = [event |-> e, stage |-> s, view |-> v] /\ stack' = rest
          /\ Move({e}, "delivering") /\ UNCHANGED nested
      BY <2>4 DEF Advance
    <3>2. delivering'.event = e /\ delivering' # NoDelivery
      BY ZenonT(60), <3>1, DisjointIds DEF NoDelivery
    <3> QED
      BY ZenonT(60), <1>1, <3>1, <3>2, OwnStart
  <2> QED
    BY ZenonT(60), <2>3, <2>4
<1>2. CASE delivering.event = e /\ delivering # NoDelivery /\ rest = stack
  <2>1. place[e] = "delivering" /\ InPlace("stack") \ {e} = InPlace("stack")
    BY <1>2 DEF Own, OwnedDelivering, InPlace
  <2>2. OwnsFrames(rest, InPlace("stack") \ {e})
    BY Zenon, <1>2, <2>1 DEF Own, OwnedStack
  <2>3. CASE s = "drop"
    <3>1. EndDelivery(e, "dropped", rest)
      BY <2>3 DEF Advance
    <3> QED
      BY ZenonT(60), <1>2, <2>1, <2>2, <3>1, OwnEnd
  <2>4. CASE s # "drop"
    <3>1. /\ delivering' = [event |-> e, stage |-> s, view |-> v] /\ stack' = stack
          /\ Move({delivering.event}, "delivering") /\ UNCHANGED nested
      BY <1>2, <2>4 DEF Advance
    <3>2. delivering'.event = e /\ delivering' # NoDelivery
      BY <3>1, DisjointIds DEF NoDelivery
    <3> QED
      BY ZenonT(60), <1>2, <3>1, <3>2, OwnStay
  <2> QED
    BY <2>3, <2>4
<1> QED
  BY <1>1, <1>2

\* Where sanitize_event_snapshot can go.
LEMMA StagePoints ==
    ASSUME NEW e \in Event
    PROVE  /\ \A pt \in EnterTransform(e) :
                 \E s \in MiddlewareStages \cup {"subscribe", "drop"}, v \in Views : pt = <<s, v>>
           /\ \A d \in Delivery : d.stage \in MiddlewareStages =>
                 \A pt \in AfterStage(d) :
                    \E s \in MiddlewareStages \cup {"subscribe", "drop"}, v \in Views : pt = <<s, v>>
<1> DEFINE Points == (MiddlewareStages \cup {"subscribe", "drop"}) \X Views
<1>1. /\ EnterTransform(e) \subseteq Points
      /\ \A d \in Delivery : d.stage \in MiddlewareStages => AfterStage(d) \subseteq Points
  BY DEF EnterTransform, EnterInject, EnterSanitize, AfterStage, Delivery, NoDelivery,
         MiddlewareStages, Views
<1>2. \A pt \in Points :
         \E s \in MiddlewareStages \cup {"subscribe", "drop"}, v \in Views : pt = <<s, v>>
  OBVIOUS
<1> HIDE DEF Points
<1> QED
  BY <1>1, <1>2

\* Every step keeps every message with one owner.
LEMMA OwnStep ==
    ASSUME TypeOK, Own, [Next]_vars
    PROVE  Own'
<1> USE DEF loopVars
<1>1. CASE UNCHANGED vars
  <2>1. UNCHANGED <<queue, place, stack, nested, taskBuffer, delivering>>
    BY <1>1 DEF vars, channelVars, emitterVars
  <2> QED
    BY <2>1, OwnOther
<1>2. ASSUME NEW x \in Publication, NEW p, Emit(x, p) \/ SubscriberEmit(x)
      PROVE  Own'
  <2>1. /\ place[x] = "unused" /\ queue' = Append(queue, Msg(x)) /\ Move({x}, "queue")
        /\ UNCHANGED <<stack, nested, taskBuffer, delivering>>
    BY <1>2 DEF Emit, SubscriberEmit, Unused, SendPublication
  <2> QED
    BY <2>1, OwnSend
<1>3. ASSUME NEW e \in Event, EmitLost(e)
      PROVE  Own'
  <2>1. /\ place[e] = "unused" /\ Move({e}, "gone") /\ e \in Publication
        /\ UNCHANGED <<stack, queue, nested, taskBuffer, delivering>>
    BY <1>3 DEF EmitLost, Unused, emitterVars, Publication
  <2> QED
    BY ZenonT(60), <2>1, OwnAside
<1>4. ASSUME NEW e \in Event, ForeignCapture(e)
      PROVE  Own'
  <2>1. UNCHANGED <<queue, place, stack, nested, taskBuffer, delivering>>
    BY <1>4 DEF ForeignCapture, channelVars, emitterVars
  <2> QED
    BY ZenonT(60), <2>1, OwnOther
<1>5. ASSUME NEW e \in Event, ForeignAttach(e)
      PROVE  Own'
  <2>1. /\ place[e] = "unused" /\ Move({e}, "attached") /\ e \in Publication
        /\ UNCHANGED <<stack, queue, nested, taskBuffer, delivering>>
    BY <1>5 DEF ForeignAttach, channelVars, emitterVars, Publication
  <2> QED
    BY <2>1, OwnAside
<1>6. ASSUME NEW e \in Event, ForeignPush(e)
      PROVE  Own'
  <2> DEFINE b == foreign[e].owner
  <2>1. e \in Publication /\ place[e] = "attached" /\ UNCHANGED <<stack, delivering>>
    BY ZenonT(60), <1>6 DEF ForeignPush, Publication
  <2>2. foreign[e] \in Buffer /\ (foreign[e].stage = "task" => b \in Task)
    <3>1. foreign[e] \in Buffer
      BY ZenonT(60), <1>6 DEF ForeignPush, TypeOK
    <3> QED
      BY ZenonT(60), <3>1 DEF Buffer, MiddlewareStages
  <2>3. \/ /\ queue' = Append(queue, Msg(e)) /\ Move({e}, "queue")
           /\ UNCHANGED <<nested, taskBuffer>>
        \/ /\ nested' = Append(nested, Msg(e)) /\ Move({e}, "nested") /\ delivering.event = b
           /\ foreign[e].stage # "task" /\ UNCHANGED <<queue, taskBuffer>>
        \/ /\ taskBuffer' = [taskBuffer EXCEPT ![b] = Append(taskBuffer[b], Msg(e))]
           /\ Move({e}, "task") /\ foreign[e].stage = "task" /\ UNCHANGED <<queue, nested>>
        \/ Move({e}, "gone") /\ UNCHANGED <<queue, nested, taskBuffer>>
    BY Zenon, <1>6 DEF ForeignPush, SendPublication, channelVars, IsActive
  <2>4. foreign[e].stage # "task" => b \in Event
    BY <2>2 DEF Buffer
  <2>5. delivering.event = b /\ foreign[e].stage # "task" => delivering # NoDelivery
    <3>1. NoDelivery.event = None /\ None \notin Event
      BY DisjointIds DEF NoDelivery
    <3> QED
      BY <2>4, <3>1
  <2> HIDE DEF b
  <2>6. CASE queue' = Append(queue, Msg(e)) /\ Move({e}, "queue") /\ UNCHANGED <<nested, taskBuffer>>
    BY ZenonT(60), <2>1, <2>6, OwnSend
  <2>7. CASE /\ nested' = Append(nested, Msg(e)) /\ Move({e}, "nested") /\ delivering.event = b
             /\ foreign[e].stage # "task" /\ UNCHANGED <<queue, taskBuffer>>
    BY ZenonT(60), <2>1, <2>5, <2>7, OwnPushNested
  <2>8. CASE /\ taskBuffer' = [taskBuffer EXCEPT ![b] = Append(taskBuffer[b], Msg(e))]
             /\ Move({e}, "task") /\ foreign[e].stage = "task" /\ UNCHANGED <<queue, nested>>
    <3>1. b \in Task
      BY ZenonT(60), <2>2, <2>8 DEF b
    <3> QED
      BY ZenonT(60), <2>1, <2>8, <3>1, OwnPushTask
  <2>9. CASE Move({e}, "gone") /\ UNCHANGED <<queue, nested, taskBuffer>>
    BY ZenonT(60), <2>1, <2>9, OwnAside
  <2> QED
    BY ZenonT(60), <2>3, <2>6, <2>7, <2>8, <2>9
<1>7. ASSUME NEW x \in Publication, NestedEmit(x)
      PROVE  Own'
  <2>1. /\ place[x] = "unused" /\ nested' = Append(nested, Msg(x)) /\ Move({x}, "nested")
        /\ delivering.stage # "idle" /\ UNCHANGED <<stack, queue, taskBuffer, delivering>>
    BY <1>7 DEF NestedEmit, Unused, MiddlewareStages, channelVars
  <2>2. delivering # NoDelivery
    BY ZenonT(60), <2>1, InDelivery
  <2> QED
    BY <2>1, <2>2, OwnPushNested
<1>8. ASSUME NEW b \in Task, NEW e \in Event, TaskEmit(e, b)
      PROVE  Own'
  <2>1. /\ place[e] = "unused" /\ Move({e}, "task")
        /\ taskBuffer' = [taskBuffer EXCEPT ![b] = Append(taskBuffer[b], Msg(e))]
        /\ UNCHANGED <<stack, queue, nested, delivering>>
    BY <1>8 DEF TaskEmit, Unused, channelVars
  <2> QED
    BY Zenon, <2>1, OwnPushTask
<1>9. ASSUME NEW b \in Task, TaskFinish(b)
      PROVE  Own'
  <2>1. UNCHANGED <<queue, place, stack, nested, taskBuffer, delivering>>
    BY <1>9 DEF TaskFinish, channelVars
  <2> QED
    BY <2>1, OwnOther
<1>10. ASSUME NEW b \in Task, TaskDrop(b)
       PROVE  Own'
  <2>1. /\ taskBuffer' = [taskBuffer EXCEPT ![b] = <<>>] /\ Move(Ids(taskBuffer[b]), "gone")
        /\ UNCHANGED <<stack, queue, nested, delivering>>
    BY <1>10 DEF TaskDrop, channelVars
  <2>2. /\ OwnedTask'
        /\ InPlace("queue")' = InPlace("queue") /\ InPlace("nested")' = InPlace("nested")
        /\ \A y \in Publication : place'[y] = "delivering" <=> place[y] = "delivering"
        /\ InPlace("stack")' = InPlace("stack")
    BY Zenon, <2>1, OwnTakeTask
  <2>3. OwnedQueue' /\ OwnedStack'
    BY Zenon, <2>1, <2>2 DEF Own, OwnedQueue, OwnedStack
  <2>4. OwnedNested'
    BY ZenonT(60), <2>1, <2>2 DEF Own, OwnedNested
  <2>5. OwnedDelivering'
    BY ZenonT(60), <2>1, <2>2 DEF Own, OwnedDelivering
  <2> QED
    BY ZenonT(60), <2>2, <2>3, <2>4, <2>5 DEF Own
<1>11. ASSUME NEW p \in Pending, RegisterPending(p) \/ ReleasePending(p)
       PROVE  Own'
  <2>1. UNCHANGED <<place, stack, nested, taskBuffer, delivering>>
    BY <1>11 DEF RegisterPending, ReleasePending
  <2>2. \E m \in Message : m.kind \notin PublicationKinds /\ queue' = Append(queue, m)
    <3> DEFINE r == [kind |-> "register", id |-> p]
               c == [kind |-> "complete", id |-> p]
    <3>1. r \in Message /\ c \in Message
      BY DEF Message
    <3>2. r.kind \notin PublicationKinds /\ c.kind \notin PublicationKinds
      BY DEF PublicationKinds
    <3>3. queue' = Append(queue, r) \/ queue' = Append(queue, c)
      BY <1>11 DEF RegisterPending, ReleasePending
    <3> HIDE DEF r, c
    <3> QED
      BY ZenonT(60), <3>1, <3>2, <3>3
  <2> QED
    BY ZenonT(60), <2>1, <2>2, OwnOther
<1>12. ASSUME NEW f \in Flush, NEW m, FlushInCallback(f) \/ FlushCall(f, m)
       PROVE  Own'
  <2>1. UNCHANGED <<place, stack, nested, taskBuffer, delivering>>
    BY <1>12 DEF FlushInCallback, FlushCall, emitterVars
  <2>2. \/ UNCHANGED queue
        \/ \E n \in Message : n.kind \notin PublicationKinds /\ queue' = Append(queue, n)
    <3> DEFINE n == [kind |-> "flush", id |-> f]
    <3>1. n \in Message /\ n.kind \notin PublicationKinds
      BY ZenonT(60) DEF Message, PublicationKinds
    <3>2. queue' = queue \/ queue' = Append(queue, n)
      BY <1>12 DEF FlushInCallback, FlushCall, channelVars
    <3> HIDE DEF n
    <3> QED
      BY ZenonT(60), <3>1, <3>2
  <2> QED
    BY ZenonT(60), <2>1, <2>2, OwnOther
<1>13. CASE HandleFlush \/ HandleRegisterPending \/ HandleCompletePending
  <2>1. /\ UNCHANGED <<place, stack, nested, taskBuffer, delivering>>
        /\ queue # <<>> /\ Head(queue).kind \notin PublicationKinds /\ queue' = Tail(queue)
    BY Zenon, <1>13 DEF HandleFlush, HandleRegisterPending, HandleCompletePending, Receive,
                 PublicationKinds, emitterVars
  <2> QED
    BY <2>1, OwnOther
<1>14. CASE HandleDeliver
  <2> DEFINE e == Head(stack).id
  <2>1. /\ Step("handle") /\ e \in Event /\ UNCHANGED <<queue, taskBuffer>>
        /\ \E pt \in EnterTransform(e) : Advance(e, pt, Tail(stack))
    BY ZenonT(60), <1>14 DEF HandleDeliver, channelVars, emitterVars
  <2>2. Tail(stack) \in Seq(Frame)
    BY ZenonT(60), <2>1, SeqHeadTail DEF TypeOK, Step
  <2>3. PICK s \in MiddlewareStages \cup {"subscribe", "drop"}, v \in Views :
           Advance(e, <<s, v>>, Tail(stack))
    BY Zenon, <2>1, StagePoints
  <2> QED
    BY ZenonT(60), <2>1, <2>2, <2>3, OwnAdvance
<1>15. CASE EndStage
  <2> DEFINE e == delivering.event
  <2>1. /\ delivering.stage \in MiddlewareStages /\ UNCHANGED <<queue, taskBuffer>>
        /\ \E pt \in AfterStage(delivering) : Advance(e, pt, stack)
    BY ZenonT(60), <1>15 DEF EndStage, channelVars, emitterVars
  <2>2. e \in Event /\ delivering # NoDelivery /\ delivering \in Delivery /\ stack \in Seq(Frame)
    BY ZenonT(60), <2>1, InDelivery DEF TypeOK, MiddlewareStages
  <2>3. PICK s \in MiddlewareStages \cup {"subscribe", "drop"}, v \in Views :
           Advance(e, <<s, v>>, stack)
    BY ZenonT(60), <2>1, <2>2, StagePoints
  <2> QED
    BY Zenon, <2>1, <2>2, <2>3, OwnAdvance
<1>16. CASE EndSubscribers
  <2> DEFINE e == delivering.event
  <2>1. /\ e \in Event /\ stack \in Seq(Frame) /\ EndDelivery(e, delivering.view, stack)
        /\ UNCHANGED <<queue, taskBuffer>>
    BY ZenonT(60), <1>16, InDelivery DEF EndSubscribers, TypeOK, channelVars, emitterVars
  <2>2. place[e] = "delivering"
    BY <2>1 DEF Own, OwnedDelivering, Publication
  <2>3. InPlace("stack") \ {e} = InPlace("stack")
    BY <2>2 DEF InPlace
  <2>4. OwnsFrames(stack, InPlace("stack") \ {e})
    BY ZenonT(60), <2>3 DEF Own, OwnedStack
  <2> QED
    BY Zenon, <2>1, <2>2, <2>4, OwnEnd
<1> QED
  BY ZenonT(60), <1>1, <1>2, <1>3, <1>4, <1>5, <1>6, <1>7, <1>8, <1>9, <1>10, <1>11, <1>12, <1>13, <1>14,
     <1>15, <1>16, OwnReceive, OwnFinish, OwnBarrier, OwnTaken, OwnRelease
     DEF Next, DispatcherStep

-----------------------------------------------------------------------------
(* Permits *)

\* Publications that move hold a permit until they are gone.
LEMMA PermitMove ==
    ASSUME TypeOK, PermitInv, NEW X, NEW to \in Places \ {"unused"}, Move(X, to),
           \A y \in Publication : y \notin X => (y \in permits' <=> y \in permits),
           \A y \in Publication : y \in X => (y \in permits' <=> to # "gone"),
           \A e \in Event : e \in X /\ to = "gone" => outcome'[e] # "none",
           \A e \in Event : (e \in X /\ to = "gone") \/ outcome'[e] = outcome[e],
           to = "attached" => X \cap Task = {}
    PROVE  PermitInv'
<1>1. \A y \in Publication : place'[y] = IF y \in X THEN to ELSE place[y]
  BY DEF Move
<1>2. \A y \in Publication : y \in permits' <=> place'[y] \notin {"unused", "gone"}
  BY ZenonT(60), <1>1 DEF PermitInv, Places
<1>3. \A e \in Event : place'[e] = "gone" => outcome'[e] # "none"
  BY <1>1 DEF PermitInv, Publication
<1>4. \A b \in Task : place'[b] # "attached"
  BY <1>1 DEF PermitInv, Publication
<1> QED
  BY <1>2, <1>3, <1>4 DEF PermitInv

\* A publication that is lost gives its permit back.
LEMMA PermitLost ==
    ASSUME TypeOK, PermitInv, NEW e \in Event, Move({e}, "gone"), permits' = permits \ {e},
           \A d \in Event : outcome'[d] = IF d = e THEN "lost" ELSE outcome[d]
    PROVE  PermitInv'
<1>1. "gone" \in Places \ {"unused"} /\ Event \subseteq Publication
  BY DEF Places, Publication
<1>2. /\ \A y \in Publication : y \notin {e} => (y \in permits' <=> y \in permits)
      /\ \A y \in Publication : y \in {e} => (y \in permits' <=> "gone" # "gone")
  OBVIOUS
<1>3. /\ \A d \in Event : d \in {e} /\ "gone" = "gone" => outcome'[d] # "none"
      /\ \A d \in Event : (d \in {e} /\ "gone" = "gone") \/ outcome'[d] = outcome[d]
  OBVIOUS
<1>4. "gone" = "attached" => {e} \cap Task = {}
  OBVIOUS
<1> QED
  BY ZenonT(60), <1>1, <1>2, <1>3, <1>4, PermitMove

\* One message that holds its permit moves on.
LEMMA PermitOnward ==
    ASSUME TypeOK, PermitInv, NEW x \in permits, NEW to \in Places \ {"unused", "gone", "attached"},
           Move({x}, to), UNCHANGED <<permits, outcome>>
    PROVE  PermitInv'
<1>1. \A y \in Publication : place'[y] = IF y = x THEN to ELSE place[y]
  BY DEF Move
<1>2. \A y \in Publication : y \in permits' <=> place'[y] \notin {"unused", "gone"}
  BY <1>1 DEF PermitInv
<1>3. \A e \in Event : place'[e] = "gone" => outcome'[e] # "none"
  BY <1>1 DEF PermitInv, Publication
<1>4. \A b \in Task : place'[b] # "attached"
  BY <1>1 DEF PermitInv, Publication
<1> QED
  BY <1>2, <1>3, <1>4 DEF PermitInv

\* Steps that move no message.
LEMMA PermitKeep ==
    ASSUME PermitInv, UNCHANGED <<place, outcome>>,
           \A y \in Publication : y \in permits' <=> y \in permits
    PROVE  PermitInv'
BY DEF PermitInv

\* The end of a delivery.
LEMMA PermitEnd ==
    ASSUME TypeOK, Own, PermitInv, NEW e \in Event, NEW r \in Outcomes \ {"none"}, NEW rest,
           EndDelivery(e, r, rest)
    PROVE  PermitInv'
<1>1. InPlace("nested") = Ids(nested)
  BY ZenonT(60), FramesOf DEF TypeOK, Own, OwnedNested
<1>2. \A y \in Publication :
         place'[y] = IF y = e THEN "gone" ELSE IF y \in InPlace("nested") THEN "stack" ELSE place[y]
  BY <1>1 DEF EndDelivery
<1>3. \A y \in Publication : y \in InPlace("nested") => place[y] = "nested"
  BY ZenonT(60) DEF InPlace
<1>4. permits' = permits \ {e} /\ \A d \in Event : outcome'[d] = IF d = e THEN r ELSE outcome[d]
  BY ZenonT(60) DEF EndDelivery, TypeOK
<1>5. \A y \in Publication : y \in permits' <=> place'[y] \notin {"unused", "gone"}
  BY ZenonT(60), <1>2, <1>3, <1>4 DEF PermitInv
<1>6. \A d \in Event : place'[d] = "gone" => outcome'[d] # "none"
  BY ZenonT(60), <1>2, <1>4 DEF PermitInv, Publication
<1>7. \A b \in Task : place'[b] # "attached"
  BY <1>2, DisjointIds DEF PermitInv, Publication
<1> QED
  BY ZenonT(60), <1>5, <1>6, <1>7 DEF PermitInv

\* A delivery that goes on keeps its permit; one that is dropped gives it up.
LEMMA PermitAdvance ==
    ASSUME TypeOK, Own, PermitInv, NEW e \in Event, place[e] \in {"stack", "delivering"},
           NEW s, NEW v, NEW rest, Advance(e, <<s, v>>, rest)
    PROVE  PermitInv'
<1> e \in Publication
  BY DEF Publication
<1>1. CASE s = "drop"
  <2>1. EndDelivery(e, "dropped", rest) /\ "dropped" \in Outcomes \ {"none"}
    BY <1>1 DEF Advance, Outcomes
  <2> QED
    BY <2>1, PermitEnd
<1>2. CASE s # "drop"
  <2>1. Move({e}, "delivering") /\ UNCHANGED <<outcome, permits>>
    BY ZenonT(60), <1>2 DEF Advance
  <2>2. e \in permits
    BY DEF PermitInv
  <2>3. "delivering" \in Places \ {"unused", "gone", "attached"}
    BY ZenonT(60) DEF Places
  <2> QED
    BY ZenonT(60), <2>1, <2>2, <2>3, PermitOnward
<1> QED
  BY <1>1, <1>2

\* Every step keeps a permit with each message on its way.
LEMMA PermitStep ==
    ASSUME TypeOK, Own, PermitInv, [Next]_vars
    PROVE  PermitInv'
<1> USE DEF permitVars, loopVars
<1>0. /\ {"queue", "gone", "attached", "nested", "task", "stack"} \subseteq Places \ {"unused"}
      /\ Event \subseteq Publication /\ Task \subseteq Publication /\ Publication \cap Pending = {}
  BY ZenonT(60), DisjointIds DEF Places, Publication
<1>1. CASE UNCHANGED vars
  BY ZenonT(60), <1>1, PermitKeep DEF vars
<1>2. ASSUME NEW x \in Publication, NEW p, Emit(x, p) \/ SubscriberEmit(x) \/ NestedEmit(x)
      PROVE  PermitInv'
  <2>1. /\ permits' = permits \cup {x} /\ UNCHANGED outcome
        /\ \E to \in {"queue", "nested"} : Move({x}, to)
    BY ZenonT(60), <1>2 DEF Emit, SubscriberEmit, NestedEmit, SendPublication, Attach
  <2> QED
    BY SMTT(60), <1>0, <2>1, PermitMove
<1>3. ASSUME NEW e \in Event, EmitLost(e)
      PROVE  PermitInv'
  <2>1. /\ UNCHANGED permits /\ Move({e}, "gone") /\ place[e] = "unused"
        /\ \A d \in Event : outcome'[d] = IF d = e THEN "lost" ELSE outcome[d]
    BY <1>3 DEF EmitLost, Unused, TypeOK
  <2>2. permits' = permits \ {e}
    BY Zenon, <1>0, <2>1 DEF PermitInv
  <2> QED
    BY ZenonT(60), <2>1, <2>2, PermitLost
<1>4. ASSUME NEW e \in Event, ForeignCapture(e)
      PROVE  PermitInv'
  BY ZenonT(60), <1>4, PermitKeep DEF ForeignCapture
<1>5. ASSUME NEW e \in Event, ForeignAttach(e)
      PROVE  PermitInv'
  <2>1. permits' = permits \cup {e} /\ UNCHANGED outcome /\ Move({e}, "attached")
    BY <1>5 DEF ForeignAttach, Attach
  <2>2. {e} \cap Task = {}
    BY DisjointIds
  <2> QED
    BY SMTT(60), <1>0, <2>1, <2>2, PermitMove
<1>6. ASSUME NEW e \in Event, ForeignPush(e)
      PROVE  PermitInv'
  <2>1. place[e] = "attached" /\ e \in permits
    BY ZenonT(60), <1>0, <1>6 DEF ForeignPush, PermitInv
  <2>2. \/ UNCHANGED <<permits, outcome>> /\ \E to \in {"queue", "nested", "task"} : Move({e}, to)
        \/ /\ permits' = permits \ {e} /\ Move({e}, "gone")
           /\ outcome' = [outcome EXCEPT ![e] = "lost"]
    BY ZenonT(60), <1>6 DEF ForeignPush, SendPublication
  <2>3. CASE UNCHANGED <<permits, outcome>> /\ \E to \in {"queue", "nested", "task"} : Move({e}, to)
    BY SMTT(60), <1>0, <2>1, <2>3, PermitMove
  <2>4. CASE /\ permits' = permits \ {e} /\ Move({e}, "gone")
             /\ outcome' = [outcome EXCEPT ![e] = "lost"]
    <3>1. \A d \in Event : outcome'[d] = IF d = e THEN "lost" ELSE outcome[d]
      BY <2>4 DEF TypeOK
    <3> QED
      BY ZenonT(60), <2>4, <3>1, PermitLost
  <2> QED
    BY ZenonT(60), <2>2, <2>3, <2>4
<1>7. ASSUME NEW b \in Task, NEW e \in Event, TaskEmit(e, b)
      PROVE  PermitInv'
  <2>1. permits' = permits \cup {e} /\ UNCHANGED outcome /\ Move({e}, "task")
    BY <1>7 DEF TaskEmit, Attach
  <2> QED
    BY <1>0, <2>1, PermitMove
<1>8. ASSUME NEW b \in Task, TaskFinish(b)
      PROVE  PermitInv'
  BY ZenonT(60), <1>8, PermitKeep DEF TaskFinish
<1>9. ASSUME NEW b \in Task, TaskDrop(b)
      PROVE  PermitInv'
  <2> DEFINE lost == Ids(taskBuffer[b])
  <2>1. /\ permits' = permits \ lost /\ Move(lost, "gone")
        /\ \A d \in Event : outcome'[d] = IF d \in lost THEN "lost" ELSE outcome[d]
    BY <1>9 DEF TaskDrop
  <2> HIDE DEF lost
  <2> QED
    BY ZenonT(60), <1>0, <2>1, PermitMove
<1>10. ASSUME NEW p \in Pending, RegisterPending(p) \/ ReleasePending(p)
       PROVE  PermitInv'
  <2>1. UNCHANGED <<place, outcome>> /\ (permits' = permits \/ permits' = permits \cup {p})
    BY <1>10 DEF RegisterPending, ReleasePending, Attach
  <2> QED
    BY ZenonT(60), <1>0, <2>1, PermitKeep
<1>11. ASSUME NEW f \in Flush, NEW m, FlushInCallback(f) \/ FlushCall(f, m)
       PROVE  PermitInv'
  <2>1. UNCHANGED <<place, outcome, permits>>
    BY ZenonT(60), <1>11 DEF FlushInCallback, FlushCall
  <2> QED
    BY ZenonT(60), <2>1, PermitKeep
<1>12. CASE HandleFlush \/ HandleRegisterPending \/ HandleCompletePending
  <2>1. /\ UNCHANGED <<place, outcome>>
        /\ \/ permits' = permits
           \/ Receive("complete") /\ permits' = permits \ {Head(queue).id}
    BY Zenon, <1>12 DEF HandleFlush, HandleRegisterPending, HandleCompletePending
  <2>2. Receive("complete") => Head(queue).id \in Pending
    BY Zenon, SeqHeadTail, MessageKinds DEF Receive, TypeOK
  <2> QED
    BY Zenon, <1>0, <2>1, <2>2, PermitKeep
<1>13. CASE ReceivePublication
  <2> DEFINE x == Head(queue).id
  <2>1. /\ UNCHANGED <<permits, outcome>> /\ Move({x}, "stack")
        /\ queue \in Seq(Message) /\ queue # <<>> /\ Head(queue).kind \in PublicationKinds
    BY Zenon, <1>13 DEF ReceivePublication, Receive, PublicationKinds, TypeOK
  <2>2. x \in InPlace("queue")
    BY ZenonT(60), <2>1, MsgsTail DEF Own, OwnedQueue
  <2>3. x \in permits
    BY <2>2 DEF InPlace, PermitInv
  <2>4. "stack" \in Places \ {"unused", "gone", "attached"}
    BY DEF Places
  <2> QED
    BY ZenonT(60), <2>1, <2>3, <2>4, PermitOnward
<1>14. CASE HandleDeliver
  <2> DEFINE e == Head(stack).id
  <2>1. /\ Step("handle") /\ e \in Event
        /\ \E pt \in EnterTransform(e) : Advance(e, pt, Tail(stack))
    BY ZenonT(60), <1>14 DEF HandleDeliver
  <2>2. PICK s \in MiddlewareStages \cup {"subscribe", "drop"}, v \in Views :
           Advance(e, <<s, v>>, Tail(stack))
    BY ZenonT(60), <2>1, StagePoints
  <2>3. stack \in Seq(Frame) /\ stack # <<>> /\ Head(stack).op # "finish"
    BY ZenonT(60), <2>1 DEF Step, TypeOK
  <2>4. e \in InPlace("stack")
    BY ZenonT(60), <2>3, FramesTail DEF Own, OwnedStack
  <2>5. place[e] = "stack"
    BY ZenonT(60), <2>4 DEF InPlace
  <2> QED
    BY ZenonT(60), <2>1, <2>2, <2>5, PermitAdvance
<1>15. CASE EndStage
  <2> DEFINE e == delivering.event
  <2>1. /\ delivering.stage \in MiddlewareStages
        /\ \E pt \in AfterStage(delivering) : Advance(e, pt, stack)
    BY ZenonT(60), <1>15 DEF EndStage
  <2>2. e \in Event /\ delivering \in Delivery
    BY ZenonT(60), <2>1, InDelivery DEF TypeOK, MiddlewareStages
  <2>3. PICK s \in MiddlewareStages \cup {"subscribe", "drop"}, v \in Views :
           Advance(e, <<s, v>>, stack)
    BY ZenonT(60), <2>1, <2>2, StagePoints
  <2>4. place[e] = "delivering"
    BY <1>0, <2>2 DEF Own, OwnedDelivering
  <2> QED
    BY <2>2, <2>3, <2>4, PermitAdvance
<1>16. CASE EndSubscribers
  <2>1. /\ delivering.event \in Event /\ delivering.view \in Outcomes \ {"none"}
        /\ EndDelivery(delivering.event, delivering.view, stack)
    BY <1>16 DEF EndSubscribers, TypeOK, Delivery, NoDelivery, Outcomes, Views
  <2> QED
    BY ZenonT(60), <2>1, PermitEnd
<1>17. CASE FinishDeliver \/ HandleBarrier
  <2>1. UNCHANGED <<permits, place, outcome>>
    BY Zenon, <1>17 DEF FinishDeliver, HandleBarrier
  <2> QED
    BY <2>1, PermitKeep
<1>18. CASE ReceivePublications
  <2> DEFINE b == Head(stack).id
             X == Ids(taskBuffer[b])
  <2>1. /\ UNCHANGED <<permits, outcome>> /\ Move(X, "stack")
        /\ stack \in Seq(Frame) /\ stack # <<>> /\ Head(stack).op = "await"
    BY ZenonT(60), <1>18 DEF ReceivePublications, Step, TypeOK
  <2>2. b \in Task
    BY <2>1, SeqHeadTail DEF Frame
  <2>3. X \subseteq InPlace("task")
    BY <2>2 DEF Own, OwnedTask
  <2>4. X \subseteq permits
    BY ZenonT(60), <2>3 DEF InPlace, PermitInv
  <2> HIDE DEF X
  <2> QED
    BY <1>0, <2>1, <2>4, PermitMove
<1>19. CASE ReleaseBarrier
  <2> DEFINE b == Head(stack).id
  <2>1. /\ UNCHANGED outcome /\ Move({b}, "gone") /\ permits' = permits \ {b}
        /\ stack \in Seq(Frame) /\ stack # <<>> /\ Head(stack).op = "release"
    BY Zenon, <1>19 DEF ReleaseBarrier, Step, TypeOK
  <2>2. b \in Task
    BY <2>1, SeqHeadTail DEF Frame
  <2>3. b \notin Event
    BY <2>2, DisjointIds
  <2> HIDE DEF b
  <2> QED
    BY <1>0, <2>1, <2>3, PermitMove
<1> QED
  BY ZenonT(60), <1>1, <1>2, <1>3, <1>4, <1>5, <1>6, <1>7, <1>8, <1>9, <1>10, <1>11, <1>12, <1>13, <1>14,
     <1>15, <1>16, <1>17, <1>18, <1>19 DEF Next, DispatcherStep

-----------------------------------------------------------------------------
(* Lineages *)

\* Taking a permit on the lineage of something that was emitted.
LEMMA LineageAttach ==
    ASSUME TypeOK, Own, LineageInv, NEW x \in Publication, NEW l \in Publication, NEW to,
           place[x] = "unused", Attach(x, l), l = x \/ place[l] # "unused",
           Move({x}, to), to \in {"queue", "nested", "task"} \/
              (to = "attached" /\ x \in Event /\ foreign[x] # None /\ (foreign[x].stage = "task" => l = x)),
           UNCHANGED <<foreign, delivering, active>>
    PROVE  LineageInv'
<1>1. \A y \in Publication : place'[y] = IF y = x THEN to ELSE place[y]
  BY ZenonT(60) DEF Move
<1>2. \A y \in Lineage : lineage'[y] = IF y = x THEN l ELSE lineage[y]
  BY DEF Attach, TypeOK
<1>3. x \notin Pending /\ Publication \subseteq Lineage /\ Pending \subseteq Lineage
      /\ Event \subseteq Publication
  BY ZenonT(60), DisjointIds DEF Publication, Lineage
<1>4. \A p \in Pending : lineage'[p] = p
  BY ZenonT(60), <1>2, <1>3 DEF LineageInv
<1>5. \A y \in Publication : lineage'[y] \in Publication
  BY ZenonT(60), <1>2, <1>3 DEF LineageInv
<1>6. \A y \in Publication : place'[y] # "unused" => place'[lineage'[y]] # "unused"
  <2> SUFFICES ASSUME NEW y \in Publication, place'[y] # "unused"
               PROVE  place'[lineage'[y]] # "unused"
    BY ZenonT(60)
  <2>1. CASE y = x
    BY Zenon, <1>1, <1>2, <1>3, <2>1
  <2>2. CASE y # x
    <3>1. lineage'[y] = lineage[y] /\ place[lineage[y]] # "unused" /\ lineage[y] \in Publication
      BY Zenon, <1>1, <1>2, <1>3, <2>2 DEF LineageInv
    <3> QED
      BY Zenon, <1>1, <3>1
  <2> QED
    BY ZenonT(60), <2>1, <2>2
<1>7. \A y \in Publication : place'[y] = "unused" => lineage'[y] = y
  BY Zenon, <1>1, <1>2, <1>3 DEF LineageInv
<1>8. \A e \in Event : foreign'[e] # None => place'[foreign'[e].owner] # "unused"
  <2> SUFFICES ASSUME NEW e \in Event, foreign[e] # None
               PROVE  place'[foreign[e].owner] # "unused"
    BY Zenon
  <2>1. foreign[e].owner \in Publication
    BY Zenon DEF TypeOK, Buffer, Publication
  <2>2. place[foreign[e].owner] # "unused"
    BY Zenon DEF LineageInv
  <2> QED
    BY ZenonT(60), <1>1, <2>1, <2>2
<1>9. \A e \in Event : place'[e] = "attached" =>
         foreign'[e] # None /\ (foreign'[e].stage = "task" => lineage'[e] = e)
  BY ZenonT(40), <1>1, <1>2, <1>3 DEF LineageInv
<1>10. delivering' # NoDelivery => lineage'[delivering'.event] \in active'
  <2> SUFFICES ASSUME delivering # NoDelivery
               PROVE  lineage'[delivering.event] \in active
    BY SMTT(60)
  <2>1. delivering.event \in Publication
    BY ZenonT(60) DEF TypeOK, Delivery, Publication
  <2>2. place[delivering.event] = "delivering"
    BY ZenonT(60), <2>1 DEF Own, OwnedDelivering
  <2> QED
    BY ZenonT(60), <1>2, <1>3, <2>1, <2>2 DEF LineageInv
<1> QED
  BY ZenonT(60), <1>4, <1>5, <1>6, <1>7, <1>8, <1>9, <1>10 DEF LineageInv

\* Steps that take no permit for a publication.
LEMMA LineageKeep ==
    ASSUME TypeOK, LineageInv, UNCHANGED lineage,
           \A y \in Publication : place[y] # "unused" => place'[y] # "unused",
           \A y \in Publication : place'[y] = "attached" => place[y] = "attached",
           \A e \in Event : \/ foreign'[e] = foreign[e]
                            \/ /\ foreign[e] = None /\ foreign'[e] # None
                               /\ foreign'[e].owner \in Publication
                               /\ place[foreign'[e].owner] # "unused",
           \A p \in Pending : lineage'[p] = p,
           delivering' # NoDelivery => lineage[delivering'.event] \in active'
    PROVE  LineageInv'
<1>1. \A y \in Publication : lineage'[y] \in Publication
  BY ZenonT(60) DEF LineageInv
<1>2. \A y \in Publication : place'[y] # "unused" => place'[lineage'[y]] # "unused"
  BY ZenonT(60) DEF LineageInv
<1>3. \A y \in Publication : place'[y] = "unused" => lineage'[y] = y
  BY DEF LineageInv
<1>4. \A e \in Event : foreign'[e] # None => place'[foreign'[e].owner] # "unused"
  <2> SUFFICES ASSUME NEW e \in Event, foreign'[e] # None
               PROVE  place'[foreign'[e].owner] # "unused"
    BY Zenon
  <2>1. CASE foreign'[e] = foreign[e]
    <3>1. foreign[e].owner \in Publication
      <4>1. foreign \in [Event -> Buffer \cup {None}]
        BY Zenon DEF TypeOK
      <4> QED
        BY <2>1, <4>1 DEF Buffer, Publication
    <3>2. place[foreign[e].owner] # "unused"
      BY ZenonT(60), <2>1 DEF LineageInv
    <3> QED
      BY ZenonT(60), <2>1, <3>1, <3>2
  <2>2. CASE foreign'[e] # foreign[e]
    BY Zenon, <2>2
  <2> QED
    BY ZenonT(60), <2>1, <2>2
<1>5. \A e \in Event : place'[e] = "attached" =>
         foreign'[e] # None /\ (foreign'[e].stage = "task" => lineage'[e] = e)
  <2> SUFFICES ASSUME NEW e \in Event, place'[e] = "attached"
               PROVE  foreign'[e] # None /\ (foreign'[e].stage = "task" => lineage'[e] = e)
    BY ZenonT(60)
  <2>1. e \in Publication
    BY DEF Publication
  <2>2. foreign[e] # None /\ (foreign[e].stage = "task" => lineage[e] = e)
    BY Zenon, <2>1 DEF LineageInv
  <2>3. foreign'[e] = foreign[e]
    BY ZenonT(60), <2>2
  <2> QED
    BY Zenon, <2>2, <2>3
<1> QED
  BY ZenonT(60), <1>1, <1>2, <1>3, <1>4, <1>5 DEF LineageInv

\* Advancing an event leaves it in delivery, or no event.
LEMMA AdvanceDelivery ==
    ASSUME NEW e, NEW pt, NEW rest, Advance(e, pt, rest)
    PROVE  \/ delivering' = NoDelivery /\ permits' = permits \ {e}
           \/ delivering'.event = e
BY SMTT(60) DEF Advance, EndDelivery

\* What the dispatcher thread does to the delivery in progress.
LEMMA DispatcherDelivery ==
    ASSUME TypeOK, DispatcherStep
    PROVE  \/ delivering' = NoDelivery
           \/ delivering'.event = delivering.event /\ delivering # NoDelivery /\ UNCHANGED active
           \/ HandleDeliver /\ delivering'.event = Head(stack).id /\ active' = active \cup {lineage[Head(stack).id]}
<1>1. CASE \/ HandleFlush \/ HandleRegisterPending \/ HandleCompletePending \/ ReceivePublication
           \/ FinishDeliver \/ HandleBarrier \/ ReceivePublications \/ ReleaseBarrier
  <2>1. delivering.stage = "idle" /\ UNCHANGED delivering
    BY Zenon, <1>1 DEF HandleFlush, HandleRegisterPending, HandleCompletePending, ReceivePublication,
                FinishDeliver, HandleBarrier, ReceivePublications, ReleaseBarrier, Receive, Step
  <2> QED
    BY <2>1, InDelivery
<1>2. CASE HandleDeliver
  <2>1. PICK pt \in EnterTransform(Head(stack).id) : Advance(Head(stack).id, pt, Tail(stack))
    BY ZenonT(60), <1>2 DEF HandleDeliver
  <2>2. delivering' = NoDelivery \/ delivering'.event = Head(stack).id
    BY ZenonT(60), <2>1, AdvanceDelivery
  <2> QED
    BY Zenon, <1>2, <2>2 DEF HandleDeliver
<1>3. CASE EndStage
  <2>1. PICK pt \in AfterStage(delivering) : Advance(delivering.event, pt, stack)
    BY <1>3 DEF EndStage
  <2>2. delivering' = NoDelivery \/ delivering'.event = delivering.event
    BY SMTT(60), <2>1, AdvanceDelivery
  <2>3. delivering # NoDelivery
    BY ZenonT(60), <1>3, InDelivery DEF EndStage, MiddlewareStages
  <2> QED
    BY <1>3, <2>2, <2>3 DEF EndStage
<1>4. CASE EndSubscribers
  BY ZenonT(60), <1>4 DEF EndSubscribers, EndDelivery
<1> QED
  BY ZenonT(60), <1>1, <1>2, <1>3, <1>4 DEF DispatcherStep

\* Every step keeps lineages named after something that was emitted.
LEMMA LineageStep ==
    ASSUME TypeOK, Own, LineageInv, TaskInv, [Next]_vars
    PROVE  LineageInv'
<1> USE DEF permitVars, loopVars
<1>0. /\ Event \subseteq Publication /\ Task \subseteq Publication
      /\ \A p \in Pending : lineage[p] = p
      /\ delivering # NoDelivery => lineage[delivering.event] \in active
  BY ZenonT(60) DEF Publication, LineageInv
<1>1. CASE UNCHANGED vars
  BY ZenonT(60), <1>0, <1>1, LineageKeep DEF vars
<1>2. ASSUME NEW x \in Publication, NEW p, Emit(x, p)
      PROVE  LineageInv'
  <2>1. /\ place[x] = "unused" /\ Attach(x, x) /\ Move({x}, "queue")
        /\ UNCHANGED <<foreign, delivering, active>>
    BY ZenonT(60), <1>2 DEF Emit, Unused, SendPublication
  <2> QED
    BY <2>1, LineageAttach
<1>3. ASSUME NEW x \in Publication, SubscriberEmit(x) \/ NestedEmit(x)
      PROVE  LineageInv'
  <2> DEFINE d == delivering.event
  <2>1. /\ place[x] = "unused" /\ Attach(x, lineage[d]) /\ UNCHANGED <<foreign, delivering, active>>
        /\ \E to \in {"queue", "nested", "task"} : Move({x}, to)
    BY ZenonT(60), <1>3 DEF SubscriberEmit, NestedEmit, Unused, SendPublication
  <2>2. d \in Publication /\ place[d] = "delivering"
    BY <1>0, <1>3, InDelivery DEF SubscriberEmit, NestedEmit, MiddlewareStages, Own, OwnedDelivering
  <2>3. lineage[d] \in Publication /\ place[lineage[d]] # "unused"
    BY Zenon, <2>2 DEF LineageInv
  <2> QED
    BY ZenonT(60), <2>1, <2>3, LineageAttach
<1>4. ASSUME NEW e \in Event, EmitLost(e)
      PROVE  LineageInv'
  <2>1. UNCHANGED <<lineage, foreign, delivering, active>> /\ Move({e}, "gone")
    BY <1>4 DEF EmitLost
  <2>2. \A y \in Publication : place'[y] \in {place[y], "gone"}
    BY ZenonT(60), <2>1 DEF Move
  <2> QED
    BY ZenonT(60), <1>0, <2>1, <2>2, LineageKeep
<1>5. ASSUME NEW e \in Event, ForeignCapture(e)
      PROVE  LineageInv'
  <2>1. UNCHANGED <<lineage, place, delivering, active>>
    BY <1>5 DEF ForeignCapture
  <2>2. PICK buf \in OpenBuffers : foreign' = [foreign EXCEPT ![e] = buf]
    BY Zenon, <1>5 DEF ForeignCapture
  <2>3. buf.owner \in Publication /\ place[buf.owner] # "unused"
    <3>1. CASE \E s \in {delivering.stage} \cap MiddlewareStages :
                  buf = [owner |-> delivering.event, stage |-> delivering.stage]
      <4>1. delivering.event \in Event /\ buf.owner = delivering.event
        BY SMTT(60), <3>1, InDelivery DEF MiddlewareStages
      <4>2. place[delivering.event] = "delivering"
        BY ZenonT(60), <1>0, <4>1 DEF Own, OwnedDelivering
      <4> QED
        BY ZenonT(60), <1>0, <4>1, <4>2
    <3>2. CASE \E b \in {c \in Task : task[c] = "running"} : buf = [owner |-> b, stage |-> "task"]
      <4>1. PICK b \in Task : task[b] = "running" /\ buf = [owner |-> b, stage |-> "task"]
        BY ZenonT(60), <3>2
      <4>2. place[b] # "unused"
        BY ZenonT(60), <4>1 DEF TaskInv
      <4> QED
        BY ZenonT(60), <1>0, <4>1, <4>2
    <3> QED
      BY ZenonT(60), <3>1, <3>2 DEF OpenBuffers
  <2>4. \A d \in Event : foreign'[d] = IF d = e THEN buf ELSE foreign[d]
    BY <2>2 DEF TypeOK
  <2>5. foreign[e] = None
    BY ZenonT(60), <1>5 DEF ForeignCapture, Unused
  <2> QED
    BY ZenonT(60), <1>0, <2>1, <2>3, <2>4, <2>5, LineageKeep
<1>6. ASSUME NEW e \in Event, ForeignAttach(e)
      PROVE  LineageInv'
  <2> DEFINE o == foreign[e].owner
  <2>1. /\ place[e] = "unused" /\ foreign[e] # None /\ Move({e}, "attached")
        /\ UNCHANGED <<foreign, delivering, active>>
        /\ \/ Attach(e, e)
           \/ foreign[e].stage # "task" /\ Attach(e, lineage[o])
    BY Zenon, <1>6 DEF ForeignAttach
  <2>2. o \in Publication /\ place[o] # "unused"
    <3>1. foreign[e] \in Buffer
      BY ZenonT(60), <2>1 DEF TypeOK
    <3> QED
      BY ZenonT(60), <1>0, <2>1, <3>1 DEF LineageInv, Buffer
  <2>3. lineage[o] \in Publication /\ place[lineage[o]] # "unused"
    BY Zenon, <2>2 DEF LineageInv
  <2> QED
    BY ZenonT(60), <1>0, <2>1, <2>3, LineageAttach
<1>7. ASSUME NEW e \in Event, ForeignPush(e)
      PROVE  LineageInv'
  <2>1. UNCHANGED <<lineage, foreign, delivering, active>>
    BY ZenonT(60), <1>7 DEF ForeignPush
  <2>2. \E to \in {"queue", "nested", "task", "gone"} : Move({e}, to)
    BY ZenonT(60), <1>7 DEF ForeignPush, SendPublication
  <2>3. \A y \in Publication : place'[y] \in {place[y], "queue", "nested", "task", "gone"}
    BY <2>2 DEF Move
  <2> QED
    BY ZenonT(60), <1>0, <2>1, <2>3, LineageKeep
<1>8. ASSUME NEW b \in Task, NEW e \in Event, TaskEmit(e, b)
      PROVE  LineageInv'
  <2>1. /\ place[e] = "unused" /\ Attach(e, e) /\ Move({e}, "task")
        /\ UNCHANGED <<foreign, delivering, active>>
    BY ZenonT(60), <1>8 DEF TaskEmit, Unused
  <2> QED
    BY ZenonT(60), <1>0, <2>1, LineageAttach
<1>9. ASSUME NEW b \in Task, TaskFinish(b) \/ TaskDrop(b)
      PROVE  LineageInv'
  <2>1. UNCHANGED <<lineage, foreign, delivering, active>>
    BY ZenonT(60), <1>9 DEF TaskFinish, TaskDrop
  <2>2. \A y \in Publication : place'[y] \in {place[y], "gone"}
    BY ZenonT(60), <1>9 DEF TaskFinish, TaskDrop, Move
  <2> QED
    BY ZenonT(60), <1>0, <2>1, <2>2, LineageKeep
<1>10. ASSUME NEW p \in Pending, RegisterPending(p) \/ ReleasePending(p)
       PROVE  LineageInv'
  <2>1. UNCHANGED <<place, foreign, delivering, active>>
    BY <1>10 DEF RegisterPending, ReleasePending
  <2>2. UNCHANGED lineage
    <3>1. lineage' = lineage \/ lineage' = [lineage EXCEPT ![p] = p]
      BY ZenonT(60), <1>10 DEF RegisterPending, ReleasePending, Attach
    <3>2. lineage \in [Lineage -> Lineage] /\ lineage[p] = p
      BY ZenonT(60), <1>0 DEF TypeOK
    <3>3. [lineage EXCEPT ![p] = p] = lineage
      BY ZenonT(60), <3>2
    <3> QED
      BY SMTT(60), <3>1, <3>3
  <2> QED
    BY ZenonT(60), <1>0, <2>1, <2>2, LineageKeep
<1>11. ASSUME NEW f \in Flush, NEW m, FlushInCallback(f) \/ FlushCall(f, m)
       PROVE  LineageInv'
  <2>1. UNCHANGED <<place, foreign, delivering, active, lineage>>
    BY <1>11 DEF FlushInCallback, FlushCall
  <2> QED
    BY ZenonT(60), <1>0, <2>1, LineageKeep
<1>12. CASE DispatcherStep
  <2>1. UNCHANGED <<lineage, foreign>> /\ \A y \in Publication : Onward(place[y], place'[y])
    BY ZenonT(60), <1>12, DispatcherMoves
  <2>2. \A y \in Publication : /\ place[y] # "unused" => place'[y] # "unused"
                               /\ place'[y] = "attached" => place[y] = "attached"
    BY <2>1 DEF Onward
  <2>3. delivering' # NoDelivery => lineage[delivering'.event] \in active'
    BY <1>0, <1>12, DispatcherDelivery
  <2> QED
    BY ZenonT(60), <1>0, <2>1, <2>2, <2>3, LineageKeep
<1> QED
  BY ZenonT(60), <1>1, <1>2, <1>3, <1>4, <1>5, <1>6, <1>7, <1>8, <1>9, <1>10, <1>11, <1>12 DEF Next

-----------------------------------------------------------------------------
(* Tasks *)

\* A barrier is gone only when it is released, and is never delivered.
LEMMA TaskGone ==
    ASSUME TypeOK, Own, DispatcherStep, NEW b \in Task
    PROVE  /\ place'[b] = "gone" /\ place[b] # "gone" => ReleaseBarrier /\ b = Head(stack).id
           /\ place'[b] = "delivering" => place[b] = "delivering"
<1>0. b \in Publication /\ b \notin Event
  BY DisjointIds DEF Publication
<1>1. CASE ReleaseBarrier
  BY Zenon, <1>0, <1>1 DEF ReleaseBarrier, Move
<1>2. CASE \/ HandleFlush \/ HandleRegisterPending \/ HandleCompletePending \/ FinishDeliver
           \/ HandleBarrier
  BY Zenon, <1>2 DEF HandleFlush, HandleRegisterPending, HandleCompletePending, FinishDeliver, HandleBarrier
<1>3. CASE ReceivePublication \/ ReceivePublications
  BY Zenon, <1>0, <1>3 DEF ReceivePublication, ReceivePublications, Move
<1>4. ASSUME NEW e \in Event, NEW pt, NEW rest, Advance(e, pt, rest)
      PROVE  place'[b] \in {place[b], "stack"}
  BY ZenonT(60), <1>0, <1>4 DEF Advance, EndDelivery, Move
<1>5. CASE HandleDeliver
  <2>1. PICK pt : Advance(Head(stack).id, pt, Tail(stack))
    BY <1>5 DEF HandleDeliver
  <2> QED
    BY ZenonT(60), <1>4, <1>5, <2>1 DEF HandleDeliver
<1>6. CASE EndStage \/ EndSubscribers
  <2>1. /\ delivering.event \in Event
        /\ \/ \E pt : Advance(delivering.event, pt, stack)
           \/ EndDelivery(delivering.event, delivering.view, stack)
    BY ZenonT(60), <1>6, InDelivery DEF EndStage, EndSubscribers, MiddlewareStages
  <2>2. CASE \E pt : Advance(delivering.event, pt, stack)
    BY Zenon, <1>4, <2>1, <2>2
  <2>3. CASE EndDelivery(delivering.event, delivering.view, stack)
    BY Zenon, <1>0, <2>1, <2>3 DEF EndDelivery
  <2> QED
    BY Zenon, <2>1, <2>2, <2>3
<1> QED
  BY ZenonT(60), <1>1, <1>2, <1>3, <1>5, <1>6 DEF DispatcherStep

\* A release frame of the new stack was on the old one, or its task ended.
LEMMA ReleaseFrames ==
    ASSUME TypeOK, Own, DispatcherStep, NEW j \in DOMAIN stack', stack'[j].op = "release"
    PROVE  \/ \E i \in DOMAIN stack : stack[i] = stack'[j]
           \/ ReceivePublications /\ stack'[j].id = Head(stack).id
<1>1. CASE ReceivePublication
  <2>1. stack' = <<[op |-> "handle", id |-> Head(queue).id]>>
    BY Zenon, <1>1 DEF ReceivePublication
  <2>2. \A k \in DOMAIN stack' : stack'[k].op = "handle"
    BY <2>1
  <2>3. "handle" # "release"
    OBVIOUS
  <2> QED
    BY Zenon, <2>2, <2>3
<1>2. CASE ~ReceivePublication
  <2>1. PICK pre \in Seq(Frame), s \in Seq(Frame) : StackStep(pre, s)
    BY ZenonT(60), <1>2, StackShift
  <2>2. \/ j \in DOMAIN pre /\ stack'[j] = pre[j]
        \/ \E k \in DOMAIN s : stack'[j] = s[k]
    BY <2>1, ConcatAt DEF StackStep
  <2>3. ASSUME NEW k \in DOMAIN s
        PROVE  \E i \in DOMAIN stack : stack[i] = s[k]
    <3>1. CASE s = stack
      BY <3>1
    <3>2. CASE s = Tail(stack) /\ stack # <<>>
      <4>1. stack \in Seq(Frame)
        BY DEF TypeOK
      <4>2. k + 1 \in DOMAIN stack /\ s[k] = stack[k + 1]
        BY ZenonT(60), <3>2, <4>1, TailAt
      <4> QED
        BY ZenonT(60), <4>2
    <3> QED
      BY ZenonT(60), <2>1, <3>1, <3>2 DEF StackStep, HeadDone
  <2> QED
    BY ZenonT(60), <2>1, <2>2, <2>3 DEF StackStep
<1> QED
  BY <1>1, <1>2

\* Steps of emitters and tasks.
LEMMA TaskEnv ==
    ASSUME TypeOK, Own, TaskInv, UNCHANGED stack,
           \A b \in Task : \/ task'[b] = task[b] /\ place'[b] = place[b]
                           \/ /\ place[b] = "unused" /\ place'[b] \in {"queue", "nested"}
                              /\ task'[b] = "running"
                           \/ /\ task[b] = "running" /\ task'[b] \in {"published", "dropped"}
                              /\ place'[b] = place[b],
           \A b \in Task : taskBuffer'[b] = taskBuffer[b] \/ taskBuffer'[b] = <<>> \/ task[b] = "running"
    PROVE  TaskInv'
<1>1. \A b \in Task : task'[b] = "running" \/ taskBuffer'[b] # <<>>
                         => place'[b] \in {"queue", "nested", "stack"}
  BY ZenonT(60) DEF TaskInv
<1>2. \A b \in Task : task'[b] = "none" => place'[b] = "unused"
  BY ZenonT(60) DEF TaskInv
<1>3. ASSUME NEW j \in DOMAIN stack', stack'[j].op = "release"
      PROVE  task'[stack'[j].id] # "running" /\ taskBuffer'[stack'[j].id] = <<>>
  <2> DEFINE b == stack[j].id
  <2>1. b \in Task /\ b \in InPlace("stack")
    <3>1. stack \in Seq(Frame)
      BY ZenonT(60) DEF TypeOK
    <3>2. stack[j] \in Frame /\ stack[j].op = "release"
      BY ZenonT(60), <1>3, <3>1, SeqElement, SeqLen
    <3> QED
      BY ZenonT(60), <1>3, <3>2 DEF Own, OwnedStack, OwnsFrames, Frame
  <2>2. place[b] = "stack"
    BY ZenonT(60), <2>1 DEF InPlace
  <2>3. task[b] # "running" /\ taskBuffer[b] = <<>>
    BY ZenonT(60), <1>3 DEF TaskInv
  <2> QED
    BY ZenonT(60), <2>1, <2>2, <2>3
<1> QED
  BY ZenonT(60), <1>1, <1>2, <1>3 DEF TaskInv

\* Every step keeps the barrier of a task that can still emit.
LEMMA TaskStep ==
    ASSUME TypeOK, Own, TaskInv, [Next]_vars
    PROVE  TaskInv'
<1> USE DEF permitVars, loopVars, emitterVars
<1>0. Task \subseteq Publication /\ Event \subseteq Publication /\ Event \cap Task = {}
  BY ZenonT(60), DisjointIds DEF Publication
<1>1. CASE UNCHANGED vars
  <2>1. UNCHANGED <<stack, task, place, taskBuffer>>
    BY ZenonT(60), <1>1 DEF vars
  <2> QED
    BY ZenonT(60), <2>1, TaskEnv
<1>2. ASSUME NEW x \in Publication, NEW p, Emit(x, p) \/ SubscriberEmit(x) \/ NestedEmit(x)
      PROVE  TaskInv'
  <2>1. /\ place[x] = "unused" /\ StartTask(x) /\ UNCHANGED <<stack, taskBuffer>>
        /\ \E to \in {"queue", "nested"} : Move({x}, to)
    BY ZenonT(60), <1>2 DEF Emit, SubscriberEmit, NestedEmit, Unused, SendPublication
  <2>2. \A b \in Task : \/ task'[b] = task[b] /\ place'[b] = place[b]
                        \/ /\ place[b] = "unused" /\ place'[b] \in {"queue", "nested"}
                           /\ task'[b] = "running"
    BY ZenonT(60), <1>0, <2>1 DEF StartTask, Move
  <2> QED
    BY ZenonT(60), <2>1, <2>2, TaskEnv
<1>3. ASSUME NEW e \in Event, EmitLost(e) \/ ForeignCapture(e) \/ ForeignAttach(e)
      PROVE  TaskInv'
  <2>1. /\ UNCHANGED <<stack, task, taskBuffer>>
        /\ UNCHANGED place \/ \E to \in {"gone", "attached"} : Move({e}, to)
    BY ZenonT(60), <1>3 DEF EmitLost, ForeignCapture, ForeignAttach
  <2>2. \A b \in Task : place'[b] = place[b]
    BY ZenonT(60), <1>0, <2>1 DEF Move
  <2> QED
    BY ZenonT(60), <2>1, <2>2, TaskEnv
<1>4. ASSUME NEW e \in Event, ForeignPush(e)
      PROVE  TaskInv'
  <2> DEFINE b == foreign[e].owner
  <2>1. /\ UNCHANGED <<stack, task>> /\ \E to \in {"queue", "nested", "task", "gone"} : Move({e}, to)
        /\ \/ UNCHANGED taskBuffer
           \/ /\ task[b] = "running"
              /\ taskBuffer' = [taskBuffer EXCEPT ![b] = Append(taskBuffer[b], Msg(e))]
    BY ZenonT(60), <1>4 DEF ForeignPush, SendPublication
  <2> HIDE DEF b
  <2>2. \A c \in Task : place'[c] = place[c]
    BY ZenonT(60), <1>0, <2>1 DEF Move
  <2>3. \A c \in Task : taskBuffer'[c] = taskBuffer[c] \/ task[c] = "running"
    BY ZenonT(60), <2>1 DEF TypeOK
  <2> QED
    BY ZenonT(60), <2>1, <2>2, <2>3, TaskEnv
<1>5. ASSUME NEW b \in Task, NEW e \in Event, TaskEmit(e, b)
      PROVE  TaskInv'
  <2>1. /\ UNCHANGED <<stack, task>> /\ Move({e}, "task") /\ task[b] = "running"
        /\ taskBuffer' = [taskBuffer EXCEPT ![b] = Append(taskBuffer[b], Msg(e))]
    BY ZenonT(60), <1>5 DEF TaskEmit
  <2>2. \A c \in Task : place'[c] = place[c]
    BY ZenonT(60), <1>0, <2>1 DEF Move
  <2>3. \A c \in Task : taskBuffer'[c] = taskBuffer[c] \/ task[c] = "running"
    BY ZenonT(60), <2>1 DEF TypeOK
  <2> QED
    BY ZenonT(60), <2>1, <2>2, <2>3, TaskEnv
<1>6. ASSUME NEW b \in Task, TaskFinish(b) \/ TaskDrop(b)
      PROVE  TaskInv'
  <2>1. /\ UNCHANGED stack /\ task[b] = "running"
        /\ \E to \in {"published", "dropped"} : task' = [task EXCEPT ![b] = to]
        /\ UNCHANGED taskBuffer \/ taskBuffer' = [taskBuffer EXCEPT ![b] = <<>>]
        /\ UNCHANGED place \/ Move(Ids(taskBuffer[b]), "gone")
    BY ZenonT(60), <1>6 DEF TaskFinish, TaskDrop
  <2>2. Ids(taskBuffer[b]) \cap Task = {}
    <3>1. taskBuffer[b] \in Seq(DeliverMsg)
      BY ZenonT(60) DEF TypeOK
    <3>2. \A j \in DOMAIN taskBuffer[b] : taskBuffer[b][j] \in DeliverMsg
      BY ZenonT(60), <3>1, SeqElement, SeqLen
    <3> QED
      BY ZenonT(60), <1>0, <3>2 DEF Ids, DeliverMsg
  <2>3. \A c \in Task : place'[c] = place[c]
    BY ZenonT(60), <1>0, <2>1, <2>2 DEF Move
  <2>4. \A c \in Task : taskBuffer'[c] = taskBuffer[c] \/ taskBuffer'[c] = <<>>
    BY ZenonT(60), <2>1 DEF TypeOK
  <2>5. \A c \in Task : \/ task'[c] = task[c]
                        \/ task[c] = "running" /\ task'[c] \in {"published", "dropped"}
    BY ZenonT(60), <2>1 DEF TypeOK
  <2> QED
    BY ZenonT(60), <2>1, <2>3, <2>4, <2>5, TaskEnv
<1>7. ASSUME NEW p \in Pending, RegisterPending(p) \/ ReleasePending(p)
      PROVE  TaskInv'
  <2>1. UNCHANGED <<stack, task, place, taskBuffer>>
    BY ZenonT(60), <1>7 DEF RegisterPending, ReleasePending
  <2> QED
    BY ZenonT(60), <2>1, TaskEnv
<1>8. ASSUME NEW f \in Flush, NEW m, FlushInCallback(f) \/ FlushCall(f, m)
      PROVE  TaskInv'
  <2>1. UNCHANGED <<stack, task, place, taskBuffer>>
    BY ZenonT(60), <1>8 DEF FlushInCallback, FlushCall
  <2> QED
    BY ZenonT(60), <2>1, TaskEnv
<1>9. CASE DispatcherStep
  <2>1. UNCHANGED task /\ \A y \in Publication : Onward(place[y], place'[y])
    BY ZenonT(60), <1>9, DispatcherMoves
  <2>2. \A b \in Task : taskBuffer'[b] = taskBuffer[b] \/ taskBuffer'[b] = <<>>
    BY ZenonT(60), <1>9, DispatcherBuffers
  <2>3. ASSUME NEW b \in Task, place'[b] = "gone", place[b] # "gone"
        PROVE  task[b] # "running" /\ taskBuffer[b] = <<>>
    <3>1. ReleaseBarrier /\ b = Head(stack).id
      BY ZenonT(60), <1>0, <1>9, <2>3, TaskGone
    <3>2. 1 \in DOMAIN stack /\ stack[1].op = "release" /\ stack[1].id = b
      BY ZenonT(60), <3>1, TailAt DEF ReleaseBarrier, Step, TypeOK
    <3> QED
      BY ZenonT(60), <3>2 DEF TaskInv
  <2>4. \A b \in Task : place'[b] \notin {"delivering", "task"} \/ place[b] = place'[b]
    BY ZenonT(60), <1>0, <1>9, <2>1, TaskGone DEF Onward
  <2>5. \A b \in Task : task'[b] = "running" \/ taskBuffer'[b] # <<>>
                           => place'[b] \in {"queue", "nested", "stack"}
    BY ZenonT(60), <1>0, <2>1, <2>2, <2>3, <2>4 DEF TaskInv, Onward
  <2>6. \A b \in Task : task'[b] = "none" => place'[b] = "unused"
    BY ZenonT(60), <1>0, <2>1 DEF TaskInv, Onward
  <2>7. ASSUME NEW j \in DOMAIN stack', stack'[j].op = "release"
        PROVE  task'[stack'[j].id] # "running" /\ taskBuffer'[stack'[j].id] = <<>>
    <3>1. CASE \E i \in DOMAIN stack : stack[i] = stack'[j]
      <4>1. PICK i \in DOMAIN stack : stack[i] = stack'[j]
        BY ZenonT(60), <3>1
      <4>2. stack \in Seq(Frame)
        BY ZenonT(60) DEF TypeOK
      <4>3. stack[i] \in Frame
        BY ZenonT(60), <4>1, <4>2, SeqElement, SeqLen
      <4>4. stack[i].id \in Task
        BY ZenonT(60), <2>7, <4>1, <4>3 DEF Frame
      <4>5. task[stack[i].id] # "running" /\ taskBuffer[stack[i].id] = <<>>
        BY ZenonT(60), <2>7, <4>1 DEF TaskInv
      <4> QED
        BY ZenonT(60), <2>1, <2>2, <4>1, <4>4, <4>5
    <3>2. CASE ReceivePublications /\ stack'[j].id = Head(stack).id
      <4>1. stack \in Seq(Frame) /\ stack # <<>> /\ Head(stack).op = "await"
            /\ taskBuffer' = [taskBuffer EXCEPT ![Head(stack).id] = <<>>]
            /\ task[Head(stack).id] \in {"published", "dropped"}
        BY ZenonT(60), <3>2 DEF ReceivePublications, Step, TypeOK
      <4>2. Head(stack).id \in Task
        BY SMTT(60), <4>1, SeqHeadTail DEF Frame
      <4>3. taskBuffer'[Head(stack).id] = <<>>
        BY ZenonT(60), <4>1, <4>2 DEF TypeOK
      <4> QED
        BY ZenonT(60), <2>1, <3>2, <4>1, <4>3
    <3> QED
      BY ZenonT(60), <1>9, <2>7, <3>1, <3>2, ReleaseFrames
  <2> QED
    BY ZenonT(60), <2>5, <2>6, <2>7 DEF TaskInv
<1> QED
  BY ZenonT(60), <1>1, <1>2, <1>3, <1>4, <1>5, <1>6, <1>7, <1>8, <1>9 DEF Next

-----------------------------------------------------------------------------
(* Managed calls *)

\* Steps that neither start nor end a managed call.
LEMMA PendingKeep ==
    ASSUME TypeOK, PendingInv, UNCHANGED pending,
           \A p \in Pending : p \in permits' <=> p \in permits,
           \A p \in Pending : p \in permits /\ p \in active => p \in active',
           \/ UNCHANGED queue
           \/ \E m \in Message : /\ m.kind \notin {"register", "complete"}
                                 /\ queue' = Append(queue, m)
    PROVE  PendingInv'
<1>0. queue \in Seq(Message)
  BY ZenonT(60) DEF TypeOK
<1>1. \A j \in DOMAIN queue : j \in DOMAIN queue' /\ queue'[j] = queue[j]
  BY SMTT(60), <1>0, AppendAt
<1>2. \A j \in DOMAIN queue' : \/ j \in DOMAIN queue /\ queue'[j] = queue[j]
                               \/ queue'[j].kind \notin {"register", "complete"}
  BY <1>0, AppendAt
<1>3. \A p \in Pending : p \in permits' <=> pending'[p] \in {"registered", "released"}
  BY ZenonT(60) DEF PendingInv
<1>4. \A p \in Pending : p \in permits' => p \in active' \/ \E j \in DOMAIN queue' : RegisterAt(j, p)'
  BY SMTT(60), <1>1 DEF PendingInv, RegisterAt
<1>5. \A p \in Pending : \A j \in DOMAIN queue' : CompleteAt(j, p)' => pending'[p] = "released"
  BY ZenonT(60), <1>2 DEF PendingInv, CompleteAt
<1>6. \A p \in Pending : \A i, j \in DOMAIN queue' : CompleteAt(i, p)' /\ CompleteAt(j, p)' => i = j
  BY ZenonT(60), <1>2 DEF PendingInv, CompleteAt
<1> QED
  BY ZenonT(60), <1>3, <1>4, <1>5, <1>6 DEF PendingInv

\* The head of the channel is received.
LEMMA PendingReceive ==
    ASSUME TypeOK, PendingInv, queue # <<>>, queue' = Tail(queue),
           \A p \in Pending : p \in permits /\ p \in active /\ p \in permits' => p \in active',
           \/ /\ Head(queue).kind # "complete" /\ UNCHANGED pending
              /\ \A p \in Pending : p \in permits' <=> p \in permits
           \/ /\ Head(queue).kind = "complete" /\ permits' = permits \ {Head(queue).id}
              /\ pending' = [pending EXCEPT ![Head(queue).id] = "done"],
           Head(queue).kind = "register" /\ Head(queue).id \in permits' => Head(queue).id \in active'
    PROVE  PendingInv'
<1>0. queue \in Seq(Message)
  BY ZenonT(60) DEF TypeOK
<1>1. /\ 1 \in DOMAIN queue /\ Head(queue) = queue[1]
      /\ \A j \in DOMAIN queue' : j \in Nat /\ j >= 1 /\ j + 1 \in DOMAIN queue /\ queue'[j] = queue[j + 1]
      /\ \A j \in DOMAIN queue : j # 1 => j - 1 \in DOMAIN queue' /\ queue'[j - 1] = queue[j]
  BY SMTT(60), <1>0, TailAt
<1>2. \A p \in Pending :
         \/ (p \in permits' <=> p \in permits) /\ pending'[p] = pending[p]
         \/ Head(queue).kind = "complete" /\ Head(queue).id = p /\ pending'[p] = "done" /\ p \notin permits'
  BY ZenonT(60) DEF TypeOK
<1>3. \A p \in Pending : p \in permits' <=> pending'[p] \in {"registered", "released"}
  BY ZenonT(60), <1>2 DEF PendingInv
<1>4. ASSUME NEW p \in Pending, p \in permits'
      PROVE  p \in active' \/ \E j \in DOMAIN queue' : RegisterAt(j, p)'
  <2>1. CASE p \in active
    BY ZenonT(60), <1>2, <1>4, <2>1
  <2>2. CASE \E j \in DOMAIN queue : RegisterAt(j, p)
    <3>1. PICK j \in DOMAIN queue : RegisterAt(j, p)
      BY ZenonT(60), <2>2
    <3>2. CASE j = 1
      BY ZenonT(60), <1>1, <1>4, <3>1, <3>2 DEF RegisterAt
    <3>3. CASE j # 1
      <4>1. j - 1 \in DOMAIN queue' /\ RegisterAt(j - 1, p)'
        BY ZenonT(60), <1>1, <3>1, <3>3 DEF RegisterAt
      <4> QED
        BY ZenonT(60), <4>1
    <3> QED
      BY ZenonT(60), <3>2, <3>3
  <2> QED
    BY ZenonT(60), <1>2, <1>4, <2>1, <2>2 DEF PendingInv
<1>5. ASSUME NEW p \in Pending, NEW j \in DOMAIN queue', CompleteAt(j, p)'
      PROVE  pending'[p] = "released" /\ CompleteAt(j + 1, p) /\ j \in Nat /\ j >= 1
  <2>1. CompleteAt(j + 1, p) /\ j + 1 \in DOMAIN queue /\ j \in Nat /\ j >= 1
    BY ZenonT(60), <1>1, <1>5 DEF CompleteAt
  <2>2. pending[p] = "released"
    BY ZenonT(60), <2>1 DEF PendingInv
  <2>3. ~(Head(queue).kind = "complete" /\ Head(queue).id = p)
    <3> SUFFICES ASSUME Head(queue).kind = "complete", Head(queue).id = p
                 PROVE  FALSE
      BY ZenonT(60)
    <3>1. CompleteAt(1, p)
      BY ZenonT(60), <1>1 DEF CompleteAt
    <3>2. j + 1 = 1
      BY ZenonT(60), <1>1, <2>1, <3>1 DEF PendingInv
    <3> QED
      BY SMTT(60), <2>1, <3>2
  <2> QED
    BY ZenonT(60), <1>2, <2>1, <2>2, <2>3
<1>6. ASSUME NEW p \in Pending, NEW i \in DOMAIN queue', NEW j \in DOMAIN queue',
             CompleteAt(i, p)', CompleteAt(j, p)'
      PROVE  i = j
  <2>1. /\ CompleteAt(i + 1, p) /\ i + 1 \in DOMAIN queue /\ i \in Nat
        /\ CompleteAt(j + 1, p) /\ j + 1 \in DOMAIN queue /\ j \in Nat
    BY ZenonT(60), <1>1, <1>5, <1>6
  <2>2. i + 1 = j + 1
    BY ZenonT(60), <2>1 DEF PendingInv
  <2> QED
    BY SMTT(60), <2>1, <2>2
<1> QED
  BY ZenonT(60), <1>3, <1>4, <1>5, <1>6 DEF PendingInv

\* Steps keep the handles of managed calls alive until they are completed.
LEMMA PendingStep ==
    ASSUME TypeOK, Own, LineageInv, PendingInv, [Next]_vars
    PROVE  PendingInv'
<1> USE DEF permitVars, loopVars, emitterVars
<1>0. /\ Publication \cap Pending = {} /\ \A p \in Pending : lineage[p] = p
      /\ queue \in Seq(Message)
  <2>1. Publication \cap Pending = {}
    BY ZenonT(60), DisjointIds DEF Publication
  <2> QED
    BY ZenonT(60), <2>1 DEF LineageInv, TypeOK
<1>1. CASE UNCHANGED vars
  <2>1. UNCHANGED <<pending, permits, active, queue>>
    BY ZenonT(60), <1>1 DEF vars, channelVars
  <2> QED
    BY ZenonT(60), <2>1, PendingKeep
<1>2. ASSUME NEW x \in Publication, NEW p, Emit(x, p) \/ SubscriberEmit(x)
      PROVE  PendingInv'
  <2>1. UNCHANGED <<pending, active>> /\ permits' = permits \cup {x} /\ queue' = Append(queue, Msg(x))
    BY ZenonT(60), <1>2 DEF Emit, SubscriberEmit, SendPublication, Attach
  <2>2. Msg(x) \in Message /\ Msg(x).kind \notin {"register", "complete"}
    BY ZenonT(60), MsgType DEF Message, Msg
  <2> QED
    BY ZenonT(60), <1>0, <2>1, <2>2, PendingKeep
<1>3. ASSUME NEW x \in Publication, NestedEmit(x)
      PROVE  PendingInv'
  <2>1. UNCHANGED <<pending, active, queue>> /\ permits' = permits \cup {x}
    BY ZenonT(60), <1>3 DEF NestedEmit, Attach, channelVars
  <2> QED
    BY ZenonT(60), <1>0, <2>1, PendingKeep
<1>4. ASSUME NEW e \in Event, EmitLost(e) \/ ForeignCapture(e) \/ ForeignAttach(e)
      PROVE  PendingInv'
  <2>1. /\ UNCHANGED <<pending, active, queue>>
        /\ permits' = permits \/ permits' = permits \cup {e}
    BY ZenonT(60), <1>4 DEF EmitLost, ForeignCapture, ForeignAttach, Attach, channelVars
  <2>2. e \notin Pending
    BY ZenonT(60), DisjointIds
  <2> QED
    BY ZenonT(60), <2>1, <2>2, PendingKeep
<1>5. ASSUME NEW e \in Event, ForeignPush(e)
      PROVE  PendingInv'
  <2>1. /\ UNCHANGED <<pending, active>>
        /\ queue' = queue \/ queue' = Append(queue, Msg(e))
        /\ permits' = permits \/ permits' = permits \ {e}
    BY ZenonT(60), <1>5 DEF ForeignPush, SendPublication, channelVars
  <2>2. Msg(e) \in Message /\ Msg(e).kind \notin {"register", "complete"} /\ e \notin Pending
    BY ZenonT(60), MsgType, DisjointIds DEF Message, Msg, Publication
  <2> QED
    BY ZenonT(60), <2>1, <2>2, PendingKeep
<1>6. ASSUME NEW b \in Task, NEW e \in Event, TaskEmit(e, b)
      PROVE  PendingInv'
  <2>1. UNCHANGED <<pending, active, queue>> /\ permits' = permits \cup {e}
    BY ZenonT(60), <1>6 DEF TaskEmit, Attach, channelVars
  <2>2. e \notin Pending
    BY ZenonT(60), DisjointIds
  <2> QED
    BY ZenonT(60), <2>1, <2>2, PendingKeep
<1>7. ASSUME NEW b \in Task, TaskFinish(b) \/ TaskDrop(b)
      PROVE  PendingInv'
  <2>1. /\ UNCHANGED <<pending, active, queue>>
        /\ permits' = permits \/ permits' = permits \ Ids(taskBuffer[b])
    BY ZenonT(60), <1>7 DEF TaskFinish, TaskDrop, channelVars
  <2>2. Ids(taskBuffer[b]) \subseteq InPlace("task")
    BY ZenonT(60) DEF Own, OwnedTask
  <2>3. Ids(taskBuffer[b]) \cap Pending = {}
    BY ZenonT(60), <1>0, <2>2 DEF InPlace
  <2> QED
    BY ZenonT(60), <2>1, <2>3, PendingKeep
<1>8. ASSUME NEW p \in Pending, RegisterPending(p)
      PROVE  PendingInv'
  <2> DEFINE m == [kind |-> "register", id |-> p]
  <2>1. /\ UNCHANGED active /\ permits' = permits \cup {p} /\ pending[p] = "none"
        /\ \A r \in Pending : pending'[r] = IF r = p THEN "registered" ELSE pending[r]
        /\ queue' = Append(queue, m) /\ m \in Message /\ m.kind = "register" /\ m.id = p
    BY ZenonT(60), <1>8 DEF RegisterPending, Attach, TypeOK, Message
  <2> HIDE DEF m
  <2>2. /\ \A j \in DOMAIN queue : j \in DOMAIN queue' /\ queue'[j] = queue[j]
        /\ \A j \in DOMAIN queue' : (j \in DOMAIN queue /\ queue'[j] = queue[j]) \/ queue'[j] = m
        /\ \E j \in DOMAIN queue' : queue'[j] = m
    BY ZenonT(60), <1>0, <2>1, SentAt
  <2>3. \A r \in Pending : r \in permits' <=> pending'[r] \in {"registered", "released"}
    BY Zenon, <2>1 DEF PendingInv
  <2>4. \A r \in Pending : r \in permits' => r \in active' \/ \E j \in DOMAIN queue' : RegisterAt(j, r)'
    <3>1. \A r \in Pending : r \in permits => r \in active \/ \E j \in DOMAIN queue : RegisterAt(j, r)
      BY ZenonT(60) DEF PendingInv
    <3>2. ASSUME NEW r \in Pending, NEW j \in DOMAIN queue, RegisterAt(j, r)
          PROVE  RegisterAt(j, r)' /\ j \in DOMAIN queue'
      BY ZenonT(60), <2>2, <3>2 DEF RegisterAt
    <3>3. \E j \in DOMAIN queue' : RegisterAt(j, p)'
      BY ZenonT(60), <2>1, <2>2 DEF RegisterAt
    <3>4. \A r \in Pending : r \in permits' => r \in permits \/ r = p
      BY ZenonT(60), <2>1
    <3> QED
      BY ZenonT(60), <2>1, <3>1, <3>2, <3>3, <3>4
  <2>5. \A r \in Pending : \A j \in DOMAIN queue' : CompleteAt(j, r)' => pending'[r] = "released"
    <3>1. \A r \in Pending : \A j \in DOMAIN queue : CompleteAt(j, r) => pending[r] = "released"
      BY ZenonT(60) DEF PendingInv
    <3> QED
      BY SMTT(60), <2>1, <2>2, <3>1 DEF CompleteAt
  <2>6. \A r \in Pending : \A i, j \in DOMAIN queue' : CompleteAt(i, r)' /\ CompleteAt(j, r)' => i = j
    BY <2>1, <2>2 DEF PendingInv, CompleteAt
  <2> QED
    BY ZenonT(60), <2>3, <2>4, <2>5, <2>6 DEF PendingInv
<1>9. ASSUME NEW p \in Pending, ReleasePending(p)
      PROVE  PendingInv'
  <2> DEFINE m == [kind |-> "complete", id |-> p]
  <2>1. /\ UNCHANGED <<active, permits>> /\ pending[p] = "registered"
        /\ \A r \in Pending : pending'[r] = IF r = p THEN "released" ELSE pending[r]
        /\ queue' = Append(queue, m) /\ m \in Message /\ m.kind = "complete" /\ m.id = p
    BY ZenonT(60), <1>9 DEF ReleasePending, TypeOK, Message
  <2> HIDE DEF m
  <2>2. /\ \A j \in DOMAIN queue : j \in DOMAIN queue' /\ queue'[j] = queue[j]
        /\ \A j \in DOMAIN queue' : \/ j \in DOMAIN queue /\ queue'[j] = queue[j]
                                    \/ j = Len(queue) + 1 /\ queue'[j] = m
    BY ZenonT(60), <1>0, <2>1, SentAt
  <2>3. \A r \in Pending : r \in permits' <=> pending'[r] \in {"registered", "released"}
    BY ZenonT(60), <2>1 DEF PendingInv
  <2>4. \A r \in Pending : r \in permits' => r \in active' \/ \E j \in DOMAIN queue' : RegisterAt(j, r)'
    <3>1. \A r \in Pending : r \in permits => r \in active \/ \E j \in DOMAIN queue : RegisterAt(j, r)
      BY ZenonT(60) DEF PendingInv
    <3>2. ASSUME NEW r \in Pending, NEW j \in DOMAIN queue, RegisterAt(j, r)
          PROVE  RegisterAt(j, r)' /\ j \in DOMAIN queue'
      BY ZenonT(60), <2>2, <3>2 DEF RegisterAt
    <3> QED
      BY ZenonT(60), <2>1, <3>1, <3>2
  <2>5. \A r \in Pending : \A j \in DOMAIN queue' : CompleteAt(j, r)' => pending'[r] = "released"
    <3>1. \A r \in Pending : \A j \in DOMAIN queue : CompleteAt(j, r) => pending[r] = "released"
      BY ZenonT(60) DEF PendingInv
    <3> QED
      BY <2>1, <2>2, <3>1 DEF CompleteAt
  <2>6. ASSUME NEW r \in Pending, NEW i \in DOMAIN queue', NEW j \in DOMAIN queue',
               CompleteAt(i, r)', CompleteAt(j, r)'
        PROVE  i = j
    <3>1. \A k \in DOMAIN queue : CompleteAt(k, r) => pending[r] = "released"
      BY ZenonT(60) DEF PendingInv
    <3>2. \A k \in {i, j} : \/ k \in DOMAIN queue /\ CompleteAt(k, r)
                            \/ k = Len(queue) + 1 /\ r = p
      BY ZenonT(60), <2>1, <2>2, <2>6 DEF CompleteAt
    <3> QED
      BY ZenonT(60), <2>1, <3>1, <3>2 DEF PendingInv
  <2> QED
    BY ZenonT(60), <2>3, <2>4, <2>5, <2>6 DEF PendingInv
<1>10. ASSUME NEW f \in Flush, NEW k, FlushInCallback(f) \/ FlushCall(f, k)
       PROVE  PendingInv'
  <2> DEFINE m == [kind |-> "flush", id |-> f]
  <2>1. /\ UNCHANGED <<pending, permits, active>>
        /\ queue' = queue \/ queue' = Append(queue, m)
    BY Zenon, <1>10 DEF FlushInCallback, FlushCall, channelVars
  <2>2. m \in Message /\ m.kind \notin {"register", "complete"}
    BY ZenonT(60) DEF Message
  <2> HIDE DEF m
  <2> QED
    BY ZenonT(60), <2>1, <2>2, PendingKeep
<1>11. CASE DispatcherStep
  <2>1. \A p \in Pending : p \in permits' /\ p \in active => p \in active'
    BY ZenonT(60), <1>0, <1>11, DispatcherActive
  <2>2. CASE HandleFlush \/ HandleRegisterPending \/ ReceivePublication
    <3>1. /\ queue # <<>> /\ queue' = Tail(queue) /\ Head(queue).kind # "complete"
          /\ UNCHANGED <<pending, permits>>
      BY Zenon, <2>2 DEF HandleFlush, HandleRegisterPending, ReceivePublication, Receive
    <3>2. Head(queue).kind = "register" => HandleRegisterPending /\ Head(queue).id \in Pending
      BY ZenonT(60), <1>0, <2>2, <3>1, SeqHeadTail, MessageKinds
         DEF HandleFlush, HandleRegisterPending, ReceivePublication, Receive
    <3>3. Head(queue).kind = "register" /\ Head(queue).id \in permits' => Head(queue).id \in active'
      BY ZenonT(60), <1>0, <1>11, <3>2, DispatcherActive
    <3> QED
      BY ZenonT(60), <2>1, <3>1, <3>3, PendingReceive
  <2>3. CASE HandleCompletePending
    <3>1. /\ queue # <<>> /\ queue' = Tail(queue) /\ Head(queue).kind = "complete"
          /\ permits' = permits \ {Head(queue).id}
          /\ pending' = [pending EXCEPT ![Head(queue).id] = "done"]
      BY ZenonT(60), <2>3 DEF HandleCompletePending, Receive
    <3> QED
      BY ZenonT(60), <2>1, <3>1, PendingReceive
  <2>4. CASE \/ HandleDeliver \/ EndStage \/ EndSubscribers \/ FinishDeliver \/ HandleBarrier
             \/ ReceivePublications \/ ReleaseBarrier
    <3>1. UNCHANGED <<pending, queue>>
      BY Zenon, <2>4 DEF HandleDeliver, EndStage, EndSubscribers, FinishDeliver, HandleBarrier,
                  ReceivePublications, ReleaseBarrier, channelVars
    <3>2. permits' = permits \/ \E x \in Publication : permits' = permits \ {x}
      BY ZenonT(60), <2>4, PermitsDropped
    <3> QED
      BY ZenonT(60), <1>0, <2>1, <3>1, <3>2, PendingKeep
  <2> QED
    BY ZenonT(60), <1>11, <2>2, <2>3, <2>4 DEF DispatcherStep
<1> QED
  BY ZenonT(60), <1>1, <1>2, <1>3, <1>4, <1>5, <1>6, <1>7, <1>8, <1>9, <1>10, <1>11 DEF Next

-----------------------------------------------------------------------------
(* Together *)

\* Initially nothing was emitted.
LEMMA OwnershipInit ==
    ASSUME Init
    PROVE  OwnershipInv
<1>0. /\ queue = <<>> /\ stack = <<>> /\ nested = <<>> /\ delivering = NoDelivery /\ permits = {}
      /\ \A x \in Publication : place[x] = "unused"
      /\ \A b \in Task : task[b] = "none" /\ taskBuffer[b] = <<>>
      /\ \A p \in Pending : pending[p] = "none"
      /\ \A e \in Event : foreign[e] = None
      /\ \A l \in Lineage : lineage[l] = l
  BY Zenon DEF Init
<1>1. \A pl \in {"queue", "stack", "nested", "task"} : InPlace(pl) = {}
  <2>1. \A pl \in {"queue", "stack", "nested", "task"} : pl # "unused"
    OBVIOUS
  <2> QED BY Zenon, <1>0, <2>1 DEF InPlace
<1>2. Own
  <2>0. DOMAIN <<>> = {}
    OBVIOUS
  <2>1. OwnedQueue /\ OwnedStack /\ OwnedNested
    BY Zenon, <1>0, <1>1, <2>0 DEF OwnedQueue, OwnedStack, OwnedNested, OwnsMsgs, OwnsFrames
  <2>2. \A b \in Task : taskBuffer[b] = <<>>
    BY Zenon, <1>0
  <2>3. Ids(<<>>) = {} /\ OwnsMsgs(<<>>, {})
    BY Zenon, <2>0 DEF Ids, OwnsMsgs
  <2>4. \A b \in Task : Ids(taskBuffer[b]) = {}
    BY ZenonT(60), <2>2, <2>3
  <2>5. \A b \in Task : OwnsMsgs(taskBuffer[b], Ids(taskBuffer[b]))
    BY ZenonT(60), <2>2, <2>3, <2>4
  <2>6. InPlace("task") = UNION {Ids(taskBuffer[b]) : b \in Task}
    BY ZenonT(60), <1>1, <2>4
  <2>7. OwnedTask
    BY ZenonT(60), <2>4, <2>5, <2>6 DEF OwnedTask
  <2>8. OwnedDelivering
    <3>1. NoDelivery.event = None /\ \A x \in Publication : x # None
      BY DisjointIds DEF NoDelivery, Publication
    <3>2. "unused" # "delivering"
      OBVIOUS
    <3> QED BY Zenon, <1>0, <3>1, <3>2 DEF OwnedDelivering
  <2> QED
    BY Zenon, <2>1, <2>7, <2>8 DEF Own
<1>3. PermitInv
  <2>1. "unused" # "gone" /\ "unused" # "attached" /\ Event \subseteq Publication /\ Task \subseteq Publication
    BY DEF Publication
  <2> QED BY Zenon, <1>0, <2>1 DEF PermitInv
<1>4. LineageInv
  <2>1. "unused" # "attached" /\ Event \subseteq Publication /\ Publication \subseteq Lineage /\ Pending \subseteq Lineage
    BY DEF Publication, Lineage
  <2> QED BY Zenon, <1>0, <2>1 DEF LineageInv
<1>5. TaskInv
  <2>1. \A b \in Task : task[b] = "none" /\ taskBuffer[b] = <<>> /\ place[b] = "unused"
    BY Zenon, <1>0 DEF Publication
  <2>2. "none" # "running" /\ DOMAIN <<>> = {}
    OBVIOUS
  <2> QED BY Zenon, <1>0, <2>1, <2>2 DEF TaskInv
<1>6. PendingInv
  <2>1. "none" \notin {"registered", "released"} /\ DOMAIN <<>> = {}
    OBVIOUS
  <2> QED BY Zenon, <1>0, <2>1 DEF PendingInv
<1> QED
  BY ZenonT(60), <1>2, <1>3, <1>4, <1>5, <1>6 DEF OwnershipInv

\* The five parts are inductive together.
LEMMA OwnershipStep ==
    ASSUME TypeOK, OwnershipInv, [Next]_vars
    PROVE  OwnershipInv'
BY ZenonT(60), OwnStep, PermitStep, LineageStep, TaskStep, PendingStep DEF OwnershipInv

\* What FlushInv says of ownership, permits, lineages, tasks and managed calls
\* holds throughout.
THEOREM OwnershipInvariant == Spec => []OwnershipInv
<1>1. Init => OwnershipInv
  BY ZenonT(60), OwnershipInit
<1>2. TypeOK /\ OwnershipInv /\ [Next]_vars => OwnershipInv'
  BY ZenonT(60), OwnershipStep
<1> QED
  BY <1>1, <1>2, TypeCorrect, PTL DEF Spec

\* Wherever a publication is on its way to subscribers, its permit is alive.
THEOREM PermitsHeld == Spec => []PermitHeld
<1>1. ASSUME TypeOK, OwnershipInv
      PROVE  PermitHeld
  <2> USE <1>1 DEF OwnershipInv
  <2>0. \A x \in Publication : place[x] \notin {"unused", "gone"} => x \in permits
    BY ZenonT(60) DEF PermitInv
  <2>1. ASSUME NEW i \in DOMAIN queue, queue[i].kind \in {"deliver", "barrier", "complete"}
        PROVE  queue[i].id \in permits
    <3>1. CASE queue[i].kind \in {"deliver", "barrier"}
      <4>1. queue[i].id \in InPlace("queue")
        BY ZenonT(60), <3>1 DEF Own, OwnedQueue, OwnsMsgs, PublicationKinds
      <4> QED
        BY ZenonT(60), <2>0, <4>1 DEF InPlace
    <3>2. CASE queue[i].kind = "complete"
      <4>1. queue[i] \in Message
        BY ZenonT(60), SeqElement, SeqLen DEF TypeOK
      <4>2. queue[i].id \in Pending
        BY ZenonT(60), <3>2, <4>1, MessageKinds
      <4> QED
        BY ZenonT(60), <3>2, <4>2 DEF PendingInv, CompleteAt
    <3> QED
      BY ZenonT(60), <2>1, <3>1, <3>2
  <2>2. ASSUME NEW i \in DOMAIN stack, stack[i].op # "finish"
        PROVE  stack[i].id \in permits
    <3>1. stack[i].id \in InPlace("stack")
      BY ZenonT(60), <2>2 DEF Own, OwnedStack, OwnsFrames
    <3> QED
      BY ZenonT(60), <2>0, <3>1 DEF InPlace
  <2>3. ASSUME NEW i \in DOMAIN nested
        PROVE  nested[i].id \in permits
    <3>1. InPlace("nested") = Ids(nested)
      BY ZenonT(60), FramesOf DEF TypeOK, Own, OwnedNested
    <3>2. nested[i].id \in InPlace("nested")
      BY ZenonT(60), <3>1 DEF Ids
    <3> QED
      BY ZenonT(60), <2>0, <3>2 DEF InPlace
  <2>4. ASSUME NEW b \in Task, NEW i \in DOMAIN taskBuffer[b]
        PROVE  taskBuffer[b][i].id \in permits
    <3>1. taskBuffer[b][i].id \in Ids(taskBuffer[b])
      BY ZenonT(60) DEF Ids
    <3>2. InPlace("task") = UNION {Ids(taskBuffer[c]) : c \in Task}
      BY ZenonT(60) DEF Own, OwnedTask
    <3>3. taskBuffer[b][i].id \in InPlace("task")
      BY ZenonT(60), <3>1, <3>2
    <3> QED
      BY ZenonT(60), <2>0, <3>3 DEF InPlace
  <2>5. delivering.event # None => delivering.event \in permits
    <3>1. delivering.event # None => delivering.event \in Publication
      BY ZenonT(60), InDelivery DEF Publication, TypeOK
    <3> QED
      BY ZenonT(60), <2>0, <3>1 DEF Own, OwnedDelivering
  <2>6. \A e \in Event : place[e] = "attached" => e \in permits
    BY ZenonT(60), <2>0 DEF Publication
  <2> QED
    BY ZenonT(60), <2>1, <2>2, <2>3, <2>4, <2>5, <2>6 DEF PermitHeld
<1> QED
  BY <1>1, TypeCorrect, OwnershipInvariant, PTL
==============================================================================
