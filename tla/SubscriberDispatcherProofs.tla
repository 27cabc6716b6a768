--------------------- MODULE SubscriberDispatcherProofs ---------------------
(***************************************************************************)
(* Proofs about the dispatcher, for any events, tasks, managed calls and   *)
(* flush calls: its types, and what the dispatcher thread does to the      *)
(* messages, frames, lineages and permits, on which the other proofs rest. *)
(* Then what needs no more than that: no subscriber is shown what its      *)
(* middleware did not see, and the order of flush calls.                   *)
(***************************************************************************)
EXTENDS SubscriberDispatcherInv, TLAPS

-----------------------------------------------------------------------------
(* The facts about sequences these proofs use *)

\* The length of a sequence bounds its positions.
LEMMA SeqLen ==
    ASSUME NEW S, NEW s \in Seq(S)
    PROVE  Len(s) \in Nat /\ DOMAIN s = 1 .. Len(s) /\ s \in [1 .. Len(s) -> S]
OBVIOUS

\* What stands at a position of a sequence is one of its elements.
LEMMA SeqElement ==
    ASSUME NEW S, NEW s \in Seq(S), NEW i \in 1 .. Len(s)
    PROVE  s[i] \in S
OBVIOUS

\* Only the empty sequence has no length.
LEMMA SeqEmpty ==
    ASSUME NEW S
    PROVE  /\ << >> \in Seq(S) /\ Len(<< >>) = 0
           /\ \A s \in Seq(S) : s # << >> => Len(s) \in Nat \ {0}
<1>1. ASSUME NEW s \in Seq(S), s # << >> PROVE Len(s) \in Nat \ {0}
  BY <1>1
<1> QED
  BY <1>1

\* Append adds one position at the end.
LEMMA SeqAppend ==
    ASSUME NEW S, NEW s \in Seq(S), NEW e \in S
    PROVE  /\ Append(s, e) \in Seq(S) /\ Append(s, e) # << >>
           /\ Len(Append(s, e)) = Len(s) + 1
           /\ \A i \in 1 .. Len(s) : Append(s, e)[i] = s[i]
           /\ Append(s, e)[Len(s) + 1] = e
OBVIOUS

\* Concatenation puts the second sequence after the first.
LEMMA SeqConcat ==
    ASSUME NEW S, NEW s \in Seq(S), NEW t \in Seq(S)
    PROVE  /\ s \o t \in Seq(S)
           /\ Len(s \o t) = Len(s) + Len(t)
           /\ \A i \in 1 .. Len(s) + Len(t) :
                 (s \o t)[i] = IF i <= Len(s) THEN s[i] ELSE t[i - Len(s)]
OBVIOUS

\* The empty sequence adds nothing.
LEMMA SeqConcatEmpty ==
    ASSUME NEW S, NEW s \in Seq(S)
    PROVE  s \o << >> = s /\ << >> \o s = s
OBVIOUS

\* The tail is the rest, one position forward.
LEMMA SeqHeadTail ==
    ASSUME NEW S, NEW s \in Seq(S), s # << >>
    PROVE  /\ Head(s) \in S /\ Tail(s) \in Seq(S)
           /\ Len(Tail(s)) = Len(s) - 1
           /\ \A i \in 1 .. Len(Tail(s)) : Tail(s)[i] = s[i + 1]
OBVIOUS

\* The message of a publication carries it, under the kind of its id.
LEMMA MsgType ==
    ASSUME NEW x \in Publication
    PROVE  Msg(x) \in PublicationMsg /\ (x \in Event => Msg(x) \in DeliverMsg)
BY DEF Msg, Publication, PublicationMsg, DeliverMsg

\* The kind of a channel message tells what its id names.
LEMMA MessageKinds ==
    ASSUME NEW m \in Message
    PROVE  /\ m.kind = "flush" => m.id \in Flush
           /\ m.kind \in {"register", "complete"} => m.id \in Pending
           /\ m.kind = "deliver" => m.id \in Event
           /\ m.kind = "barrier" => m.id \in Task
BY DEF Message, PublicationMsg, DeliverMsg

\* The publications of a buffer become frames of handle_message.
LEMMA HandleFramesType ==
    ASSUME NEW ms \in Seq(PublicationMsg)
    PROVE  HandleFrames(ms) \in Seq(Frame)
BY DEF HandleFrames, PublicationMsg, DeliverMsg, Frame, Publication

-----------------------------------------------------------------------------
(* Types *)

\* The histories of the flush calls stay sets of publications and handles.
LEMMA PromiseType ==
    ASSUME NEW x \in Lineage, NEW o, Promise(x, o) \/ UNCHANGED promiseVars,
           promised \in [Flush -> SUBSET Lineage], owed \in [Flush -> SUBSET Lineage]
    PROVE  promised' \in [Flush -> SUBSET Lineage] /\ owed' \in [Flush -> SUBSET Lineage]
BY DEF Promise, promiseVars

\* complete_ready_flushes leaves the loop state well typed.
LEMMA CompleteReadyType ==
    ASSUME NEW pf \in Seq(PendingFlush), NEW reg \in SUBSET Lineage,
           NEW fs \in [Flush -> {"idle", "waiting", "ok", "skipped", "failed"}],
           CompleteReadyFlushes(pf, reg, fs)
    PROVE  /\ active' \subseteq Lineage
           /\ pendingFlushes' \in Seq(PendingFlush)
           /\ flush' \in [Flush -> {"idle", "waiting", "ok", "skipped", "failed"}]
<1>1. PICK n \in 0..Len(pf) :
        /\ active' \subseteq reg
        /\ pendingFlushes' = SubSeq(pf, n + 1, Len(pf))
        /\ flush' = [f \in Flush |-> IF \E i \in 1..n : pf[i].flush = f THEN "ok" ELSE fs[f]]
  BY ZenonT(60) DEF CompleteReadyFlushes
<1>2. Len(pf) \in Nat
  BY SeqLen
<1>3. pendingFlushes' \in Seq(PendingFlush)
  BY <1>1, <1>2
<1> QED
  BY <1>1, <1>3

\* Joining a lineage and starting a barrier's task keep the types.
LEMMA AttachType ==
    ASSUME TypeOK, NEW x \in Publication, NEW l \in Lineage, Attach(x, l), StartTask(x)
    PROVE  /\ permits' \subseteq Lineage /\ lineage' \in [Lineage -> Lineage]
           /\ task' \in [Task -> {"none", "running", "published", "dropped"}]
<1>1. permits \subseteq Lineage /\ lineage \in [Lineage -> Lineage] /\ x \in Lineage
  BY DEF TypeOK, Lineage
<1>2. task \in [Task -> {"none", "running", "published", "dropped"}]
  BY DEF TypeOK
<1>3. task' \in [Task -> {"none", "running", "published", "dropped"}]
  BY <1>2 DEF StartTask
<1> QED
  BY <1>1, <1>3 DEF Attach

\* Moving publications to a place the model knows keeps the places typed.
LEMMA MoveType ==
    ASSUME NEW xs, NEW to \in Places, place \in [Publication -> Places], Move(xs, to)
    PROVE  place' \in [Publication -> Places]
BY DEF Move

\* One frame is a stack.
LEMMA OneFrame ==
    ASSUME NEW fr \in Frame
    PROVE  <<fr>> \in Seq(Frame)
OBVIOUS

\* So does sending a publication.
LEMMA SendType ==
    ASSUME TypeOK, NEW x \in Publication, SendPublication(x)
    PROVE  /\ dispatcher' \in {"unstarted", "running", "failed"}
           /\ queue' \in Seq(Message) /\ place' \in [Publication -> Places]
           /\ turn' \in [Publication -> Nat] /\ sends' \in Nat
<1>1. /\ queue \in Seq(Message) /\ place \in [Publication -> Places]
      /\ turn \in [Publication -> Nat] /\ sends \in Nat
  BY DEF TypeOK
<1>2. Append(queue, Msg(x)) \in Seq(Message)
  BY <1>1, MsgType, SeqAppend DEF Message
<1>3. place' \in [Publication -> Places]
  BY <1>1 DEF SendPublication, Move, Places
<1> QED
  BY <1>1, <1>2, <1>3 DEF SendPublication, SenderOk

\* Every step of the dispatcher and of its users keeps the variables well typed.
LEMMA TypeStep ==
    ASSUME TypeOK, [Next]_vars
    PROVE  TypeOK'
<1> USE DEF TypeOK, Lineage, Publication, Move, Places
<1>1. CASE UNCHANGED vars
  BY ZenonT(60), <1>1 DEF vars, channelVars, permitVars, loopVars, emitterVars,
              flushVars, promiseVars, orderVars
<1>2. ASSUME NEW x \in Publication, NEW p \in Pending \cup {None}, Emit(x, p)
      PROVE  TypeOK'
  <2> HIDE DEF TypeOK, Lineage, Publication, Move, Places
  <2>1. x \in Lineage
    BY DEF Lineage
  <2>2. /\ permits' \subseteq Lineage /\ lineage' \in [Lineage -> Lineage]
        /\ task' \in [Task -> {"none", "running", "published", "dropped"}]
    BY Zenon, <1>2, <2>1, AttachType DEF Emit
  <2>3. /\ dispatcher' \in {"unstarted", "running", "failed"}
        /\ queue' \in Seq(Message) /\ place' \in [Publication -> Places]
        /\ turn' \in [Publication -> Nat] /\ sends' \in Nat
    BY Zenon, <1>2, SendType DEF Emit
  <2>4. promised' \in [Flush -> SUBSET Lineage] /\ owed' \in [Flush -> SUBSET Lineage]
    BY Zenon, <1>2, <2>1, PromiseType DEF Emit, TypeOK
  <2> QED
    BY Zenon, <1>2, <2>2, <2>3, <2>4 DEF Emit, TypeOK, loopVars, flushVars
<1>3. ASSUME NEW e \in Event, EmitLost(e)
      PROVE  TypeOK'
  BY ZenonT(60), <1>3 DEF EmitLost, SenderErr, Outcomes, permitVars, loopVars, emitterVars, flushVars, promiseVars, orderVars
<1>4. ASSUME NEW e \in Event, ForeignCapture(e)
      PROVE  TypeOK'
  <2>1. PICK buf \in OpenBuffers : foreign' = [foreign EXCEPT ![e] = buf]
    BY Zenon, <1>4 DEF ForeignCapture
  <2>2. delivering \in Delivery /\ foreign \in [Event -> Buffer \cup {None}]
    BY Zenon
  <2>3. foreign' \in [Event -> Buffer \cup {None}]
    <3> HIDE DEF TypeOK, Lineage, Publication, Move, Places
    <3>1. buf \in Buffer
      BY <2>1, <2>2 DEF OpenBuffers, Buffer, Delivery, NoDelivery, MiddlewareStages
    <3> QED
      BY Zenon, <2>1, <2>2, <3>1
  <2> QED
    BY Zenon, <1>4, <2>3 DEF ForeignCapture, channelVars, permitVars, loopVars, emitterVars,
              flushVars, promiseVars, orderVars
<1>5. ASSUME NEW e \in Event, ForeignAttach(e)
      PROVE  TypeOK'
  <2>1. foreign[e].owner \in Lineage
    BY ZenonT(60), <1>5 DEF ForeignAttach, Buffer
  <2>2. permits' \subseteq Lineage /\ lineage' \in [Lineage -> Lineage]
    <3>1. lineage[foreign[e].owner] \in Lineage
      BY <2>1
    <3>2. \E l \in Lineage : Attach(e, l)
      BY ZenonT(60), <1>5, <3>1 DEF ForeignAttach
    <3> QED
      BY <3>2 DEF Attach
  <2>3. /\ promised' \in [Flush -> SUBSET Lineage]
        /\ owed' \in [Flush -> SUBSET Lineage]
    <3>1. Promise(e, foreign[e].owner) \/ UNCHANGED promiseVars
      BY ZenonT(60), <1>5 DEF ForeignAttach
    <3> QED
      BY ZenonT(40), <3>1, PromiseType
  <2> QED
    BY ZenonT(60), <1>5, <2>2, <2>3 DEF ForeignAttach, channelVars, loopVars, emitterVars, flushVars, orderVars
<1>6. ASSUME NEW e \in Event, ForeignPush(e)
      PROVE  TypeOK'
  <2>1. /\ Append(queue, Msg(e)) \in Seq(Message)
        /\ Append(nested, Msg(e)) \in Seq(PublicationMsg)
        /\ \A b \in Task : Append(taskBuffer[b], Msg(e)) \in Seq(DeliverMsg)
    BY ZenonT(60), MsgType, SeqAppend DEF Message
  <2> QED
    <3>1. foreign[e].owner \in Publication
      BY ZenonT(60), <1>6 DEF ForeignPush, Buffer
    <3>2. turn' \in [Publication -> Nat] /\ sends' \in Nat
      <4>1. \/ turn' = [turn EXCEPT ![e] = sends + 1] /\ sends' = sends + 1
            \/ turn' = [turn EXCEPT ![e] = turn[foreign[e].owner]] /\ sends' = sends
            \/ turn' = turn /\ sends' = sends
        BY ZenonT(60), <1>6 DEF ForeignPush, SendPublication
      <4>2. turn[foreign[e].owner] \in Nat /\ sends + 1 \in Nat
        BY <3>1
      <4>3. turn \in [Publication -> Nat] /\ sends \in Nat
        OBVIOUS
      <4> HIDE DEF TypeOK, Move, Places
      <4> QED
        BY ZenonT(60), <4>1, <4>2, <4>3
    <3>3. /\ queue' \in Seq(Message) /\ nested' \in Seq(PublicationMsg)
          /\ taskBuffer' \in [Task -> Seq(DeliverMsg)]
          /\ dispatcher' \in {"unstarted", "running", "failed"}
      <4>1. /\ queue' = queue \/ queue' = Append(queue, Msg(e))
            /\ nested' = nested \/ nested' = Append(nested, Msg(e))
            /\ dispatcher' = dispatcher \/ dispatcher' = "running"
        BY ZenonT(60), <1>6 DEF ForeignPush, SendPublication, SenderOk, channelVars
      <4>2. \/ taskBuffer' = taskBuffer
            \/ /\ foreign[e].owner \in Task
               /\ taskBuffer' = [taskBuffer EXCEPT ![foreign[e].owner] =
                                   Append(taskBuffer[foreign[e].owner], Msg(e))]
        BY ZenonT(60), <1>6 DEF ForeignPush, Buffer, MiddlewareStages
      <4> QED
        BY ZenonT(60), <4>1, <4>2, <2>1
    <3>4. /\ promised' \in [Flush -> SUBSET Lineage] /\ owed' \in [Flush -> SUBSET Lineage]
      <4>1. Promise(e, foreign[e].owner) \/ UNCHANGED promiseVars
        BY ZenonT(60), <1>6 DEF ForeignPush
      <4> QED
        BY Zenon, <4>1, PromiseType
    <3>5. outcome' \in [Event -> Outcomes] /\ permits' \subseteq Lineage
      BY ZenonT(40), <1>6 DEF ForeignPush, Outcomes
    <3>6. place' \in [Publication -> Places]
      <4>1. place \in [Publication -> Places] /\ {"queue", "nested", "task", "gone"} \subseteq Places
        BY Zenon
      <4> HIDE DEF Move, Places
      <4> QED
        BY Zenon, <1>6, <4>1, MoveType DEF ForeignPush, SendPublication
    <3> HIDE DEF Move
    <3> QED
      BY Zenon, <1>6, <3>2, <3>3, <3>4, <3>5, <3>6 DEF ForeignPush, loopVars, flushVars
<1>7. ASSUME NEW x \in Publication, SubscriberEmit(x)
      PROVE  TypeOK'
  <2>1. x \in Lineage /\ lineage[delivering.event] \in Lineage
    <3>1. /\ delivering \in Delivery /\ delivering.stage = "subscribe" /\ x \in Lineage
          /\ lineage \in [Lineage -> Lineage]
      BY Zenon, <1>7 DEF SubscriberEmit
    <3>2. Event \subseteq Lineage
      OBVIOUS
    <3> HIDE DEF TypeOK, Lineage, Publication, Move, Places
    <3> QED
      BY <3>1, <3>2 DEF Delivery, NoDelivery
  <2> HIDE DEF TypeOK, Lineage, Publication, Move, Places
  <2>2. /\ permits' \subseteq Lineage /\ lineage' \in [Lineage -> Lineage]
        /\ task' \in [Task -> {"none", "running", "published", "dropped"}]
    BY Zenon, <1>7, <2>1, AttachType DEF SubscriberEmit
  <2>3. /\ dispatcher' \in {"unstarted", "running", "failed"}
        /\ queue' \in Seq(Message) /\ place' \in [Publication -> Places]
        /\ turn' \in [Publication -> Nat] /\ sends' \in Nat
    BY Zenon, <1>7, SendType DEF SubscriberEmit
  <2>4. promised' \in [Flush -> SUBSET Lineage] /\ owed' \in [Flush -> SUBSET Lineage]
    BY Zenon, <1>7, <2>1, PromiseType DEF SubscriberEmit, TypeOK
  <2> QED
    BY Zenon, <1>7, <2>2, <2>3, <2>4 DEF SubscriberEmit, TypeOK, loopVars, flushVars
<1>8. ASSUME NEW x \in Publication, NestedEmit(x)
      PROVE  TypeOK'
  <2>1. /\ x \in Lineage /\ lineage[delivering.event] \in Lineage
        /\ delivering.event \in Publication
    BY <1>8 DEF NestedEmit, Delivery, NoDelivery, MiddlewareStages
  <2>2. nested' \in Seq(PublicationMsg)
    BY Zenon, <1>8, MsgType, SeqAppend DEF NestedEmit
  <2>3. turn' \in [Publication -> Nat] /\ place' \in [Publication -> Places]
    <3>1. turn[delivering.event] \in Nat
      BY Zenon, <2>1
    <3> QED
      BY Zenon, <1>8, <3>1 DEF NestedEmit
  <2> HIDE DEF TypeOK, Lineage, Publication, Move, Places
  <2>4. /\ permits' \subseteq Lineage /\ lineage' \in [Lineage -> Lineage]
        /\ task' \in [Task -> {"none", "running", "published", "dropped"}]
    BY Zenon, <1>8, <2>1, AttachType DEF NestedEmit
  <2>5. promised' \in [Flush -> SUBSET Lineage] /\ owed' \in [Flush -> SUBSET Lineage]
    BY Zenon, <1>8, <2>1, PromiseType DEF NestedEmit, TypeOK
  <2> QED
    BY Zenon, <1>8, <2>2, <2>3, <2>4, <2>5 DEF NestedEmit, TypeOK, channelVars, loopVars, flushVars
<1>9. ASSUME NEW b \in Task, TaskFinish(b) \/ TaskDrop(b)
      PROVE  TypeOK'
  <2>1. CASE TaskFinish(b)
    BY ZenonT(60), <2>1 DEF TaskFinish, channelVars, permitVars, loopVars, flushVars,
                promiseVars, orderVars
  <2>2. CASE TaskDrop(b)
    <3>1. /\ outcome' \in [Event -> Outcomes] /\ permits' \subseteq Lineage
          /\ taskBuffer' \in [Task -> Seq(DeliverMsg)]
      BY ZenonT(60), <2>2, SeqEmpty DEF TaskDrop, Outcomes
    <3> QED
      BY ZenonT(60), <2>2, <3>1 DEF TaskDrop, channelVars, loopVars, flushVars, promiseVars,
                        orderVars
  <2> QED
    BY ZenonT(60), <1>9, <2>1, <2>2
<1>10. ASSUME NEW b \in Task, NEW e \in Event, TaskEmit(e, b)
       PROVE  TypeOK'
  <2>1. Append(taskBuffer[b], Msg(e)) \in Seq(DeliverMsg)
    BY ZenonT(60), MsgType, SeqAppend
  <2> QED
    BY ZenonT(60), <1>10, <2>1 DEF TaskEmit, Attach, Promise, channelVars, loopVars, flushVars
<1>11. ASSUME NEW p \in Pending, RegisterPending(p) \/ ReleasePending(p)
       PROVE  TypeOK'
  <2>1. /\ Append(queue, [kind |-> "register", id |-> p]) \in Seq(Message)
        /\ Append(queue, [kind |-> "complete", id |-> p]) \in Seq(Message)
    BY SMTT(20), SeqAppend DEF Message
  <2> QED
    <3>1. CASE RegisterPending(p)
      BY ZenonT(60), <3>1, <2>1 DEF RegisterPending, SenderOk, Attach, loopVars, flushVars,
                        promiseVars, orderVars
    <3>2. CASE ReleasePending(p)
      BY ZenonT(60), <3>2, <2>1 DEF ReleasePending, permitVars, loopVars, flushVars,
                        promiseVars, orderVars
    <3> QED
      BY ZenonT(60), <1>11, <3>1, <3>2
<1>12. ASSUME NEW f \in Flush, FlushInCallback(f)
       PROVE  TypeOK'
  BY ZenonT(60), <1>12 DEF FlushInCallback, channelVars, permitVars, loopVars, emitterVars,
               promiseVars, orderVars
<1>13. ASSUME NEW f \in Flush, NEW m \in Modes, FlushCall(f, m)
       PROVE  TypeOK'
  <2>1. Append(queue, [kind |-> "flush", id |-> f]) \in Seq(Message)
    <3>1. queue \in Seq(Message)
      BY Zenon
    <3>2. [kind |-> "flush", id |-> f] \in Message
      BY Zenon DEF Message
    <3> QED
      BY Zenon, <3>1, <3>2, SeqAppend
  <2> QED
    <3>1. InTransit(m) \subseteq Lineage
      BY ZenonT(60) DEF InTransit
    <3>2. mode' \in [Flush -> Modes] /\ queue' \in Seq(Message)
      BY ZenonT(40), <1>13, <2>1 DEF FlushCall, promiseVars
    <3>3. /\ promised' \in [Flush -> SUBSET Lineage] /\ owed' \in [Flush -> SUBSET Lineage]
          /\ atCall' \in [Flush -> SUBSET Lineage] /\ ahead' \in [Flush -> SUBSET Flush]
          /\ flush' \in [Flush -> {"idle", "waiting", "ok", "skipped", "failed"}]
      <4>0. /\ promised \in [Flush -> SUBSET Lineage] /\ owed \in [Flush -> SUBSET Lineage]
            /\ atCall \in [Flush -> SUBSET Lineage] /\ ahead \in [Flush -> SUBSET Flush]
            /\ flush \in [Flush -> {"idle", "waiting", "ok", "skipped", "failed"}]
        BY Zenon
      <4> HIDE DEF TypeOK, Lineage, Publication, Move, Places
      <4>1. \E r \in {"ok", "failed", "waiting"} : flush' = [flush EXCEPT ![f] = r]
        BY ZenonT(60), <1>13 DEF FlushCall
      <4>2. CASE UNCHANGED <<queue, promiseVars, atCall, ahead>>
        BY SMTT(60), <4>0, <4>1, <4>2 DEF promiseVars
      <4>3. CASE ~UNCHANGED <<queue, promiseVars, atCall, ahead>>
        <5>1. PICK ls \in SUBSET Lineage, gs \in SUBSET Flush :
                /\ promised' = [promised EXCEPT ![f] = InTransit(m)]
                /\ owed' = [owed EXCEPT ![f] = InTransit(m)]
                /\ atCall' = [atCall EXCEPT ![f] = ls]
                /\ ahead' = [ahead EXCEPT ![f] = gs]
          BY ZenonT(60), <1>13, <4>3 DEF FlushCall
        <5> QED
          BY SMTT(60), <3>1, <4>0, <4>1, <5>1
      <4> QED
        BY ZenonT(60), <4>2, <4>3
    <3> QED
      BY ZenonT(60), <1>13, <3>2, <3>3 DEF FlushCall, permitVars, loopVars, emitterVars,
                               orderVars
<1> DEFINE Received == queue # <<>> => /\ Tail(queue) \in Seq(Message)
                                       /\ Head(queue) \in Message
<1>14. Received
  BY SeqHeadTail
<1>15. CASE HandleFlush
  <2> DEFINE f == Head(queue).id
             ls == {l \in active : (mode[f] = "all" \/ l \notin Pending) /\ Outstanding(l)}
  <2>1. f \in Flush /\ Tail(queue) \in Seq(Message)
    BY ZenonT(60), <1>14, <1>15, MessageKinds DEF HandleFlush, Receive
  <2>2. [flush |-> f, lineages |-> ls] \in PendingFlush
    BY ZenonT(60), <2>1 DEF PendingFlush
  <2>3. Append(pendingFlushes, [flush |-> f, lineages |-> ls]) \in Seq(PendingFlush)
    BY ZenonT(60), <2>2, SeqAppend
  <2>4. [flush EXCEPT ![f] = "ok"] \in [Flush -> {"idle", "waiting", "ok", "skipped", "failed"}]
    BY ZenonT(60), <2>1
  <2>5. \/ CompleteReadyFlushes(pendingFlushes, active, [flush EXCEPT ![f] = "ok"])
        \/ CompleteReadyFlushes(Append(pendingFlushes, [flush |-> f, lineages |-> ls]),
                                active, flush)
    BY ZenonT(60), <1>15 DEF HandleFlush
  <2>6. /\ active' \subseteq Lineage
        /\ pendingFlushes' \in Seq(PendingFlush)
        /\ flush' \in [Flush -> {"idle", "waiting", "ok", "skipped", "failed"}]
    BY ZenonT(40), <2>3, <2>4, <2>5, CompleteReadyType
  <2> QED
    BY ZenonT(60), <1>15, <2>1, <2>6 DEF HandleFlush, Receive, emitterVars, promiseVars,
                             orderVars
<1>16. CASE HandleRegisterPending \/ HandleCompletePending
  <2>1. Head(queue).id \in Pending /\ Tail(queue) \in Seq(Message)
    BY ZenonT(60), <1>14, <1>16, MessageKinds DEF HandleRegisterPending, HandleCompletePending, Receive
  <2>2. CompleteReadyFlushes(pendingFlushes, active \cup {Head(queue).id}, flush)
    BY ZenonT(60), <1>16 DEF HandleRegisterPending, HandleCompletePending
  <2>3. /\ active' \subseteq Lineage
        /\ pendingFlushes' \in Seq(PendingFlush)
        /\ flush' \in [Flush -> {"idle", "waiting", "ok", "skipped", "failed"}]
    BY Zenon, <2>1, <2>2, CompleteReadyType
  <2> QED
    <3>1. CASE HandleRegisterPending
      BY ZenonT(60), <3>1, <2>1, <2>3 DEF HandleRegisterPending, Receive, emitterVars,
                              promiseVars, orderVars
    <3>2. CASE HandleCompletePending
      BY ZenonT(60), <3>2, <2>1, <2>3 DEF HandleCompletePending, Receive, promiseVars, orderVars
    <3> QED
      BY ZenonT(60), <1>16, <3>1, <3>2
<1>17. CASE ReceivePublication
  <2>1. Head(queue).id \in Publication /\ Tail(queue) \in Seq(Message)
    BY ZenonT(60), <1>14, <1>17, MessageKinds DEF ReceivePublication, Receive
  <2>2. <<[op |-> "handle", id |-> Head(queue).id]>> \in Seq(Frame)
    BY Zenon, <2>1, OneFrame DEF Frame
  <2> QED
    BY ZenonT(60), <1>17, <2>1, <2>2 DEF ReceivePublication, Receive, permitVars, emitterVars, flushVars, promiseVars, orderVars
<1>18. Step("handle") \/ Step("finish") \/ Step("await") \/ Step("release")
         => Head(stack) \in Frame /\ Tail(stack) \in Seq(Frame)
  BY ZenonT(60), SeqHeadTail DEF Step
<1>19. ASSUME NEW e \in Event, NEW r \in Outcomes, NEW rest \in Seq(Frame),
              EndDelivery(e, r, rest)
       PROVE  /\ delivering' \in Delivery /\ outcome' \in [Event -> Outcomes]
              /\ permits' \subseteq Lineage /\ stack' \in Seq(Frame)
              /\ place' \in [Publication -> Places]
              /\ nested' \in Seq(PublicationMsg)
  <2>1. HandleFrames(nested) \in Seq(Frame)
    BY ZenonT(60), HandleFramesType
  <2>2. <<[op |-> "finish", id |-> e]>> \in Seq(Frame)
    BY Zenon, OneFrame DEF Frame
  <2>3. stack' \in Seq(Frame)
    BY ZenonT(60), <1>19, <2>1, <2>2, SeqConcat DEF EndDelivery
  <2> QED
    <3>1. place' \in [Publication -> Places]
      <4>1. place \in [Publication -> Places] /\ {"gone", "stack"} \subseteq Places
        BY Zenon
      <4> HIDE DEF TypeOK, Lineage, Publication, Move, Places
      <4> QED
        BY <1>19, <4>1 DEF EndDelivery
    <3>2. nested' \in Seq(PublicationMsg)
      BY Zenon, <1>19, SeqEmpty DEF EndDelivery
    <3> QED
      BY Zenon, <1>19, <2>3, <3>1, <3>2 DEF EndDelivery, Delivery
<1>20. ASSUME NEW e \in Event, NEW rest \in Seq(Frame),
              NEW s \in MiddlewareStages \cup {"subscribe", "drop"}, NEW v \in Views,
              Advance(e, <<s, v>>, rest)
       PROVE  /\ delivering' \in Delivery /\ outcome' \in [Event -> Outcomes]
              /\ permits' \subseteq Lineage /\ stack' \in Seq(Frame)
              /\ place' \in [Publication -> Places]
              /\ nested' \in Seq(PublicationMsg)
  <2>1. CASE s = "drop"
    BY ZenonT(40), <1>19, <1>20, <2>1 DEF Advance, Outcomes
  <2>2. CASE s # "drop"
    <3>1. delivering' = [event |-> e, stage |-> s, view |-> v]
      BY ZenonT(60), <1>20, <2>2 DEF Advance
    <3>2. delivering' \in Delivery
      BY ZenonT(60), <2>2, <3>1 DEF Delivery
    <3> QED
      <4>1. Move({e}, "delivering") /\ stack' = rest /\ UNCHANGED <<outcome, permits, nested>>
        BY Zenon, <1>20, <2>2 DEF Advance
      <4>2. place' \in [Publication -> Places]
        BY Zenon, <4>1, MoveType
      <4> QED
        BY Zenon, <3>2, <4>1, <4>2
  <2> QED
    BY ZenonT(60), <2>1, <2>2
<1> DEFINE Points == (MiddlewareStages \cup {"subscribe", "drop"}) \X Views
<1>21. ASSUME NEW e \in Event
       PROVE  /\ EnterTransform(e) \subseteq Points
              /\ \A d \in Delivery : d.stage \in MiddlewareStages => AfterStage(d) \subseteq Points
  <2> HIDE DEF TypeOK, Lineage, Publication, Move, Places
  <2> QED
    BY DEF EnterTransform, EnterInject, EnterSanitize, AfterStage, Delivery, NoDelivery,
           MiddlewareStages, Views
<1>22. CASE HandleDeliver
  <2> DEFINE e == Head(stack).id
  <2>1. e \in Event /\ Tail(stack) \in Seq(Frame) /\ lineage[e] \in Lineage
    BY Zenon, <1>18, <1>22 DEF HandleDeliver
  <2>2. PICK pt \in EnterTransform(e) : Advance(e, pt, Tail(stack))
    BY Zenon, <1>22 DEF HandleDeliver
  <2>3. PICK s \in MiddlewareStages \cup {"subscribe", "drop"}, v \in Views : pt = <<s, v>>
    <3>1. pt \in Points
      BY Zenon, <1>21, <2>1
    <3> HIDE DEF TypeOK, Lineage, Publication, Move, Places
    <3> QED
      BY <3>1
  <2>4. /\ delivering' \in Delivery /\ outcome' \in [Event -> Outcomes]
        /\ permits' \subseteq Lineage /\ stack' \in Seq(Frame)
        /\ place' \in [Publication -> Places]
        /\ nested' \in Seq(PublicationMsg)
    BY ZenonT(40), <1>20, <2>1, <2>2, <2>3
  <2> QED
    BY Zenon, <1>22, <2>1, <2>4 DEF HandleDeliver, channelVars, emitterVars, flushVars,
                             promiseVars
<1>23. CASE EndStage
  <2> DEFINE e == delivering.event
  <2>1. e \in Event
    <3>1. delivering \in Delivery /\ delivering.stage \in MiddlewareStages
      BY Zenon, <1>23 DEF EndStage
    <3> HIDE DEF TypeOK, Lineage, Publication, Move, Places
    <3> QED
      BY <3>1 DEF Delivery, NoDelivery, MiddlewareStages
  <2>2. PICK pt \in AfterStage(delivering) : Advance(e, pt, stack)
    BY ZenonT(60), <1>23 DEF EndStage
  <2>3. PICK s \in MiddlewareStages \cup {"subscribe", "drop"}, v \in Views : pt = <<s, v>>
    <3>1. pt \in Points
      BY Zenon, <1>21, <1>23, <2>1, <2>2 DEF EndStage
    <3> HIDE DEF TypeOK, Lineage, Publication, Move, Places
    <3> QED
      BY <3>1
  <2>4. /\ delivering' \in Delivery /\ outcome' \in [Event -> Outcomes]
        /\ permits' \subseteq Lineage /\ stack' \in Seq(Frame)
        /\ place' \in [Publication -> Places]
        /\ nested' \in Seq(PublicationMsg)
    BY ZenonT(40), <1>20, <2>1, <2>2, <2>3
  <2> QED
    BY ZenonT(60), <1>23, <2>4 DEF EndStage, channelVars, emitterVars, flushVars,
                       promiseVars, orderVars
<1>24. CASE EndSubscribers
  <2>1. delivering.event \in Event /\ delivering.view \in Outcomes
    <3>1. delivering \in Delivery /\ delivering.stage = "subscribe"
      BY Zenon, <1>24 DEF EndSubscribers
    <3> HIDE DEF TypeOK, Lineage, Publication, Move, Places
    <3> QED
      BY <3>1 DEF Delivery, NoDelivery, Outcomes, Views
  <2>2. /\ delivering' \in Delivery /\ outcome' \in [Event -> Outcomes]
        /\ permits' \subseteq Lineage /\ stack' \in Seq(Frame)
        /\ place' \in [Publication -> Places]
        /\ nested' \in Seq(PublicationMsg)
    BY ZenonT(40), <1>19, <1>24, <2>1 DEF EndSubscribers
  <2> QED
    BY ZenonT(60), <1>24, <2>2 DEF EndSubscribers, channelVars, emitterVars, flushVars,
                       promiseVars, orderVars
<1>25. CASE FinishDeliver
  <2>1. /\ active' \subseteq Lineage
        /\ pendingFlushes' \in Seq(PendingFlush)
        /\ flush' \in [Flush -> {"idle", "waiting", "ok", "skipped", "failed"}]
    BY Zenon, <1>25, CompleteReadyType DEF FinishDeliver
  <2> QED
    BY ZenonT(60), <1>18, <1>25, <2>1 DEF FinishDeliver, channelVars, emitterVars,
                              promiseVars, orderVars
<1>26. CASE HandleBarrier
  <2> DEFINE b == Head(stack).id
  <2>1. b \in Task /\ Tail(stack) \in Seq(Frame)
    BY ZenonT(60), <1>18, <1>26 DEF HandleBarrier
  <2>2. <<[op |-> "await", id |-> b]>> \in Seq(Frame)
    BY Zenon, <2>1, OneFrame DEF Frame
  <2>3. stack' \in Seq(Frame)
    BY ZenonT(60), <1>26, <2>1, <2>2, SeqConcat DEF HandleBarrier
  <2> QED
    BY ZenonT(60), <1>26, <2>1, <2>3 DEF HandleBarrier, channelVars, permitVars, emitterVars,
                             flushVars, promiseVars, orderVars
<1>27. CASE ReceivePublications
  <2> DEFINE b == Head(stack).id
  <2>1. b \in Task /\ Tail(stack) \in Seq(Frame)
    BY ZenonT(60), <1>18, <1>27 DEF ReceivePublications, Step, Frame
  <2>2. HandleFrames(taskBuffer[b]) \in Seq(Frame)
    <3>1. taskBuffer[b] \in Seq(DeliverMsg)
      BY ZenonT(60), <2>1
    <3>2. taskBuffer[b] \in Seq(PublicationMsg)
      BY SMTT(60), <3>1 DEF PublicationMsg
    <3> QED
      BY ZenonT(60), <3>2, HandleFramesType
  <2>3. <<[op |-> "release", id |-> b]>> \in Seq(Frame)
    BY Zenon, <2>1, OneFrame DEF Frame
  <2>4. stack' \in Seq(Frame)
    BY ZenonT(60), <1>27, <2>1, <2>2, <2>3, SeqConcat DEF ReceivePublications
  <2>5. taskBuffer' \in [Task -> Seq(DeliverMsg)]
    BY ZenonT(60), <1>27, <2>1, SeqEmpty DEF ReceivePublications
  <2> QED
    BY ZenonT(60), <1>27, <2>4, <2>5 DEF ReceivePublications, channelVars, permitVars,
                             flushVars, promiseVars, orderVars
<1>28. CASE ReleaseBarrier
  <2>1. /\ active' \subseteq Lineage
        /\ pendingFlushes' \in Seq(PendingFlush)
        /\ flush' \in [Flush -> {"idle", "waiting", "ok", "skipped", "failed"}]
    BY ZenonT(40), <1>28, CompleteReadyType DEF ReleaseBarrier
  <2> QED
    BY ZenonT(60), <1>18, <1>28, <2>1 DEF ReleaseBarrier, channelVars, emitterVars,
                              promiseVars, orderVars
<1> QED
  BY ZenonT(60), <1>1, <1>2, <1>3, <1>4, <1>5, <1>6, <1>7, <1>8, <1>9, <1>10, <1>11, <1>12, <1>13, <1>15,
     <1>16, <1>17, <1>22, <1>23, <1>24, <1>25, <1>26, <1>27, <1>28
     DEF Next, DispatcherStep

\* The dispatcher never leaves the states its types describe.
THEOREM TypeCorrect == Spec => []TypeOK
<1>1. Init => TypeOK
  BY SeqEmpty DEF Init, TypeOK, Lineage, Publication, Places, Delivery, Outcomes, Modes
<1>2. TypeOK /\ [Next]_vars => TypeOK'
  BY TypeStep
<1> QED
  BY <1>1, <1>2, PTL DEF Spec

-----------------------------------------------------------------------------
(* Positions of the elements of a sequence *)

\* Appending keeps the positions and adds the last one.
LEMMA AppendAt ==
    ASSUME NEW S, NEW s \in Seq(S), NEW m \in S
    PROVE  /\ Len(s) \in Nat
           /\ DOMAIN Append(s, m) = DOMAIN s \cup {Len(s) + 1}
           /\ \A j \in DOMAIN s : Append(s, m)[j] = s[j] /\ j \in Nat /\ j < Len(s) + 1
           /\ Append(s, m)[Len(s) + 1] = m
<1>1. Len(s) \in Nat /\ DOMAIN s = 1..Len(s)
  BY SeqLen
<1>2. /\ Append(s, m) \in Seq(S)
      /\ Len(Append(s, m)) = Len(s) + 1
      /\ \A j \in 1..Len(s) : Append(s, m)[j] = s[j]
      /\ Append(s, m)[Len(s) + 1] = m
  BY SeqAppend
<1>3. DOMAIN Append(s, m) = 1..(Len(s) + 1)
  BY <1>2, SeqLen
<1> QED
  BY <1>1, <1>2, <1>3

\* Taking the head moves the rest one position forward.
LEMMA TailAt ==
    ASSUME NEW S, NEW s \in Seq(S), s # <<>>
    PROVE  /\ 1 \in DOMAIN s /\ Head(s) = s[1]
           /\ \A j \in DOMAIN Tail(s) :
                 j \in Nat /\ j >= 1 /\ j + 1 \in DOMAIN s /\ Tail(s)[j] = s[j + 1]
           /\ \A j \in DOMAIN s :
                 /\ j \in Nat /\ j >= 1
                 /\ j # 1 => j - 1 \in DOMAIN Tail(s) /\ Tail(s)[j - 1] = s[j]
<1>1. Len(s) \in Nat /\ DOMAIN s = 1..Len(s)
  BY SeqLen
<1>2. Tail(s) \in Seq(S) /\ Len(Tail(s)) = Len(s) - 1 /\ Len(s) # 0
  BY SeqHeadTail, SeqEmpty
<1>3. \A j \in 1..(Len(s) - 1) : Tail(s)[j] = s[j + 1]
  BY <1>1, <1>2
<1>4. DOMAIN Tail(s) = 1..(Len(s) - 1)
  BY <1>2, SeqLen
<1>5. Head(s) = s[1]
  OBVIOUS
<1> QED
  BY <1>1, <1>2, <1>3, <1>4, <1>5

\* In a concatenation the second sequence is shifted by the length of the first.
LEMMA ConcatAt ==
    ASSUME NEW S, NEW s \in Seq(S), NEW t \in Seq(S)
    PROVE  /\ s \o t \in Seq(S) /\ Len(s) \in Nat
           /\ \A j \in DOMAIN s :
                 /\ j \in DOMAIN (s \o t) /\ (s \o t)[j] = s[j]
                 /\ j \in Nat /\ j >= 1 /\ j <= Len(s)
           /\ \A j \in DOMAIN t :
                 j \in Nat /\ j >= 1 /\ Len(s) + j \in DOMAIN (s \o t) /\ (s \o t)[Len(s) + j] = t[j]
           /\ \A j \in DOMAIN (s \o t) :
                 /\ j \in Nat
                 /\ \/ j \in DOMAIN s
                    \/ /\ j > Len(s) /\ j - Len(s) \in DOMAIN t
                       /\ (s \o t)[j] = t[j - Len(s)]
<1>1. /\ Len(s) \in Nat /\ DOMAIN s = 1..Len(s)
      /\ Len(t) \in Nat /\ DOMAIN t = 1..Len(t)
  BY SeqLen
<1>2. /\ s \o t \in Seq(S) /\ Len(s \o t) = Len(s) + Len(t)
      /\ \A i \in 1..(Len(s) + Len(t)) :
            (s \o t)[i] = IF i <= Len(s) THEN s[i] ELSE t[i - Len(s)]
  BY SeqConcat
<1>3. DOMAIN (s \o t) = 1..(Len(s) + Len(t))
  BY <1>2, SeqLen
<1> QED
  BY <1>1, <1>2, <1>3

-----------------------------------------------------------------------------
(* Messages of a sequence *)

\* A message that is pushed adds its id to those of a buffer.
LEMMA IdsAppend ==
    ASSUME NEW S, NEW s \in Seq(S), NEW m \in S
    PROVE  Ids(Append(s, m)) = Ids(s) \cup {m.id}
<1> DEFINE t == Append(s, m)
           k == Len(s) + 1
<1>1. DOMAIN t = DOMAIN s \cup {k} /\ (\A j \in DOMAIN s : t[j] = s[j]) /\ t[k] = m
  BY AppendAt
<1> HIDE DEF t, k
<1>2. Ids(t) \subseteq Ids(s) \cup {m.id}
  BY Zenon, <1>1 DEF Ids
<1>3. Ids(s) \subseteq Ids(t) /\ m.id \in Ids(t)
  BY Zenon, <1>1 DEF Ids
<1> QED
  BY <1>2, <1>3 DEF t

\* Receiving a publication takes its message from the channel.
LEMMA MsgsTail ==
    ASSUME NEW S, NEW q \in Seq(S), NEW X, q # <<>>, OwnsMsgs(q, X)
    PROVE  /\ Head(q).kind \in PublicationKinds
                 => Head(q).id \in X /\ OwnsMsgs(Tail(q), X \ {Head(q).id})
           /\ Head(q).kind \notin PublicationKinds => OwnsMsgs(Tail(q), X)
<1> USE TailAt
<1>1. CASE Head(q).kind \in PublicationKinds
  <2>1. Head(q).id \in X
    BY <1>1 DEF OwnsMsgs
  <2>2. \A j \in DOMAIN Tail(q) :
           Tail(q)[j].kind \in PublicationKinds => Tail(q)[j].id \in X \ {Head(q).id}
    BY <1>1 DEF OwnsMsgs
  <2>3. ASSUME NEW x \in X \ {Head(q).id}
        PROVE  \E j \in DOMAIN Tail(q) :
                  Tail(q)[j].kind \in PublicationKinds /\ Tail(q)[j].id = x
    <3>1. PICK j \in DOMAIN q : q[j].kind \in PublicationKinds /\ q[j].id = x
      BY DEF OwnsMsgs
    <3>2. j # 1
      BY <3>1, <1>1
    <3>3. j - 1 \in DOMAIN Tail(q) /\ Tail(q)[j - 1] = q[j]
      BY <3>2
    <3> QED
      BY ZenonT(60), <3>1, <3>3
  <2>4. \A i, j \in DOMAIN Tail(q) :
           /\ Tail(q)[i].kind \in PublicationKinds /\ Tail(q)[j].kind \in PublicationKinds
           /\ Tail(q)[i].id = Tail(q)[j].id
           => i = j
    BY <1>1 DEF OwnsMsgs
  <2> QED
    BY ZenonT(60), <1>1, <2>1, <2>2, <2>3, <2>4 DEF OwnsMsgs
<1>2. CASE Head(q).kind \notin PublicationKinds
  <2>1. \A j \in DOMAIN Tail(q) :
           Tail(q)[j].kind \in PublicationKinds => Tail(q)[j].id \in X
    BY <1>2 DEF OwnsMsgs
  <2>2. ASSUME NEW x \in X
        PROVE  \E j \in DOMAIN Tail(q) :
                  Tail(q)[j].kind \in PublicationKinds /\ Tail(q)[j].id = x
    <3>1. PICK j \in DOMAIN q : q[j].kind \in PublicationKinds /\ q[j].id = x
      BY ZenonT(60) DEF OwnsMsgs
    <3>2. j # 1
      BY <3>1, <1>2
    <3>3. j - 1 \in DOMAIN Tail(q) /\ Tail(q)[j - 1] = q[j]
      BY <3>2
    <3> QED
      BY ZenonT(60), <3>1, <3>3
  <2>3. \A i, j \in DOMAIN Tail(q) :
           /\ Tail(q)[i].kind \in PublicationKinds /\ Tail(q)[j].kind \in PublicationKinds
           /\ Tail(q)[i].id = Tail(q)[j].id
           => i = j
    BY <1>2 DEF OwnsMsgs
  <2> QED
    BY ZenonT(60), <1>2, <2>1, <2>2, <2>3 DEF OwnsMsgs
<1> QED
  BY ZenonT(60), <1>1, <1>2

\* The frame that is taken off loses its message, unless it held none.
LEMMA FramesTail ==
    ASSUME NEW st \in Seq(Frame), NEW X, st # <<>>, OwnsFrames(st, X)
    PROVE  /\ Head(st).op # "finish"
                 => Head(st).id \in X /\ OwnsFrames(Tail(st), X \ {Head(st).id})
           /\ Head(st).op = "finish" => OwnsFrames(Tail(st), X)
<1> USE TailAt
<1>1. CASE Head(st).op # "finish"
  <2>1. Head(st).id \in X
    BY <1>1 DEF OwnsFrames
  <2>2. \A j \in DOMAIN Tail(st) : Tail(st)[j].op # "finish" => Tail(st)[j].id \in X \ {Head(st).id}
    BY <1>1 DEF OwnsFrames
  <2>3. ASSUME NEW x \in X \ {Head(st).id}
        PROVE  \E j \in DOMAIN Tail(st) : Tail(st)[j].op # "finish" /\ Tail(st)[j].id = x
    <3>1. PICK j \in DOMAIN st : st[j].op # "finish" /\ st[j].id = x
      BY DEF OwnsFrames
    <3>2. j # 1
      BY ZenonT(60), <3>1, <1>1
    <3>3. j - 1 \in DOMAIN Tail(st) /\ Tail(st)[j - 1] = st[j]
      BY <3>2
    <3> QED
      BY ZenonT(60), <3>1, <3>3
  <2>4. \A i, j \in DOMAIN Tail(st) :
           Tail(st)[i].op # "finish" /\ Tail(st)[j].op # "finish" /\ Tail(st)[i].id = Tail(st)[j].id
           => i = j
    BY <1>1 DEF OwnsFrames
  <2> QED
    BY ZenonT(60), <1>1, <2>1, <2>2, <2>3, <2>4 DEF OwnsFrames
<1>2. CASE Head(st).op = "finish"
  <2>1. \A j \in DOMAIN Tail(st) : Tail(st)[j].op # "finish" => Tail(st)[j].id \in X
    BY <1>2 DEF OwnsFrames
  <2>2. ASSUME NEW x \in X
        PROVE  \E j \in DOMAIN Tail(st) : Tail(st)[j].op # "finish" /\ Tail(st)[j].id = x
    <3>1. PICK j \in DOMAIN st : st[j].op # "finish" /\ st[j].id = x
      BY DEF OwnsFrames
    <3>2. j # 1
      BY <3>1, <1>2
    <3>3. j - 1 \in DOMAIN Tail(st) /\ Tail(st)[j - 1] = st[j]
      BY ZenonT(60), <3>2
    <3> QED
      BY ZenonT(60), <3>1, <3>3
  <2>3. \A i, j \in DOMAIN Tail(st) :
           Tail(st)[i].op # "finish" /\ Tail(st)[j].op # "finish" /\ Tail(st)[i].id = Tail(st)[j].id
           => i = j
    BY <1>2 DEF OwnsFrames
  <2> QED
    BY ZenonT(60), <1>2, <2>1, <2>2, <2>3 DEF OwnsFrames
<1> QED
  BY ZenonT(60), <1>1, <1>2

\* The frames of a buffer hold the messages of the buffer.
LEMMA FramesOf ==
    ASSUME NEW ms \in Seq(PublicationMsg), NEW X, OwnsMsgs(ms, X)
    PROVE  HandleFrames(ms) \in Seq(Frame) /\ OwnsFrames(HandleFrames(ms), X) /\ X = Ids(ms)
<1>1. \A j \in DOMAIN ms : ms[j].kind \in PublicationKinds
  BY DEF PublicationMsg, DeliverMsg, PublicationKinds
<1>2. DOMAIN HandleFrames(ms) = DOMAIN ms
  BY DEF HandleFrames
<1>3. \A j \in DOMAIN ms : HandleFrames(ms)[j].op # "finish" /\ HandleFrames(ms)[j].id = ms[j].id
  BY DEF HandleFrames
<1>4. OwnsFrames(HandleFrames(ms), X)
  BY <1>1, <1>2, <1>3 DEF OwnsFrames, OwnsMsgs
<1>5. X = Ids(ms)
  BY <1>1 DEF OwnsMsgs, Ids
<1> QED
  BY ZenonT(60), <1>4, <1>5, HandleFramesType

-----------------------------------------------------------------------------
(* What the proofs assume of a state *)

Own == OwnedQueue /\ OwnedStack /\ OwnedNested /\ OwnedTask /\ OwnedDelivering

-----------------------------------------------------------------------------
(* Steps of the dispatcher thread: where it moves messages *)

\* A delivery in some stage is not the idle one.
LEMMA InDelivery ==
    ASSUME TypeOK
    PROVE  /\ delivering.stage # "idle" => delivering.event \in Event /\ delivering # NoDelivery
           /\ delivering.stage = "idle" => delivering = NoDelivery /\ delivering.event = None
BY SMTT(60) DEF TypeOK, Delivery, NoDelivery, MiddlewareStages

\* Where one step of the dispatcher thread can take a message.
Onward(from, to) ==
    \/ to = from
    \/ from \in {"queue", "nested", "task"} /\ to = "stack"
    \/ from = "stack" /\ to \in {"delivering", "gone"}
    \/ from = "delivering" /\ to = "gone"

\* A step of the dispatcher thread emits nothing and moves messages onward.
LEMMA DispatcherMoves ==
    ASSUME TypeOK, Own, DispatcherStep
    PROVE  /\ UNCHANGED <<lineage, foreign, task, owed, atCall, mode>>
           /\ \A y \in Publication : Onward(place[y], place'[y])
<1> USE DEF permitVars, emitterVars, flushVars, promiseVars
<1>1. ASSUME NEW x \in Publication, NEW to, Onward(place[x], to), Move({x}, to)
      PROVE  \A y \in Publication : Onward(place[y], place'[y])
  BY ZenonT(60), <1>1 DEF Move, Onward
<1>2. ASSUME UNCHANGED place
      PROVE  \A y \in Publication : Onward(place[y], place'[y])
  BY <1>2 DEF Onward
<1>3. ASSUME NEW e \in Event, NEW r, NEW rest, EndDelivery(e, r, rest),
             place[e] \in {"stack", "delivering"}
      PROVE  \A y \in Publication : Onward(place[y], place'[y])
  <2>1. InPlace("nested") = Ids(nested)
    BY ZenonT(60), FramesOf DEF TypeOK, Own, OwnedNested
  <2>2. \A y \in Publication :
           place'[y] = IF y = e THEN "gone" ELSE IF y \in InPlace("nested") THEN "stack" ELSE place[y]
    BY ZenonT(60), <1>3, <2>1 DEF EndDelivery
  <2> QED
    BY ZenonT(60), <1>3, <2>2 DEF Onward, InPlace
<1>4. ASSUME NEW e \in Event, NEW pt, NEW rest, Advance(e, pt, rest),
             place[e] \in {"stack", "delivering"}
      PROVE  \A y \in Publication : Onward(place[y], place'[y])
  <2>1. CASE pt[1] = "drop"
    BY Zenon, <1>3, <1>4, <2>1 DEF Advance
  <2>2. CASE pt[1] # "drop"
    <3>1. Move({e}, "delivering") /\ e \in Publication
      BY ZenonT(60), <1>4, <2>2 DEF Advance, Publication
    <3> QED
      BY ZenonT(60), <1>1, <1>4, <3>1 DEF Onward
  <2> QED
    BY <2>1, <2>2
<1>5. stack # <<>> /\ Head(stack).op # "finish" => Head(stack).id \in Publication /\ place[Head(stack).id] = "stack"
  <2> SUFFICES ASSUME stack # <<>>, Head(stack).op # "finish"
               PROVE  Head(stack).id \in Publication /\ place[Head(stack).id] = "stack"
    OBVIOUS
  <2>1. Head(stack).id \in InPlace("stack")
    BY Zenon, FramesTail DEF TypeOK, Own, OwnedStack
  <2> QED
    BY <2>1 DEF InPlace
<1>6. CASE HandleFlush \/ HandleRegisterPending \/ HandleCompletePending \/ FinishDeliver \/ HandleBarrier
  <2>1. UNCHANGED <<lineage, foreign, task, owed, atCall, mode, place>>
    BY Zenon, <1>6 DEF HandleFlush, HandleRegisterPending, HandleCompletePending, FinishDeliver, HandleBarrier
  <2> QED
    BY ZenonT(60), <1>2, <2>1
<1>7. CASE ReceivePublication
  <2> DEFINE x == Head(queue).id
  <2>1. /\ Move({x}, "stack") /\ UNCHANGED <<lineage, foreign, task, owed, atCall, mode>>
        /\ queue \in Seq(Message) /\ queue # <<>> /\ Head(queue).kind \in PublicationKinds
    BY Zenon, <1>7 DEF ReceivePublication, Receive, PublicationKinds, TypeOK
  <2>2. x \in InPlace("queue")
    BY Zenon, <2>1, MsgsTail DEF Own, OwnedQueue
  <2> HIDE DEF x
  <2>3. x \in Publication /\ place[x] = "queue"
    BY <2>2 DEF InPlace
  <2> QED
    BY Zenon, <1>1, <2>1, <2>3 DEF Onward
<1>8. CASE HandleDeliver
  <2> DEFINE e == Head(stack).id
  <2>1. /\ e \in Event /\ \E pt \in EnterTransform(e) : Advance(e, pt, Tail(stack))
        /\ UNCHANGED <<lineage, foreign, task, owed, atCall, mode>>
        /\ stack # <<>> /\ Head(stack).op # "finish"
    BY <1>8 DEF HandleDeliver, Step
  <2> QED
    BY ZenonT(60), <1>4, <1>5, <2>1
<1>9. CASE EndStage \/ EndSubscribers
  <2> DEFINE e == delivering.event
  <2>1. /\ e \in Event /\ UNCHANGED <<lineage, foreign, task, owed, atCall, mode>>
        /\ \/ \E pt \in AfterStage(delivering) : Advance(e, pt, stack)
           \/ EndDelivery(e, delivering.view, stack)
    BY ZenonT(60), <1>9, InDelivery DEF EndStage, EndSubscribers, MiddlewareStages
  <2>2. place[e] = "delivering"
    BY <2>1 DEF Own, OwnedDelivering, Publication
  <2> QED
    BY ZenonT(60), <1>3, <1>4, <2>1, <2>2
<1>10. CASE ReceivePublications
  <2> DEFINE b == Head(stack).id
             X == Ids(taskBuffer[b])
  <2>1. /\ UNCHANGED <<lineage, foreign, task, owed, atCall, mode>> /\ Move(X, "stack")
        /\ stack \in Seq(Frame) /\ stack # <<>> /\ Head(stack).op = "await"
    BY ZenonT(60), <1>10 DEF ReceivePublications, Step, TypeOK
  <2>2. b \in Task
    BY <2>1, SeqHeadTail DEF Frame
  <2>3. X \subseteq InPlace("task")
    BY <2>2 DEF Own, OwnedTask
  <2> HIDE DEF X
  <2> QED
    BY <2>1, <2>3 DEF Move, InPlace, Onward
<1>11. CASE ReleaseBarrier
  <2>1. /\ Move({Head(stack).id}, "gone") /\ UNCHANGED <<lineage, foreign, task, owed, atCall, mode>>
        /\ stack # <<>> /\ Head(stack).op # "finish"
    BY <1>11 DEF ReleaseBarrier, Step
  <2>2. Head(stack).id \in Publication /\ place[Head(stack).id] = "stack"
    BY <1>5, <2>1
  <2> QED
    BY ZenonT(60), <1>1, <2>1, <2>2 DEF Onward
<1> QED
  BY ZenonT(60), <1>6, <1>7, <1>8, <1>9, <1>10, <1>11 DEF DispatcherStep

-----------------------------------------------------------------------------
(* Deferred flushes *)

\* What is left of a sequence without its first n elements.
LEMMA SubSeqAt ==
    ASSUME NEW S, NEW s \in Seq(S), NEW n \in 0 .. Len(s)
    PROVE  /\ SubSeq(s, n + 1, Len(s)) \in Seq(S)
           /\ Len(SubSeq(s, n + 1, Len(s))) = Len(s) - n
           /\ \A i \in 1 .. Len(s) - n : SubSeq(s, n + 1, Len(s))[i] = s[n + i]
<1>1. Len(s) \in Nat
  BY Zenon, SeqLen
<1>2. SubSeq(s, n + 1, Len(s)) \in Seq(S)
  BY <1>1
<1>3. Len(SubSeq(s, n + 1, Len(s))) = Len(s) - n
  BY <1>1
<1>4. \A i \in 1 .. Len(s) - n : SubSeq(s, n + 1, Len(s))[i] = s[n + i]
  BY <1>1
<1> QED
  BY Zenon, <1>2, <1>3, <1>4

\* The positions of what is left when the first n of the deferred flushes are drained.
LEMMA DrainAt ==
    ASSUME NEW pf \in Seq(PendingFlush), NEW n \in 0 .. Len(pf), NEW pr, pr = SubSeq(pf, n + 1, Len(pf))
    PROVE  /\ \A i \in DOMAIN pr : i \in Nat /\ n + i \in DOMAIN pf /\ pr[i] = pf[n + i] /\ n + i \notin 1 .. n
           /\ \A i \in DOMAIN pf : i \in Nat /\ (i \notin 1 .. n => i - n \in DOMAIN pr /\ pr[i - n] = pf[i])
<1>1. Len(pf) \in Nat /\ DOMAIN pf = 1 .. Len(pf)
  BY Zenon, SeqLen
<1>2. /\ Len(SubSeq(pf, n + 1, Len(pf))) = Len(pf) - n
      /\ \A i \in 1 .. Len(pf) - n : SubSeq(pf, n + 1, Len(pf))[i] = pf[n + i]
  BY Zenon, SubSeqAt
<1>3. pr \in Seq(PendingFlush)
  BY Zenon, SubSeqAt
<1>4. DOMAIN pr = 1 .. Len(pf) - n
  BY Zenon, <1>2, <1>3, SeqLen
<1>5. \A i \in DOMAIN pr : i \in Nat /\ n + i \in DOMAIN pf /\ pr[i] = pf[n + i] /\ n + i \notin 1 .. n
  <2>1. \A i \in 1 .. Len(pf) - n : i \in Nat /\ n + i \in 1 .. Len(pf) /\ n + i \notin 1 .. n
    BY <1>1
  <2> QED
    BY Zenon, <1>1, <1>2, <1>4, <2>1
<1>6. \A i \in DOMAIN pf : i \in Nat /\ (i \notin 1 .. n => i - n \in DOMAIN pr /\ pr[i - n] = pf[i])
  <2>1. \A i \in 1 .. Len(pf) : i \in Nat /\ (i \notin 1 .. n => i - n \in 1 .. Len(pf) - n /\ n + (i - n) = i)
    BY <1>1
  <2> QED
    BY Zenon, <1>1, <1>2, <1>4, <2>1
<1> QED
  BY Zenon, <1>5, <1>6

-----------------------------------------------------------------------------
(* The stack of the dispatcher thread *)

\* The head frame was dealt with; pre has replaced it.
HeadDone(pre) ==
    /\ stack # <<>> /\ delivering.stage = "idle"
    /\ Head(stack).op = "release" => Head(stack).id \notin permits'
    /\ \/ Head(stack).op = "finish"
       \/ Head(stack).id \notin permits'
       \/ delivering'.event = Head(stack).id
       \/ /\ Len(pre) \in DOMAIN pre
          /\ pre[Len(pre)].op # "finish" /\ pre[Len(pre)].id = Head(stack).id

\* Only the head of the stack is worked on; the frames below stay, in order.
StackStep(pre, s) ==
    /\ stack' = pre \o s
    /\ \A j \in DOMAIN pre :
          pre[j].op = "release" => ReceivePublications /\ pre[j].id = Head(stack).id
    /\ s = stack \/ (s = Tail(stack) /\ HeadDone(pre))

\* The frames of nested publications, and the finish frame after them.
LEMMA EndFrames ==
    ASSUME TypeOK, NEW e \in Event, NEW r, NEW rest \in Seq(Frame), EndDelivery(e, r, rest)
    PROVE  \E pre \in Seq(Frame) :
              /\ stack' = pre \o rest /\ \A j \in DOMAIN pre : pre[j].op # "release"
              /\ e \notin permits'
<1> DEFINE hs == HandleFrames(nested)
           fin == [op |-> "finish", id |-> e]
<1>1. hs \in Seq(Frame) /\ \A j \in DOMAIN hs : hs[j].op = "handle"
  BY ZenonT(60), HandleFramesType DEF HandleFrames, TypeOK
<1>2. fin \in Frame /\ fin.op = "finish"
  BY DEF Frame
<1>3. stack' = (hs \o <<fin>>) \o rest /\ e \notin permits'
  BY DEF EndDelivery
<1> HIDE DEF hs, fin
<1>4. <<fin>> \in Seq(Frame) /\ DOMAIN <<fin>> = {1} /\ <<fin>>[1] = fin
  BY <1>2
<1>5. hs \o <<fin>> \in Seq(Frame) /\ \A j \in DOMAIN (hs \o <<fin>>) : (hs \o <<fin>>)[j].op # "release"
  BY <1>1, <1>2, <1>4, ConcatAt
<1> QED
  BY ZenonT(60), <1>3, <1>5

\* What a step of the dispatcher does to the frames below the one it works on.
LEMMA StackShift ==
    ASSUME TypeOK, Own, DispatcherStep, ~ReceivePublication
    PROVE  \E pre \in Seq(Frame), s \in Seq(Frame) : StackStep(pre, s)
<1>0. /\ stack \in Seq(Frame) /\ <<>> \in Seq(Frame) /\ DOMAIN <<>> = {}
      /\ stack # <<>> => Tail(stack) \in Seq(Frame) /\ Head(stack) \in Frame
      /\ \A s \in Seq(Frame) : s = <<>> \o s
  BY SeqEmpty, SeqHeadTail, SeqConcatEmpty DEF TypeOK
<1>1. CASE HandleFlush \/ HandleRegisterPending \/ HandleCompletePending
  <2>1. stack' = stack
    BY Zenon, <1>1 DEF HandleFlush, HandleRegisterPending, HandleCompletePending
  <2> QED
    BY Zenon, <1>0, <2>1 DEF StackStep
<1>2. CASE FinishDeliver
  <2>1. /\ stack' = Tail(stack) /\ stack # <<>> /\ delivering.stage = "idle"
        /\ Head(stack).op = "finish"
    BY Zenon, <1>2 DEF FinishDeliver, Step
  <2>2. HeadDone(<<>>)
    BY <2>1 DEF HeadDone
  <2> QED
    BY Zenon, <1>0, <2>1, <2>2 DEF StackStep
<1>3. CASE ReleaseBarrier
  <2>1. /\ stack' = Tail(stack) /\ stack # <<>> /\ delivering.stage = "idle"
        /\ Head(stack).id \notin permits'
    BY Zenon, <1>3 DEF ReleaseBarrier, Step
  <2>2. HeadDone(<<>>)
    BY <2>1 DEF HeadDone
  <2> QED
    BY Zenon, <1>0, <2>1, <2>2 DEF StackStep
<1>4. CASE HandleBarrier
  <2> DEFINE aw == [op |-> "await", id |-> Head(stack).id]
  <2>1. /\ stack' = <<aw>> \o Tail(stack) /\ stack # <<>> /\ Head(stack).op = "handle"
        /\ delivering.stage = "idle"
        /\ aw \in Frame /\ aw.op = "await" /\ aw.id = Head(stack).id
    BY Zenon, <1>4 DEF HandleBarrier, Step, Frame
  <2> HIDE DEF aw
  <2>2. <<aw>> \in Seq(Frame) /\ Len(<<aw>>) = 1 /\ DOMAIN <<aw>> = {1} /\ <<aw>>[1] = aw
    BY <2>1
  <2>3. HeadDone(<<aw>>)
    BY ZenonT(60), <2>1, <2>2 DEF HeadDone
  <2> QED
    BY Zenon, <1>0, <2>1, <2>2, <2>3 DEF StackStep
<1>5. CASE ReceivePublications
  <2> DEFINE b == Head(stack).id
             hs == HandleFrames(taskBuffer[b])
             rel == [op |-> "release", id |-> b]
  <2>1. /\ stack' = (hs \o <<rel>>) \o Tail(stack) /\ stack # <<>> /\ Head(stack).op = "await"
        /\ delivering.stage = "idle"
    BY ZenonT(60), <1>5 DEF ReceivePublications, Step
  <2>2. b \in Task
    BY ZenonT(60), <1>0, <2>1 DEF Frame
  <2>3. hs \in Seq(Frame) /\ \A j \in DOMAIN hs : hs[j].op = "handle"
    <3>1. taskBuffer[b] \in Seq(DeliverMsg)
      BY Zenon, <2>2 DEF TypeOK
    <3>2. taskBuffer[b] \in Seq(PublicationMsg)
      BY <3>1 DEF PublicationMsg
    <3> QED
      BY Zenon, <3>2, HandleFramesType DEF HandleFrames
  <2>4. rel \in Frame /\ rel.op = "release" /\ rel.id = b
    BY <2>2 DEF Frame
  <2> HIDE DEF hs, rel, b
  <2>5. <<rel>> \in Seq(Frame) /\ Len(<<rel>>) = 1 /\ DOMAIN <<rel>> = {1} /\ <<rel>>[1] = rel
    BY <2>4
  <2> DEFINE pre == hs \o <<rel>>
  <2>6. /\ pre \in Seq(Frame) /\ Len(pre) = Len(hs) + 1 /\ Len(hs) \in Nat
        /\ \A j \in DOMAIN pre : pre[j].op = "release" => pre[j] = rel
        /\ Len(hs) + 1 \in DOMAIN pre /\ pre[Len(hs) + 1] = rel
    BY SMTT(60), <2>3, <2>4, <2>5, ConcatAt, SeqConcat
  <2> HIDE DEF pre
  <2>7. HeadDone(pre)
    BY ZenonT(60), <2>1, <2>4, <2>6 DEF HeadDone, b
  <2>8. StackStep(pre, Tail(stack))
    BY ZenonT(60), <1>5, <2>1, <2>4, <2>6, <2>7 DEF StackStep, pre, b
  <2> QED
    BY Zenon, <1>0, <2>1, <2>6, <2>8
<1>6. ASSUME NEW e \in Event, NEW pt, NEW rest \in Seq(Frame), Advance(e, pt, rest)
      PROVE  \E pre \in Seq(Frame) :
                /\ stack' = pre \o rest /\ \A j \in DOMAIN pre : pre[j].op # "release"
                /\ e \notin permits' \/ delivering'.event = e
  <2>1. CASE pt[1] = "drop"
    BY Zenon, <1>6, <2>1, EndFrames DEF Advance
  <2>2. CASE pt[1] # "drop"
    <3>1. stack' = rest /\ delivering'.event = e
      BY <1>6, <2>2 DEF Advance
    <3> QED
      BY Zenon, <1>0, <3>1
  <2> QED
    BY ZenonT(60), <2>1, <2>2
<1>7. CASE HandleDeliver
  <2>1. /\ stack # <<>> /\ Head(stack).op = "handle" /\ Head(stack).id \in Event
        /\ delivering.stage = "idle"
        /\ \E pt \in EnterTransform(Head(stack).id) : Advance(Head(stack).id, pt, Tail(stack))
    BY Zenon, <1>7 DEF HandleDeliver, Step
  <2>2. PICK pre \in Seq(Frame) :
           /\ stack' = pre \o Tail(stack) /\ \A j \in DOMAIN pre : pre[j].op # "release"
           /\ Head(stack).id \notin permits' \/ delivering'.event = Head(stack).id
    BY Zenon, <1>0, <1>6, <2>1
  <2>3. HeadDone(pre)
    BY <2>1, <2>2 DEF HeadDone
  <2> QED
    BY Zenon, <1>0, <2>1, <2>2, <2>3 DEF StackStep
<1>8. CASE EndStage \/ EndSubscribers
  <2>1. /\ delivering.event \in Event
        /\ \/ \E pt \in AfterStage(delivering) : Advance(delivering.event, pt, stack)
           \/ EndDelivery(delivering.event, delivering.view, stack)
    BY ZenonT(60), <1>8, InDelivery DEF EndStage, EndSubscribers, MiddlewareStages
  <2>2. PICK pre \in Seq(Frame) :
           stack' = pre \o stack /\ \A j \in DOMAIN pre : pre[j].op # "release"
    <3>1. CASE \E pt \in AfterStage(delivering) : Advance(delivering.event, pt, stack)
      BY ZenonT(40), <1>0, <1>6, <2>1, <3>1
    <3>2. CASE EndDelivery(delivering.event, delivering.view, stack)
      BY Zenon, <1>0, <2>1, <3>2, EndFrames
    <3> QED
      BY Zenon, <2>1, <3>1, <3>2
  <2> QED
    BY Zenon, <1>0, <2>2 DEF StackStep
<1> QED
  BY ZenonT(60), <1>1, <1>2, <1>3, <1>4, <1>5, <1>7, <1>8 DEF DispatcherStep

-----------------------------------------------------------------------------
(* Buffers, lineages and permits *)

\* What the dispatcher thread does to the buffers of tasks.
LEMMA DispatcherBuffers ==
    ASSUME TypeOK, DispatcherStep
    PROVE  \/ UNCHANGED taskBuffer
           \/ /\ ReceivePublications /\ Head(stack).id \in Task
              /\ task[Head(stack).id] \in {"published", "dropped"}
              /\ \A c \in Task : taskBuffer'[c] = IF c = Head(stack).id THEN <<>> ELSE taskBuffer[c]
<1>1. CASE ReceivePublications
  <2>1. /\ stack \in Seq(Frame) /\ stack # <<>> /\ Head(stack).op = "await"
        /\ taskBuffer' = [taskBuffer EXCEPT ![Head(stack).id] = <<>>]
        /\ task[Head(stack).id] \in {"published", "dropped"}
    BY ZenonT(60), <1>1 DEF ReceivePublications, Step, TypeOK
  <2>2. Head(stack).id \in Task
    BY SMTT(60), <2>1, SeqHeadTail DEF Frame
  <2> QED
    BY ZenonT(60), <1>1, <2>1, <2>2 DEF TypeOK
<1>2. CASE ~ReceivePublications
  BY ZenonT(60), <1>2 DEF DispatcherStep, HandleFlush, HandleRegisterPending, HandleCompletePending,
              ReceivePublication, HandleDeliver, EndStage, EndSubscribers, FinishDeliver,
              HandleBarrier, ReleaseBarrier, emitterVars
<1> QED
  BY ZenonT(60), <1>1, <1>2

\* complete_ready_flushes keeps the lineages on which a permit is alive.
LEMMA CompleteReadyActive ==
    ASSUME NEW pf, NEW reg, NEW fs, CompleteReadyFlushes(pf, reg, fs),
           NEW x \in permits', lineage[x] \in reg
    PROVE  lineage[x] \in active'
BY ZenonT(60) DEF CompleteReadyFlushes

\* A lineage with a live permit stays registered with the dispatcher.
LEMMA DispatcherActive ==
    ASSUME TypeOK, DispatcherStep, NEW x, x \in permits'
    PROVE  /\ lineage[x] \in active => lineage[x] \in active'
           /\ HandleRegisterPending /\ lineage[x] = Head(queue).id => lineage[x] \in active'
<1>1. ASSUME NEW pf, NEW reg, NEW fs, active \subseteq reg, CompleteReadyFlushes(pf, reg, fs)
      PROVE  lineage[x] \in active => lineage[x] \in active'
  BY ZenonT(60), <1>1, CompleteReadyActive
<1>10. ASSUME ReceivePublication
       PROVE  lineage[x] \in active => lineage[x] \in active'
  BY ZenonT(60), <1>10 DEF ReceivePublication
<1>11. ASSUME HandleDeliver
       PROVE  lineage[x] \in active => lineage[x] \in active'
  BY ZenonT(60), <1>11 DEF HandleDeliver
<1>12. ASSUME EndStage
       PROVE  lineage[x] \in active => lineage[x] \in active'
  BY ZenonT(60), <1>12 DEF EndStage
<1>13. ASSUME EndSubscribers
       PROVE  lineage[x] \in active => lineage[x] \in active'
  BY ZenonT(60), <1>13 DEF EndSubscribers
<1>14. ASSUME HandleBarrier
       PROVE  lineage[x] \in active => lineage[x] \in active'
  BY ZenonT(60), <1>14 DEF HandleBarrier
<1>15. ASSUME ReceivePublications
       PROVE  lineage[x] \in active => lineage[x] \in active'
  BY ZenonT(60), <1>15 DEF ReceivePublications
<1>20. ASSUME FinishDeliver
       PROVE  lineage[x] \in active => lineage[x] \in active'
  <2>1. CompleteReadyFlushes(pendingFlushes, active, flush)
    BY ZenonT(60), <1>20 DEF FinishDeliver
  <2> QED
    BY ZenonT(60), <1>1, <2>1
<1>21. ASSUME ReleaseBarrier
       PROVE  lineage[x] \in active => lineage[x] \in active'
  <2>1. CompleteReadyFlushes(pendingFlushes, active, flush)
    BY ZenonT(60), <1>21 DEF ReleaseBarrier
  <2> QED
    BY <1>1, <2>1
<1>22. ASSUME HandleRegisterPending
       PROVE  lineage[x] \in active => lineage[x] \in active'
  <2>1. CompleteReadyFlushes(pendingFlushes, active \cup {Head(queue).id}, flush)
    BY ZenonT(60), <1>22 DEF HandleRegisterPending
  <2> QED
    BY ZenonT(60), <1>1, <2>1
<1>23. ASSUME HandleCompletePending
       PROVE  lineage[x] \in active => lineage[x] \in active'
  <2>1. CompleteReadyFlushes(pendingFlushes, active \cup {Head(queue).id}, flush)
    BY ZenonT(60), <1>23 DEF HandleCompletePending
  <2> QED
    BY <1>1, <2>1
<1>24. ASSUME HandleFlush
       PROVE  lineage[x] \in active => lineage[x] \in active'
  <2>1. PICK pf, fs : CompleteReadyFlushes(pf, active, fs)
    BY ZenonT(60), <1>24 DEF HandleFlush
  <2> QED
    BY ZenonT(60), <1>1, <2>1
<1>6. HandleRegisterPending /\ lineage[x] = Head(queue).id => lineage[x] \in active'
  <2> SUFFICES ASSUME HandleRegisterPending, lineage[x] = Head(queue).id
               PROVE  lineage[x] \in active'
    BY ZenonT(60)
  <2>1. CompleteReadyFlushes(pendingFlushes, active \cup {Head(queue).id}, flush)
    BY ZenonT(60) DEF HandleRegisterPending
  <2> QED
    BY <2>1, CompleteReadyActive
<1> QED
  BY ZenonT(60), <1>6, <1>10, <1>11, <1>12, <1>13, <1>14, <1>15, <1>20, <1>21, <1>22, <1>23, <1>24 DEF DispatcherStep

\* Working on the stack drops at most the permit of one publication.
LEMMA PermitsDropped ==
    ASSUME TypeOK, \/ HandleDeliver \/ EndStage \/ EndSubscribers \/ FinishDeliver \/ HandleBarrier
                   \/ ReceivePublications \/ ReleaseBarrier
    PROVE  permits' = permits \/ \E x \in Publication : permits' = permits \ {x}
<1> Event \subseteq Publication /\ Task \subseteq Publication
  BY ZenonT(60) DEF Publication
<1>1. ASSUME NEW e \in Event, NEW pt, NEW rest, Advance(e, pt, rest)
      PROVE  permits' = permits \/ \E x \in Publication : permits' = permits \ {x}
  BY Zenon, <1>1 DEF Advance, EndDelivery
<1>2. CASE HandleDeliver
  <2>1. PICK pt : Advance(Head(stack).id, pt, Tail(stack))
    BY Zenon, <1>2 DEF HandleDeliver
  <2> QED
    BY ZenonT(60), <1>1, <1>2, <2>1 DEF HandleDeliver
<1>3. CASE EndStage
  <2>1. PICK pt : Advance(delivering.event, pt, stack)
    BY ZenonT(60), <1>3 DEF EndStage
  <2> QED
    BY ZenonT(60), <1>1, <1>3, <2>1, InDelivery DEF EndStage, MiddlewareStages
<1>4. CASE EndSubscribers
  BY Zenon, <1>4, InDelivery DEF EndSubscribers, EndDelivery
<1>5. CASE FinishDeliver \/ HandleBarrier \/ ReceivePublications
  BY ZenonT(60), <1>5 DEF FinishDeliver, HandleBarrier, ReceivePublications, permitVars
<1>6. CASE ReleaseBarrier
  <2>1. /\ stack \in Seq(Frame) /\ stack # <<>> /\ Head(stack).op = "release"
        /\ permits' = permits \ {Head(stack).id}
    BY ZenonT(60), <1>6 DEF ReleaseBarrier, Step, TypeOK
  <2>2. Head(stack).id \in Task
    BY <2>1, SeqHeadTail DEF Frame
  <2> QED
    BY ZenonT(60), <2>1, <2>2
<1> QED
  BY ZenonT(60), <1>2, <1>3, <1>4, <1>5, <1>6

-----------------------------------------------------------------------------
(* Sending *)

\* The positions of the channel after a message is sent.
LEMMA SentAt ==
    ASSUME queue \in Seq(Message), NEW m \in Message, queue' = Append(queue, m)
    PROVE  /\ \A j \in DOMAIN queue : j \in DOMAIN queue' /\ queue'[j] = queue[j]
           /\ \A j \in DOMAIN queue' : \/ j \in DOMAIN queue /\ queue'[j] = queue[j]
                                       \/ j = Len(queue) + 1 /\ queue'[j] = m
           /\ Len(queue) + 1 \in DOMAIN queue' /\ queue'[Len(queue) + 1] = m
<1>1. /\ DOMAIN Append(queue, m) = DOMAIN queue \cup {Len(queue) + 1}
      /\ \A j \in DOMAIN queue : Append(queue, m)[j] = queue[j]
      /\ Append(queue, m)[Len(queue) + 1] = m
  BY SMTT(60), AppendAt
<1> QED
  BY ZenonT(60), <1>1

OwnershipInv == Own /\ PermitInv /\ LineageInv /\ TaskInv /\ PendingInv

-----------------------------------------------------------------------------
(* What subscribers are shown *)

\* Each way on from a stage keeps to what the event may show: sanitize_event_snapshot
\* clears the fields, or drops the event, where a stage was not run.
LEMMA ShownPoints ==
    ASSUME NEW e \in Event
    PROVE  /\ \A pt \in EnterTransform(e) :
                 pt[1] # "drop" => Shown([event |-> e, stage |-> pt[1], view |-> pt[2]])
           /\ \A d \in Delivery : d.stage \in MiddlewareStages /\ d.event = e /\ Shown(d) =>
                 \A pt \in AfterStage(d) :
                    pt[1] # "drop" => Shown([event |-> e, stage |-> pt[1], view |-> pt[2]])
<1>1. \A v : (v = "raw" => e \notin Transformed) =>
         \A pt \in EnterInject(e, v) : Shown([event |-> e, stage |-> pt[1], view |-> pt[2]])
  BY DEF EnterInject, EnterSanitize, Shown
<1>2. ASSUME NEW pt \in EnterTransform(e), pt[1] # "drop"
      PROVE  Shown([event |-> e, stage |-> pt[1], view |-> pt[2]])
  <2>1. CASE e \in Transformed
    BY <1>2, <2>1 DEF EnterTransform, Shown
  <2>2. CASE e \notin Transformed
    <3>1. pt \in EnterInject(e, "raw")
      BY Zenon, <1>2, <2>2 DEF EnterTransform
    <3> QED
      BY <1>1, <2>2, <3>1
  <2> QED
    BY <2>1, <2>2
<1>3. ASSUME NEW d \in Delivery, d.stage \in MiddlewareStages, d.event = e, Shown(d),
             NEW pt \in AfterStage(d), pt[1] # "drop"
      PROVE  Shown([event |-> e, stage |-> pt[1], view |-> pt[2]])
  <2>1. CASE d.stage = "transform"
    <3>1. pt \in EnterInject(e, "transformed")
      BY <1>3, <2>1 DEF AfterStage
    <3> QED
      BY <1>1, <3>1
  <2>2. CASE d.stage = "inject"
    <3>1. pt \in EnterInject(e, d.view)
      BY <1>3, <2>2 DEF AfterStage, EnterInject
    <3>2. d.view = "raw" => e \notin Transformed
      BY <1>3, <2>2 DEF Shown
    <3> QED
      BY <1>1, <3>1, <3>2
  <2>3. CASE d.stage = "sanitize"
    BY <1>3, <2>3 DEF AfterStage, Shown
  <2> QED
    BY <1>3, <2>1, <2>2, <2>3 DEF MiddlewareStages
<1> QED
  BY Zenon, <1>2, <1>3

\* Advancing to a stage that may show what it shows, or ending the delivery.
LEMMA ShownAdvance ==
    ASSUME TypeOK, FailClosed, NEW e \in Event, NEW pt, NEW rest, Advance(e, pt, rest),
           pt[1] # "drop" => Shown([event |-> e, stage |-> pt[1], view |-> pt[2]])
    PROVE  ShownInv'
<1>1. outcome \in [Event -> Outcomes]
  BY Zenon DEF TypeOK
<1>2. CASE pt[1] = "drop"
  <2>1. delivering' = NoDelivery /\ outcome' = [outcome EXCEPT ![e] = "dropped"]
    BY Zenon, <1>2 DEF Advance, EndDelivery
  <2>2. Shown(delivering)'
    BY <2>1 DEF Shown, NoDelivery
  <2> QED
    BY <1>1, <2>1, <2>2 DEF ShownInv, FailClosed
<1>3. CASE pt[1] # "drop"
  <2>1. delivering' = [event |-> e, stage |-> pt[1], view |-> pt[2]] /\ UNCHANGED outcome
    BY Zenon, <1>3 DEF Advance
  <2> QED
    BY Zenon, <1>3, <2>1 DEF ShownInv, FailClosed, Shown
<1> QED
  BY <1>2, <1>3

\* Other steps leave the delivery alone, and an event may only be lost.
LEMMA OutcomesElsewhere ==
    ASSUME TypeOK, [Next]_vars
    PROVE  \/ HandleDeliver \/ EndStage \/ EndSubscribers
           \/ UNCHANGED delivering /\ \A e \in Event : outcome'[e] \in {outcome[e], "lost"}
<1> USE DEF loopVars
<1>0. outcome \in [Event -> Outcomes]
  BY Zenon DEF TypeOK
<1>1. CASE UNCHANGED vars
  BY Zenon, <1>1 DEF vars
<1>2. ASSUME NEW x, NEW p, Emit(x, p) \/ SubscriberEmit(x) \/ NestedEmit(x) \/ TaskEmit(x, p)
      PROVE  UNCHANGED <<delivering, outcome>>
  BY Zenon, <1>2 DEF Emit, SubscriberEmit, NestedEmit, TaskEmit
<1>3. ASSUME NEW e \in Event, EmitLost(e) \/ ForeignPush(e)
      PROVE  UNCHANGED delivering /\ \A y \in Event : outcome'[y] \in {outcome[y], "lost"}
  <2>1. UNCHANGED delivering /\ (UNCHANGED outcome \/ outcome' = [outcome EXCEPT ![e] = "lost"])
    BY Zenon, <1>3 DEF EmitLost, ForeignPush
  <2> QED
    BY <1>0, <2>1
<1>4. ASSUME NEW e, ForeignCapture(e) \/ ForeignAttach(e) \/ TaskFinish(e)
                    \/ RegisterPending(e) \/ ReleasePending(e) \/ FlushInCallback(e)
      PROVE  UNCHANGED <<delivering, outcome>>
  BY Zenon, <1>4 DEF ForeignCapture, ForeignAttach, TaskFinish, RegisterPending, ReleasePending, FlushInCallback
<1>5. ASSUME NEW b \in Task, TaskDrop(b)
      PROVE  UNCHANGED delivering /\ \A y \in Event : outcome'[y] \in {outcome[y], "lost"}
  <2>1. /\ UNCHANGED delivering
        /\ outcome' = [e \in Event |-> IF e \in Ids(taskBuffer[b]) THEN "lost" ELSE outcome[e]]
    BY Zenon, <1>5 DEF TaskDrop
  <2> QED
    BY Zenon, <2>1
<1>6. ASSUME NEW f, NEW m, FlushCall(f, m)
      PROVE  UNCHANGED <<delivering, outcome>>
  BY Zenon, <1>6 DEF FlushCall
<1>7. CASE \/ HandleFlush \/ HandleRegisterPending \/ HandleCompletePending \/ ReceivePublication
           \/ FinishDeliver \/ HandleBarrier \/ ReceivePublications \/ ReleaseBarrier
  BY Zenon, <1>7 DEF HandleFlush, HandleRegisterPending, HandleCompletePending, ReceivePublication,
              FinishDeliver, HandleBarrier, ReceivePublications, ReleaseBarrier
<1> QED
  BY Zenon, <1>1, <1>2, <1>3, <1>4, <1>5, <1>6, <1>7 DEF Next, DispatcherStep

\* Every step keeps to what may be shown.
LEMMA ShownStep ==
    ASSUME TypeOK, ShownInv, [Next]_vars
    PROVE  ShownInv'
<1>0. FailClosed /\ Shown(delivering) /\ delivering \in Delivery /\ outcome \in [Event -> Outcomes]
  BY Zenon DEF ShownInv, TypeOK
<1>1. CASE HandleDeliver
  <2>1. PICK pt \in EnterTransform(Head(stack).id) :
           Head(stack).id \in Event /\ Advance(Head(stack).id, pt, Tail(stack))
    BY Zenon, <1>1 DEF HandleDeliver
  <2> QED
    BY Zenon, <1>0, <2>1, ShownPoints, ShownAdvance
<1>2. CASE EndStage
  <2>1. PICK pt \in AfterStage(delivering) : Advance(delivering.event, pt, stack)
    BY Zenon, <1>2 DEF EndStage
  <2>2. delivering.stage \in MiddlewareStages /\ delivering.event \in Event
    BY <1>2, InDelivery DEF EndStage, MiddlewareStages
  <2> QED
    BY Zenon, <1>0, <2>1, <2>2, ShownPoints, ShownAdvance
<1>3. CASE EndSubscribers
  <2>1. /\ delivering' = NoDelivery /\ delivering.stage = "subscribe"
        /\ outcome' = [outcome EXCEPT ![delivering.event] = delivering.view]
    BY Zenon, <1>3 DEF EndSubscribers, EndDelivery
  <2>2. Shown(delivering)'
    BY <2>1 DEF Shown, NoDelivery
  <2>3. /\ delivering.view = "raw" => delivering.event \notin Transformed \cup Guarded
        /\ delivering.view = "transformed" => delivering.event \notin Guarded
    BY <1>0, <2>1 DEF Shown
  <2> QED
    BY <1>0, <2>1, <2>2, <2>3 DEF ShownInv, FailClosed
<1>4. CASE UNCHANGED delivering /\ \A e \in Event : outcome'[e] \in {outcome[e], "lost"}
  <2>1. Shown(delivering)'
    BY Zenon, <1>0, <1>4 DEF Shown
  <2>2. FailClosed'
    BY <1>0, <1>4 DEF FailClosed
  <2> QED
    BY <2>1, <2>2 DEF ShownInv
<1> QED
  BY Zenon, <1>1, <1>2, <1>3, <1>4, OutcomesElsewhere

\* Whatever middleware fails or has no runtime, no subscriber sees an event without the
\* transform or the sanitizers it carries.
THEOREM FailsClosed == Spec => []FailClosed
<1>1. Init => ShownInv
  BY DEF Init, ShownInv, Shown, FailClosed, NoDelivery
<1>2. TypeOK /\ ShownInv /\ [Next]_vars => ShownInv'
  BY Zenon, ShownStep
<1>3. ShownInv => FailClosed
  BY DEF ShownInv
<1> QED
  BY <1>1, <1>2, <1>3, TypeCorrect, PTL DEF Spec

-----------------------------------------------------------------------------
(* The order of flush calls *)

\* Sending something else behind the flush calls in the channel.
LEMMA TurnAppend ==
    ASSUME NEW q \in Seq(Message), NEW m \in Message, m.kind # "flush",
           NEW pf, NEW fl, NEW ah, InTurn(q, pf, fl, ah)
    PROVE  InTurn(Append(q, m), pf, fl, ah)
<1> DEFINE r == Append(q, m)
<1>1. /\ \A i \in DOMAIN q : i \in DOMAIN r
      /\ \A f \in Flush : \A i \in DOMAIN r : FlushIn(r, i, f) => FlushIn(q, i, f)
      /\ \A f \in Flush : \A i \in DOMAIN q : FlushIn(q, i, f) => FlushIn(r, i, f)
  BY AppendAt DEF FlushIn
<1>2. \A f \in Flush : \A i : FlushIn(q, i, f) => i \in DOMAIN q
  BY DEF FlushIn
<1> HIDE DEF r
<1>3. InTurn(r, pf, fl, ah)
  BY ZenonT(60), <1>1, <1>2 DEF InTurn
<1> QED
  BY <1>3 DEF r

\* The flush calls in the channel are one position further forward in its tail.
LEMMA TailFlushes ==
    ASSUME NEW q \in Seq(Message), q # <<>>
    PROVE  /\ \A i \in DOMAIN Tail(q) : i \in Nat /\ i >= 1 /\ i + 1 \in DOMAIN q
           /\ \A i \in DOMAIN q : i \in Nat /\ i >= 1 /\ (i # 1 => i - 1 \in DOMAIN Tail(q))
           /\ \A f \in Flush : \A i \in DOMAIN Tail(q) : FlushIn(Tail(q), i, f) <=> FlushIn(q, i + 1, f)
           /\ \A f \in Flush : FlushIn(q, 1, f) <=> (Head(q).kind = "flush" /\ Head(q).id = f)
BY TailAt DEF FlushIn

\* A message is received; a flush is acknowledged.
LEMMA TurnReceive ==
    ASSUME NEW q \in Seq(Message), q # <<>>, NEW pf, NEW fl, NEW fs, NEW ah, InTurn(q, pf, fl, ah),
           \A f \in Flush : fs[f] = IF Head(q).kind = "flush" /\ Head(q).id = f THEN "ok" ELSE fl[f]
    PROVE  InTurn(Tail(q), pf, fs, ah)
<1> DEFINE r == Tail(q)
           atHead(f) == Head(q).kind = "flush" /\ Head(q).id = f
<1>1. /\ \A i \in DOMAIN r : i \in Nat /\ i >= 1 /\ i + 1 \in DOMAIN q
      /\ \A i \in DOMAIN q : i \in Nat /\ i >= 1 /\ (i # 1 => i - 1 \in DOMAIN r)
      /\ \A f \in Flush : \A i \in DOMAIN r : FlushIn(r, i, f) <=> FlushIn(q, i + 1, f)
      /\ \A f \in Flush : FlushIn(q, 1, f) <=> atHead(f)
  BY TailFlushes
<1>2. 1 \in DOMAIN q
  BY Zenon, TailAt
<1>3. \A f \in Flush : fs[f] = IF atHead(f) THEN "ok" ELSE fl[f]
  OBVIOUS
<1> HIDE DEF r, atHead
<1>4. \A f \in Flush : ~atHead(f) /\ (\E i \in DOMAIN q : FlushIn(q, i, f)) => \E i \in DOMAIN r : FlushIn(r, i, f)
  <2> SUFFICES ASSUME NEW f \in Flush, ~atHead(f), NEW i \in DOMAIN q, FlushIn(q, i, f)
               PROVE  \E j \in DOMAIN r : FlushIn(r, j, f)
    OBVIOUS
  <2>1. i - 1 \in DOMAIN r /\ (i - 1) + 1 = i
    BY <1>1
  <2> QED
    BY <1>1, <2>1
<1>5. ASSUME NEW f \in Flush, NEW i \in DOMAIN r, FlushIn(r, i, f)
      PROVE  ~atHead(f) /\ fl[f] = "waiting" /\ \A j \in DOMAIN r : FlushIn(r, j, f) => i = j
  <2>1. FlushIn(q, i + 1, f) /\ i + 1 \in DOMAIN q /\ i + 1 # 1
    BY <1>1, <1>5
  <2>2. ASSUME NEW j \in DOMAIN r, FlushIn(r, j, f)
        PROVE  i = j
    <3>1. FlushIn(q, j + 1, f) /\ j + 1 \in DOMAIN q
      BY <1>1, <2>2
    <3>2. i + 1 = j + 1
      BY Zenon, <2>1, <3>1 DEF InTurn
    <3> QED
      BY <1>1, <3>2
  <2>3. ~atHead(f)
    BY Zenon, <1>1, <1>2, <2>1 DEF InTurn
  <2> QED
    BY Zenon, <2>1, <2>2, <2>3 DEF InTurn
<1>6. ASSUME NEW f \in Flush, NEW i \in DOMAIN pf, Deferred(pf, i, f)
      PROVE  ~atHead(f) /\ \A j \in DOMAIN r : ~FlushIn(r, j, f)
  <2>1. \A j \in DOMAIN q : ~FlushIn(q, j, f)
    BY Zenon, <1>6 DEF InTurn
  <2> QED
    BY Zenon, <1>1, <1>2, <2>1
<1>7. ASSUME NEW f \in Flush, NEW g \in Flush, g \in ah[f], ~atHead(g), fl[g] = "waiting",
             NEW i \in DOMAIN r, FlushIn(r, i, f)
      PROVE  \/ \E j \in DOMAIN pf : Deferred(pf, j, g)
             \/ \E j \in DOMAIN r : j < i /\ FlushIn(r, j, g)
  <2>1. FlushIn(q, i + 1, f) /\ i + 1 \in DOMAIN q
    BY <1>1, <1>7
  <2>2. \/ \E j \in DOMAIN pf : Deferred(pf, j, g)
        \/ \E j \in DOMAIN q : j < i + 1 /\ FlushIn(q, j, g)
    BY ZenonT(60), <1>7, <2>1 DEF InTurn
  <2>3. ASSUME NEW j \in DOMAIN q, j < i + 1, FlushIn(q, j, g)
        PROVE  \E k \in DOMAIN r : k < i /\ FlushIn(r, k, g)
    <3>1. j # 1
      BY <1>1, <1>7, <2>3
    <3>2. j - 1 \in DOMAIN r /\ (j - 1) + 1 = j /\ j - 1 < i
      BY <1>1, <2>3, <3>1
    <3> QED
      BY <1>1, <2>3, <3>2
  <2> QED
    BY Zenon, <2>2, <2>3
<1>8. \A f \in Flush : fs[f] = "waiting" => ~atHead(f) /\ fl[f] = "waiting"
  BY <1>3
<1>9. \A f \in Flush : (fs[f] = "idle" => fl[f] = "idle") /\ (~atHead(f) => fs[f] = fl[f])
  BY <1>3
<1>10. InTurn(r, pf, fs, ah)
  BY ZenonT(60), <1>4, <1>5, <1>6, <1>7, <1>8, <1>9 DEF InTurn
<1> QED
  BY <1>10 DEF r

\* The flush at the head of the channel is deferred behind those that wait already.
LEMMA TurnDefer ==
    ASSUME NEW q \in Seq(Message), q # <<>>, Head(q).kind = "flush", NEW h \in Flush, Head(q).id = h,
           NEW pf \in Seq(PendingFlush), NEW w \in PendingFlush, w.flush = h,
           NEW V, NEW fl \in [Flush -> V], NEW ah, InTurn(q, pf, fl, ah)
    PROVE  InTurn(Tail(q), Append(pf, w), fl, ah)
<1> DEFINE r == Tail(q)
           pw == Append(pf, w)
           n == Len(pf) + 1
           fs == [f \in Flush |-> IF f = h THEN "ok" ELSE fl[f]]
<1>1. InTurn(r, pf, fs, ah)
  BY TurnReceive
<1>2. /\ \A i \in DOMAIN pf : i \in DOMAIN pw /\ i < n
      /\ \A i \in DOMAIN pw : i = n \/ i \in DOMAIN pf
      /\ \A f \in Flush : \A i \in DOMAIN pf : Deferred(pw, i, f) <=> Deferred(pf, i, f)
      /\ \A f \in Flush : Deferred(pw, n, f) <=> f = h
      /\ n \in DOMAIN pw
  BY AppendAt DEF Deferred
<1>3. /\ 1 \in DOMAIN q /\ FlushIn(q, 1, h) /\ \A j \in DOMAIN q : ~(j < 1)
      /\ \A i \in DOMAIN r : i + 1 \in DOMAIN q /\ 1 # i + 1
      /\ \A f \in Flush : \A i \in DOMAIN r : FlushIn(r, i, f) <=> FlushIn(q, i + 1, f)
  BY TailAt, TailFlushes
<1>4. \A f \in Flush : (f # h => fs[f] = fl[f]) /\ fs[h] = "ok"
  OBVIOUS
<1> HIDE DEF r, pw, n, fs
<1>50. /\ fl[h] = "waiting" /\ \A j \in DOMAIN q : FlushIn(q, j, h) => 1 = j
       /\ \A i \in DOMAIN pf : ~Deferred(pf, i, h)
  BY Zenon, <1>3 DEF InTurn
<1>5. /\ \A i \in DOMAIN r : ~FlushIn(r, i, h)
      /\ \A i \in DOMAIN pf : ~Deferred(pf, i, h)
      /\ fl[h] = "waiting"
  BY Zenon, <1>3, <1>50
<1>51. /\ \A f \in Flush : fs[f] = "waiting" =>
             (\E i \in DOMAIN r : FlushIn(r, i, f)) \/ (\E i \in DOMAIN pf : Deferred(pf, i, f))
       /\ \A f \in Flush : \A i \in DOMAIN r : FlushIn(r, i, f) =>
             fs[f] = "waiting" /\ (\A j \in DOMAIN r : FlushIn(r, j, f) => i = j)
       /\ \A f, g \in Flush : g \in ah[f] /\ fs[g] = "waiting" =>
             \A i \in DOMAIN r : FlushIn(r, i, f) =>
                \/ \E j \in DOMAIN pf : Deferred(pf, j, g)
                \/ \E j \in DOMAIN r : j < i /\ FlushIn(r, j, g)
  BY Zenon, <1>1 DEF InTurn
<1>6. \A f \in Flush : fl[f] = "waiting" =>
         (\E i \in DOMAIN r : FlushIn(r, i, f)) \/ (\E i \in DOMAIN pw : Deferred(pw, i, f))
  BY Zenon, <1>2, <1>4, <1>51
<1>7. ASSUME NEW f \in Flush, NEW i \in DOMAIN r, FlushIn(r, i, f)
      PROVE  fl[f] = "waiting" /\ \A j \in DOMAIN r : FlushIn(r, j, f) => i = j
  BY Zenon, <1>4, <1>5, <1>51, <1>7
<1>8. ASSUME NEW f \in Flush, NEW i \in DOMAIN pw, Deferred(pw, i, f)
      PROVE  /\ fl[f] = "waiting" /\ \A j \in DOMAIN pw : Deferred(pw, j, f) => i = j
             /\ \A j \in DOMAIN r : ~FlushIn(r, j, f)
  <2>1. CASE f = h
    BY ZenonT(60), <1>2, <1>5, <1>8, <2>1
  <2>2. CASE f # h
    <3>1. i \in DOMAIN pf /\ Deferred(pf, i, f) /\ fs[f] = fl[f]
      BY Zenon, <1>2, <1>4, <1>8, <2>2
    <3>2. /\ fs[f] = "waiting" /\ \A j \in DOMAIN pf : Deferred(pf, j, f) => i = j
          /\ \A j \in DOMAIN r : ~FlushIn(r, j, f)
      BY Zenon, <1>1, <3>1 DEF InTurn
    <3>3. \A j \in DOMAIN pw : Deferred(pw, j, f) => i = j
      BY Zenon, <1>2, <2>2, <3>2
    <3> QED
      BY Zenon, <3>1, <3>2, <3>3
  <2> QED
    BY <2>1, <2>2
<1>9. ASSUME NEW f \in Flush, NEW g \in Flush, g \in ah[f], fl[g] = "waiting",
             NEW i \in DOMAIN pw, Deferred(pw, i, f)
      PROVE  \E j \in DOMAIN pw : j < i /\ Deferred(pw, j, g)
  <2>1. CASE i = n
    <3>1. f = h
      BY Zenon, <1>2, <1>9, <2>1
    <3>2. PICK j \in DOMAIN pf : Deferred(pf, j, g)
      BY ZenonT(60), <1>3, <1>9, <3>1 DEF InTurn
    <3> QED
      BY Zenon, <1>2, <2>1, <3>2
  <2>2. CASE i \in DOMAIN pf
    <3>1. PICK j \in DOMAIN pf : j < i /\ Deferred(pf, j, g)
      BY ZenonT(60), <1>2, <1>9, <2>2 DEF InTurn
    <3> QED
      BY Zenon, <1>2, <3>1
  <2> QED
    BY Zenon, <1>2, <2>1, <2>2
<1>10. ASSUME NEW f \in Flush, NEW g \in Flush, g \in ah[f], fl[g] = "waiting",
              NEW i \in DOMAIN r, FlushIn(r, i, f)
       PROVE  \/ \E j \in DOMAIN pw : Deferred(pw, j, g)
              \/ \E j \in DOMAIN r : j < i /\ FlushIn(r, j, g)
  <2>1. CASE g = h
    BY Zenon, <1>2, <2>1
  <2>2. CASE g # h
    <3>1. fs[g] = "waiting"
      BY Zenon, <1>4, <1>10, <2>2
    <3>2. (\E j \in DOMAIN pf : Deferred(pf, j, g)) \/ (\E j \in DOMAIN r : j < i /\ FlushIn(r, j, g))
      BY Zenon, <1>10, <1>51, <3>1
    <3> QED
      BY Zenon, <1>2, <3>2
  <2> QED
    BY <2>1, <2>2
<1>11. InTurn(r, pw, fl, ah)
  <2>1. \A f, g \in Flush : g \in ah[f] => fl[g] # "idle"
    BY Zenon DEF InTurn
  <2> QED
    BY ZenonT(60), <1>6, <1>7, <1>8, <1>9, <1>10, <2>1 DEF InTurn
<1> QED
  BY <1>11 DEF r, pw

\* A flush call is sent to the channel, behind every flush that waits.
LEMMA TurnCall ==
    ASSUME queue \in Seq(Message), InTurn(queue, pendingFlushes, flush, ahead),
           NEW V, flush \in [Flush -> V], NEW W, ahead \in [Flush -> W],
           NEW h \in Flush, flush[h] = "idle", flush' = [flush EXCEPT ![h] = "waiting"],
           queue' = Append(queue, [kind |-> "flush", id |-> h]),
           ahead' = [ahead EXCEPT ![h] = {g \in Flush : flush[g] = "waiting"}]
    PROVE  InTurn(queue', pendingFlushes, flush', ahead')
<1> DEFINE q == queue
           pf == pendingFlushes
           fl == flush
           fs == flush'
           ah == ahead
           as == ahead'
           r == queue'
           n == Len(q) + 1
<1>1. /\ \A i \in DOMAIN q : i \in DOMAIN r /\ i < n
      /\ \A i \in DOMAIN r : i = n \/ i \in DOMAIN q
      /\ \A f \in Flush : \A i \in DOMAIN q : FlushIn(r, i, f) <=> FlushIn(q, i, f)
      /\ \A f \in Flush : FlushIn(r, n, f) <=> f = h
      /\ n \in DOMAIN r
  <2>1. [kind |-> "flush", id |-> h] \in Message
    BY DEF Message
  <2>2. /\ DOMAIN r = DOMAIN q \cup {n} /\ n \notin DOMAIN q /\ r[n] = [kind |-> "flush", id |-> h]
        /\ \A j \in DOMAIN q : r[j] = q[j] /\ j < n
    BY <2>1, AppendAt
  <2> QED
    BY <2>2 DEF FlushIn
<1>2. /\ fs[h] = "waiting" /\ \A f \in Flush : f # h => fs[f] = fl[f] /\ as[f] = ah[f]
      /\ as[h] = {g \in Flush : fl[g] = "waiting"}
  OBVIOUS
<1>0. fl[h] = "idle" /\ InTurn(q, pf, fl, ah)
  BY Zenon
<1> HIDE DEF q, pf, fl, fs, ah, as, r, n
<1>3. /\ \A i \in DOMAIN q : ~FlushIn(q, i, h)
      /\ \A i \in DOMAIN pf : ~Deferred(pf, i, h)
      /\ \A f \in Flush : f # h => h \notin ah[f]
      /\ h \notin as[h]
  <2>1. "idle" # "waiting"
    OBVIOUS
  <2> QED
    BY ZenonT(60), <1>0, <1>2, <2>1 DEF InTurn
<1>4. \A f \in Flush : fs[f] = "waiting" =>
         (\E i \in DOMAIN r : FlushIn(r, i, f)) \/ (\E i \in DOMAIN pf : Deferred(pf, i, f))
  BY ZenonT(60), <1>0, <1>1, <1>2 DEF InTurn
<1>5. ASSUME NEW f \in Flush, NEW i \in DOMAIN r, FlushIn(r, i, f)
      PROVE  fs[f] = "waiting" /\ \A j \in DOMAIN r : FlushIn(r, j, f) => i = j
  <2>1. CASE f = h
    BY ZenonT(60), <1>1, <1>2, <1>3, <1>5, <2>1
  <2>2. CASE f # h
    <3>1. i \in DOMAIN q /\ FlushIn(q, i, f) /\ fs[f] = fl[f]
      BY Zenon, <1>1, <1>2, <1>5, <2>2
    <3>2. fl[f] = "waiting" /\ \A j \in DOMAIN q : FlushIn(q, j, f) => i = j
      BY Zenon, <1>0, <3>1 DEF InTurn
    <3> QED
      BY Zenon, <1>1, <2>2, <3>1, <3>2
  <2> QED
    BY <2>1, <2>2
<1>6. ASSUME NEW f \in Flush, NEW i \in DOMAIN pf, Deferred(pf, i, f)
      PROVE  /\ fs[f] = "waiting" /\ \A j \in DOMAIN pf : Deferred(pf, j, f) => i = j
             /\ \A j \in DOMAIN r : ~FlushIn(r, j, f)
  <2>1. f # h
    BY Zenon, <1>3, <1>6
  <2>2. /\ fl[f] = "waiting" /\ \A j \in DOMAIN pf : Deferred(pf, j, f) => i = j
        /\ \A j \in DOMAIN q : ~FlushIn(q, j, f)
    BY Zenon, <1>0, <1>6 DEF InTurn
  <2> QED
    BY Zenon, <1>1, <1>2, <2>1, <2>2
<1>7. ASSUME NEW f \in Flush, NEW g \in Flush, g \in as[f]
      PROVE  fs[g] # "idle" /\ g # h
  <2>1. "waiting" # "idle"
    OBVIOUS
  <2> QED
    <3>1. CASE f = h
      <4>1. fl[g] = "waiting" /\ g # h
        BY Zenon, <1>2, <1>3, <1>7, <3>1
      <4> QED
        BY Zenon, <1>2, <2>1, <4>1
    <3>2. CASE f # h
      <4>1. g \in ah[f] /\ g # h
        BY Zenon, <1>2, <1>3, <1>7, <3>2
      <4>2. fl[g] # "idle"
        BY Zenon, <1>0, <4>1 DEF InTurn
      <4> QED
        BY Zenon, <1>2, <4>1, <4>2
    <3> QED
      BY <3>1, <3>2
<1>8. ASSUME NEW f \in Flush, NEW g \in Flush, g \in as[f], fs[g] = "waiting"
      PROVE  /\ \A i \in DOMAIN pf : Deferred(pf, i, f) => \E j \in DOMAIN pf : j < i /\ Deferred(pf, j, g)
             /\ \A i \in DOMAIN r : FlushIn(r, i, f) =>
                   \/ \E j \in DOMAIN pf : Deferred(pf, j, g)
                   \/ \E j \in DOMAIN r : j < i /\ FlushIn(r, j, g)
  <2>1. fl[g] = "waiting" /\ g # h
    BY Zenon, <1>2, <1>7, <1>8
  <2>2. CASE f = h
    <3>1. (\E j \in DOMAIN q : FlushIn(q, j, g)) \/ (\E j \in DOMAIN pf : Deferred(pf, j, g))
      BY Zenon, <1>0, <2>1 DEF InTurn
    <3>2. \A i \in DOMAIN r : FlushIn(r, i, f) => i = n
      BY ZenonT(60), <1>1, <1>3, <2>2
    <3> QED
      BY ZenonT(60), <1>1, <1>3, <2>2, <3>1, <3>2
  <2>3. CASE f # h
    <3>1. g \in ah[f]
      BY Zenon, <1>2, <1>8, <2>3
    <3>2. \A i \in DOMAIN r : FlushIn(r, i, f) => i \in DOMAIN q /\ FlushIn(q, i, f)
      BY ZenonT(60), <1>1, <2>3
    <3> QED
      BY ZenonT(60), <1>0, <1>1, <2>1, <3>1, <3>2 DEF InTurn
  <2> QED
    BY <2>2, <2>3
<1>9. InTurn(r, pf, fs, as)
  BY ZenonT(60), <1>0, <1>4, <1>5, <1>6, <1>7, <1>8 DEF InTurn
<1> QED
  BY <1>9 DEF r, pf, fs, as

\* A flush call returns without waiting.
LEMMA TurnSkip ==
    ASSUME NEW q, NEW pf, NEW h \in Flush, NEW V, NEW fl \in [Flush -> V], fl[h] = "idle", NEW ah,
           InTurn(q, pf, fl, ah), NEW v \in {"ok", "skipped", "failed"}, NEW fs, fs = [fl EXCEPT ![h] = v]
    PROVE  InTurn(q, pf, fs, ah)
<1>1. \A f \in Flush : /\ fs[f] = "waiting" <=> fl[f] = "waiting"
                       /\ fs[f] = "idle" => fl[f] = "idle"
  OBVIOUS
<1> QED
  BY ZenonT(60), <1>1 DEF InTurn

\* complete_ready_flushes acknowledges a prefix, which keeps the order and overtakes
\* nothing.
LEMMA CompleteInTurn ==
    ASSUME NEW pf \in Seq(PendingFlush), NEW registered, NEW fs, CompleteReadyFlushes(pf, registered, fs),
           NEW q, NEW ah, InTurn(q, pf, fs, ah)
    PROVE  /\ InTurn(q, pendingFlushes', flush', ah)
           /\ \A f, g \in Flush : fs[f] = "waiting" /\ flush'[f] = "ok" /\ g \in ah[f] => flush'[g] # "waiting"
<1> DEFINE pr == pendingFlushes'
           fl == flush'
<1>0. PICK n \in 0 .. Len(pf) :
         /\ pr = SubSeq(pf, n + 1, Len(pf))
         /\ fl = [f \in Flush |-> IF \E i \in 1 .. n : pf[i].flush = f THEN "ok" ELSE fs[f]]
  BY ZenonT(60) DEF CompleteReadyFlushes
<1> HIDE DEF pr, fl
<1>1. \A i \in 1 .. n : i \in DOMAIN pf
  <2>1. Len(pf) \in Nat /\ DOMAIN pf = 1 .. Len(pf)
    BY SeqLen
  <2> QED
    BY <2>1
<1>2. /\ \A i \in DOMAIN pr : i \in Nat /\ n + i \in DOMAIN pf /\ pr[i] = pf[n + i] /\ n + i \notin 1 .. n
      /\ \A i \in DOMAIN pf : i \in Nat /\ (i \notin 1 .. n => i - n \in DOMAIN pr /\ pr[i - n] = pf[i])
  BY <1>0, DrainAt
<1>3. \A f \in Flush : \A i \in DOMAIN pr : Deferred(pr, i, f) <=> Deferred(pf, n + i, f)
  BY Zenon, <1>2 DEF Deferred
<1>4. \A f \in Flush : \A i \in DOMAIN pf : i \notin 1 .. n /\ Deferred(pf, i, f) => Deferred(pr, i - n, f)
  BY Zenon, <1>2 DEF Deferred
<1>5. \A f \in Flush : \A i \in 1 .. n : pf[i].flush = f <=> Deferred(pf, i, f)
  BY Zenon, <1>1 DEF Deferred
<1>6. \A f \in Flush : fl[f] = IF \E i \in 1 .. n : Deferred(pf, i, f) THEN "ok" ELSE fs[f]
  BY ZenonT(60), <1>0, <1>5
<1>7. \A f \in Flush : fl[f] = "waiting" => fs[f] = "waiting" /\ \A i \in 1 .. n : ~Deferred(pf, i, f)
  BY <1>6
<1>71. \A f \in Flush : fs[f] = "waiting" /\ (\A i \in 1 .. n : ~Deferred(pf, i, f)) => fl[f] = "waiting"
  BY <1>6
<1>8. \A f \in Flush : fl[f] = "idle" => fs[f] = "idle"
  BY <1>6
<1>9. ASSUME NEW f \in Flush, fl[f] = "waiting"
      PROVE  (\E i \in DOMAIN q : FlushIn(q, i, f)) \/ (\E i \in DOMAIN pr : Deferred(pr, i, f))
  BY ZenonT(60), <1>2, <1>4, <1>7, <1>9 DEF InTurn
<1>10. ASSUME NEW f \in Flush, NEW i \in DOMAIN q, FlushIn(q, i, f)
       PROVE  fl[f] = "waiting" /\ \A j \in DOMAIN q : FlushIn(q, j, f) => i = j
  <2>1. fs[f] = "waiting" /\ \A j \in DOMAIN pf : ~Deferred(pf, j, f)
    BY ZenonT(60), <1>10 DEF InTurn
  <2>2. fl[f] = "waiting"
    BY Zenon, <1>1, <1>71, <2>1
  <2> QED
    BY Zenon, <1>10, <2>2 DEF InTurn
<1>11. ASSUME NEW f \in Flush, NEW i \in DOMAIN pr, Deferred(pr, i, f)
       PROVE  /\ fl[f] = "waiting" /\ \A j \in DOMAIN pr : Deferred(pr, j, f) => i = j
              /\ \A j \in DOMAIN q : ~FlushIn(q, j, f)
  <2>1. n + i \in DOMAIN pf /\ Deferred(pf, n + i, f) /\ n + i \notin 1 .. n
    BY Zenon, <1>2, <1>3, <1>11
  <2>2. /\ fs[f] = "waiting" /\ \A j \in DOMAIN pf : Deferred(pf, j, f) => n + i = j
        /\ \A j \in DOMAIN q : ~FlushIn(q, j, f)
    BY Zenon, <2>1 DEF InTurn
  <2>3. fl[f] = "waiting"
    <3>1. \A j \in 1 .. n : ~Deferred(pf, j, f)
      BY Zenon, <1>1, <2>1, <2>2
    <3> QED
      BY Zenon, <1>71, <2>2, <3>1
  <2>4. ASSUME NEW j \in DOMAIN pr, Deferred(pr, j, f)
        PROVE  i = j
    <3>1. n + i = n + j /\ i \in Nat /\ j \in Nat
      BY Zenon, <1>2, <1>3, <2>2, <2>4
    <3> QED
      BY <3>1
  <2> QED
    BY Zenon, <2>2, <2>3, <2>4
<1>12. ASSUME NEW f \in Flush, NEW g \in Flush, g \in ah[f], fl[g] = "waiting"
       PROVE  /\ \A i \in DOMAIN pr : Deferred(pr, i, f) => \E j \in DOMAIN pr : j < i /\ Deferred(pr, j, g)
              /\ \A i \in DOMAIN q : FlushIn(q, i, f) =>
                   \/ \E j \in DOMAIN pr : Deferred(pr, j, g)
                   \/ \E j \in DOMAIN q : j < i /\ FlushIn(q, j, g)
  <2>1. fs[g] = "waiting" /\ \A i \in 1 .. n : ~Deferred(pf, i, g)
    BY Zenon, <1>7, <1>12
  <2>2. \A j \in DOMAIN pf : Deferred(pf, j, g) => j - n \in DOMAIN pr /\ Deferred(pr, j - n, g)
    BY Zenon, <1>2, <1>4, <2>1
  <2>3. ASSUME NEW i \in DOMAIN pr, Deferred(pr, i, f)
        PROVE  \E j \in DOMAIN pr : j < i /\ Deferred(pr, j, g)
    <3>1. n + i \in DOMAIN pf /\ Deferred(pf, n + i, f) /\ i \in Nat
      BY Zenon, <1>2, <1>3, <2>3
    <3>2. PICK j \in DOMAIN pf : j < n + i /\ Deferred(pf, j, g)
      BY Zenon, <1>12, <2>1, <3>1 DEF InTurn
    <3>3. j - n < i
      BY <1>2, <3>1, <3>2
    <3> QED
      BY Zenon, <2>2, <3>2, <3>3
  <2>4. ASSUME NEW i \in DOMAIN q, FlushIn(q, i, f)
        PROVE  \/ \E j \in DOMAIN pr : Deferred(pr, j, g)
               \/ \E j \in DOMAIN q : j < i /\ FlushIn(q, j, g)
    BY ZenonT(60), <1>12, <2>1, <2>2, <2>4 DEF InTurn
  <2> QED
    BY Zenon, <2>3, <2>4
<1>13. \A f, g \in Flush : g \in ah[f] => fl[g] # "idle"
  BY Zenon, <1>8 DEF InTurn
<1>14. ASSUME NEW f \in Flush, NEW g \in Flush, fs[f] = "waiting", fl[f] = "ok", g \in ah[f],
              fl[g] = "waiting"
       PROVE  FALSE
  <2>1. PICK i \in 1 .. n : Deferred(pf, i, f)
    BY <1>6, <1>14
  <2>2. fs[g] = "waiting" /\ \A j \in 1 .. n : ~Deferred(pf, j, g)
    BY Zenon, <1>7, <1>14
  <2>3. PICK j \in DOMAIN pf : j < i /\ Deferred(pf, j, g)
    BY Zenon, <1>1, <1>14, <2>1, <2>2 DEF InTurn
  <2>4. j \in 1 .. n
    <3>1. DOMAIN pf = 1 .. Len(pf) /\ Len(pf) \in Nat
      BY SeqLen
    <3> QED
      BY <2>1, <2>3, <3>1
  <2> QED
    BY Zenon, <2>2, <2>3, <2>4
<1>15. InTurn(q, pr, fl, ah)
  BY ZenonT(60), <1>9, <1>10, <1>11, <1>12, <1>13 DEF InTurn
<1> QED
  BY Zenon, <1>14, <1>15 DEF pr, fl

\* What each step does to the flush calls: nothing but send other messages behind
\* them; answer or send a call; receive another message and complete what is ready;
\* or handle the flush at the head of the channel.
LEMMA FlushMoves ==
    ASSUME TypeOK, [Next]_vars
    PROVE  \/ /\ UNCHANGED <<pendingFlushes, flush, ahead>>
              /\ UNCHANGED queue \/ \E m \in Message : m.kind # "flush" /\ queue' = Append(queue, m)
           \/ /\ UNCHANGED <<queue, pendingFlushes, ahead>>
              /\ \E f \in Flush, v \in {"ok", "skipped", "failed"} :
                    flush[f] = "idle" /\ flush' = [flush EXCEPT ![f] = v]
           \/ /\ UNCHANGED pendingFlushes
              /\ \E f \in Flush :
                    /\ flush[f] = "idle" /\ flush' = [flush EXCEPT ![f] = "waiting"]
                    /\ queue' = Append(queue, [kind |-> "flush", id |-> f])
                    /\ ahead' = [ahead EXCEPT ![f] = {g \in Flush : flush[g] = "waiting"}]
           \/ /\ UNCHANGED ahead
              /\ UNCHANGED queue \/ (queue # <<>> /\ Head(queue).kind # "flush" /\ queue' = Tail(queue))
              /\ \/ UNCHANGED <<pendingFlushes, flush>>
                 \/ \E registered : CompleteReadyFlushes(pendingFlushes, registered, flush)
           \/ HandleFlush
<1> USE DEF loopVars, channelVars, flushVars
<1> DEFINE Quiet == UNCHANGED <<pendingFlushes, flush, ahead>>
           Sends == \E m \in Message : m.kind # "flush" /\ queue' = Append(queue, m)
           Received == queue # <<>> /\ Head(queue).kind # "flush" /\ queue' = Tail(queue)
           Completes == \E registered : CompleteReadyFlushes(pendingFlushes, registered, flush)
<1>0. \A x \in Publication : Msg(x) \in Message /\ Msg(x).kind # "flush"
  BY MsgType DEF Msg, Message, PublicationMsg
<1>1. CASE UNCHANGED vars
  BY Zenon, <1>1 DEF vars
<1>2. ASSUME NEW x \in Publication, NEW p, Emit(x, p) \/ SubscriberEmit(x)
      PROVE  Quiet /\ Sends
  <2>1. Quiet /\ queue' = Append(queue, Msg(x))
    BY Zenon, <1>2 DEF Emit, SubscriberEmit, SendPublication
  <2> QED
    BY Zenon, <1>0, <2>1
<1>3. ASSUME NEW x, NEW b, \/ NestedEmit(x) \/ TaskEmit(x, b) \/ EmitLost(x) \/ ForeignCapture(x)
                           \/ ForeignAttach(x) \/ TaskFinish(x) \/ TaskDrop(x)
      PROVE  Quiet /\ UNCHANGED queue
  BY Zenon, <1>3 DEF NestedEmit, TaskEmit, EmitLost, ForeignCapture, ForeignAttach, TaskFinish, TaskDrop
<1>4. ASSUME NEW e \in Event, ForeignPush(e)
      PROVE  Quiet /\ (UNCHANGED queue \/ Sends)
  <2>1. Quiet /\ (UNCHANGED queue \/ queue' = Append(queue, Msg(e)))
    BY Zenon, <1>4 DEF ForeignPush, SendPublication
  <2>2. e \in Publication
    BY Zenon DEF Publication
  <2> QED
    BY Zenon, <1>0, <2>1, <2>2
<1>5. ASSUME NEW p \in Pending, RegisterPending(p) \/ ReleasePending(p)
      PROVE  Quiet /\ Sends
  <2>1. Quiet /\ \E k \in {"register", "complete"} : queue' = Append(queue, [kind |-> k, id |-> p])
    BY Zenon, <1>5 DEF RegisterPending, ReleasePending
  <2>2. \A k \in {"register", "complete"} :
           [kind |-> k, id |-> p] \in Message /\ [kind |-> k, id |-> p].kind # "flush"
    BY DEF Message
  <2> QED
    BY Zenon, <2>1, <2>2
<1>6. ASSUME NEW f \in Flush, FlushInCallback(f)
      PROVE  /\ UNCHANGED <<queue, pendingFlushes, ahead>>
             /\ flush[f] = "idle" /\ flush' = [flush EXCEPT ![f] = "skipped"]
  BY Zenon, <1>6 DEF FlushInCallback
<1>7. ASSUME NEW f \in Flush, NEW m, FlushCall(f, m)
      PROVE  /\ UNCHANGED pendingFlushes /\ flush[f] = "idle"
             /\ \/ /\ UNCHANGED <<queue, ahead>>
                   /\ \E v \in {"ok", "failed"} : flush' = [flush EXCEPT ![f] = v]
                \/ /\ flush' = [flush EXCEPT ![f] = "waiting"]
                   /\ queue' = Append(queue, [kind |-> "flush", id |-> f])
                   /\ ahead' = [ahead EXCEPT ![f] = {g \in Flush : flush[g] = "waiting"}]
  BY Zenon, <1>7 DEF FlushCall
<1>8. CASE HandleRegisterPending \/ HandleCompletePending
  <2>1. /\ UNCHANGED ahead /\ Completes /\ queue # <<>> /\ queue' = Tail(queue)
        /\ Head(queue).kind = "register" \/ Head(queue).kind = "complete"
    BY Zenon, <1>8 DEF HandleRegisterPending, HandleCompletePending, Receive
  <2>2. Received
    BY <2>1
  <2> QED
    BY Zenon, <2>1, <2>2
<1>9. CASE ReceivePublication
  <2>1. /\ UNCHANGED <<ahead, pendingFlushes, flush>> /\ queue # <<>> /\ queue' = Tail(queue)
        /\ Head(queue).kind = "deliver" \/ Head(queue).kind = "barrier"
    BY Zenon, <1>9 DEF ReceivePublication, Receive
  <2>2. Received
    BY <2>1
  <2> QED
    BY Zenon, <2>1, <2>2
<1>10. CASE FinishDeliver \/ ReleaseBarrier
  BY Zenon, <1>10 DEF FinishDeliver, ReleaseBarrier
<1>11. CASE HandleDeliver \/ EndStage \/ EndSubscribers \/ HandleBarrier \/ ReceivePublications
  BY Zenon, <1>11 DEF HandleDeliver, EndStage, EndSubscribers, HandleBarrier, ReceivePublications
<1>12. CASE \E f \in Flush : FlushInCallback(f) \/ \E m \in Modes : FlushCall(f, m)
  BY ZenonT(60), <1>6, <1>7, <1>12
<1>13. CASE DispatcherStep
  BY ZenonT(60), <1>8, <1>9, <1>10, <1>11, <1>13 DEF DispatcherStep
<1>14. CASE \/ \E x \in Publication, p \in Pending \cup {None} : Emit(x, p)
            \/ \E e \in Event : EmitLost(e) \/ ForeignCapture(e) \/ ForeignAttach(e) \/ ForeignPush(e)
            \/ \E x \in Publication : SubscriberEmit(x) \/ NestedEmit(x)
            \/ \E b \in Task : TaskFinish(b) \/ TaskDrop(b) \/ \E e \in Event : TaskEmit(e, b)
            \/ \E p \in Pending : RegisterPending(p) \/ ReleasePending(p)
  <2>1. Quiet /\ (UNCHANGED queue \/ Sends)
    BY ZenonT(60), <1>2, <1>3, <1>4, <1>5, <1>14
  <2> QED
    BY Zenon, <2>1
<1> QED
  BY Zenon, <1>1, <1>12, <1>13, <1>14 DEF Next

\* The flush h at the head of the channel is acknowledged: it overtakes g only if a
\* flush that was deferred has to wait for something h does not wait for.
LEMMA HeadOvertakes ==
    ASSUME NEW h \in Flush, queue \in Seq(Message), queue # <<>>, Head(queue).kind = "flush", Head(queue).id = h,
           mode[h] \in Modes, pendingFlushes \in Seq(PendingFlush), NEW V, flush \in [Flush -> V],
           {l \in active : (mode[h] = "all" \/ l \notin Pending) /\ Outstanding(l)} = {},
           UNCHANGED permits, active \subseteq Lineage, FlushTurnInv,
           CompleteReadyFlushes(pendingFlushes, active, [flush EXCEPT ![h] = "ok"]),
           NEW g \in Flush, g \in ahead[h], flush'[g] = "waiting"
    PROVE  \E i \in DOMAIN pendingFlushes : \E l \in pendingFlushes[i].lineages :
              Outstanding(l) /\ (l \in active => l \in Pending /\ mode[h] = "queued")
<1> DEFINE pf == pendingFlushes
           fs == [flush EXCEPT ![h] = "ok"]
<1>1. PICK n \in 0 .. Len(pf) :
         /\ flush' = [f \in Flush |-> IF \E i \in 1 .. n : pf[i].flush = f THEN "ok" ELSE fs[f]]
         /\ n < Len(pf) => \E l \in pf[n + 1].lineages : \E x \in permits' : lineage[x] = l
  BY ZenonT(60) DEF CompleteReadyFlushes
<1>10. "ok" # "waiting"
  OBVIOUS
<1>11. flush'[g] = IF \E i \in 1 .. n : pf[i].flush = g THEN "ok" ELSE fs[g]
  BY Zenon, <1>1
<1>2. fs[g] = "waiting" /\ \A i \in 1 .. n : pf[i].flush # g
  BY Zenon, <1>10, <1>11
<1>3. flush[g] = "waiting"
  BY Zenon, <1>2, <1>10
<1>4. 1 \in DOMAIN queue /\ FlushIn(queue, 1, h) /\ \A j \in DOMAIN queue : ~(j < 1)
  <2>1. 1 \in DOMAIN queue /\ FlushIn(queue, 1, h)
    BY Zenon, TailAt, TailFlushes
  <2>2. \A j \in DOMAIN queue : j \in Nat /\ j >= 1
    BY Zenon, TailFlushes
  <2>3. \A j \in Nat : j >= 1 => ~(j < 1)
    OBVIOUS
  <2> QED BY Zenon, <2>1, <2>2, <2>3
<1>5. PICK j \in DOMAIN pf : Deferred(pf, j, g)
  BY Zenon, <1>3, <1>4 DEF FlushTurnInv, InTurn
<1>6. n + 1 \in DOMAIN pf /\ n < Len(pf)
  <2>1. Len(pf) \in Nat /\ DOMAIN pf = 1 .. Len(pf)
    BY SeqLen
  <2>2. j \notin 1 .. n
    BY Zenon, <1>2, <1>5 DEF Deferred
  <2> QED
    BY <1>5, <2>1, <2>2
<1>7. PICK l \in pf[n + 1].lineages : Outstanding(l)
  BY Zenon, <1>1, <1>6 DEF Outstanding
<1>8. l \in active => l \in Pending /\ mode[h] = "queued"
  BY <1>7 DEF Modes
<1> QED
  BY Zenon, <1>6, <1>7, <1>8

\* Every step keeps the order of the flush calls, and overtakes only at the head.
LEMMA FlushTurnStep ==
    ASSUME TypeOK, FlushTurnInv, [Next]_vars
    PROVE  /\ FlushTurnInv'
           /\ \A f, g \in Flush : Overtakes(f, g) =>
                /\ queue # <<>> /\ Head(queue) = [kind |-> "flush", id |-> f]
                /\ \E i \in DOMAIN pendingFlushes : \E l \in pendingFlushes[i].lineages :
                      Outstanding(l) /\ (l \in active => l \in Pending /\ mode[f] = "queued")
<1> DEFINE Alone == \A f, g \in Flush : ~Overtakes(f, g)
           Calls == {"idle", "waiting", "ok", "skipped", "failed"}
<1>0. /\ queue \in Seq(Message) /\ pendingFlushes \in Seq(PendingFlush) /\ flush \in [Flush -> Calls]
      /\ ahead \in [Flush -> SUBSET Flush] /\ InTurn(queue, pendingFlushes, flush, ahead)
  BY Zenon DEF TypeOK, FlushTurnInv
<1> HIDE DEF Calls
<1>1. CASE /\ UNCHANGED <<pendingFlushes, flush, ahead>>
           /\ UNCHANGED queue \/ \E m \in Message : m.kind # "flush" /\ queue' = Append(queue, m)
  <2>1. Alone
    BY <1>1 DEF Overtakes
  <2>2. InTurn(queue', pendingFlushes, flush, ahead)
    BY Zenon, <1>0, <1>1, TurnAppend
  <2> QED
    BY Zenon, <1>1, <2>1, <2>2 DEF FlushTurnInv
<1>2. CASE /\ UNCHANGED <<queue, pendingFlushes, ahead>>
           /\ \E f \in Flush, v \in {"ok", "skipped", "failed"} :
                 flush[f] = "idle" /\ flush' = [flush EXCEPT ![f] = v]
  <2>1. PICK h \in Flush, v \in {"ok", "skipped", "failed"} :
           flush[h] = "idle" /\ flush' = [flush EXCEPT ![h] = v]
    BY Zenon, <1>2
  <2>2. Alone
    BY <1>0, <2>1 DEF Overtakes
  <2>3. InTurn(queue, pendingFlushes, flush', ahead)
    BY Zenon, <1>0, <2>1, TurnSkip
  <2> QED
    BY Zenon, <1>2, <2>2, <2>3 DEF FlushTurnInv
<1>3. CASE /\ UNCHANGED pendingFlushes
           /\ \E f \in Flush :
                 /\ flush[f] = "idle" /\ flush' = [flush EXCEPT ![f] = "waiting"]
                 /\ queue' = Append(queue, [kind |-> "flush", id |-> f])
                 /\ ahead' = [ahead EXCEPT ![f] = {g \in Flush : flush[g] = "waiting"}]
  <2>1. PICK h \in Flush :
           /\ flush[h] = "idle" /\ flush' = [flush EXCEPT ![h] = "waiting"]
           /\ queue' = Append(queue, [kind |-> "flush", id |-> h])
           /\ ahead' = [ahead EXCEPT ![h] = {g \in Flush : flush[g] = "waiting"}]
    BY Zenon, <1>3
  <2>2. Alone
    BY <1>0, <2>1 DEF Overtakes
  <2>4. InTurn(queue', pendingFlushes, flush', ahead')
    BY Zenon, <1>0, <2>1, TurnCall
  <2> QED
    BY Zenon, <1>3, <2>2, <2>4 DEF FlushTurnInv
<1>4. CASE /\ UNCHANGED ahead
           /\ UNCHANGED queue \/ (queue # <<>> /\ Head(queue).kind # "flush" /\ queue' = Tail(queue))
           /\ \/ UNCHANGED <<pendingFlushes, flush>>
              \/ \E registered : CompleteReadyFlushes(pendingFlushes, registered, flush)
  <2>1. InTurn(queue', pendingFlushes, flush, ahead)
    <3>1. CASE UNCHANGED queue
      BY Zenon, <1>0, <3>1
    <3>2. CASE queue # <<>> /\ Head(queue).kind # "flush" /\ queue' = Tail(queue)
      <4>1. \A f \in Flush : flush[f] = IF Head(queue).kind = "flush" /\ Head(queue).id = f THEN "ok" ELSE flush[f]
        BY Zenon, <3>2
      <4> QED
        BY Zenon, <1>0, <3>2, <4>1, TurnReceive
    <3> QED
      BY Zenon, <1>4, <3>1, <3>2
  <2>2. CASE UNCHANGED <<pendingFlushes, flush>>
    <3>1. Alone
      BY <2>2 DEF Overtakes
    <3> QED
      BY Zenon, <1>4, <2>1, <2>2, <3>1 DEF FlushTurnInv
  <2>3. CASE \E registered : CompleteReadyFlushes(pendingFlushes, registered, flush)
    <3>1. /\ InTurn(queue', pendingFlushes', flush', ahead)
          /\ \A f, g \in Flush : flush[f] = "waiting" /\ flush'[f] = "ok" /\ g \in ahead[f] => flush'[g] # "waiting"
      BY Zenon, <1>0, <2>1, <2>3, CompleteInTurn
    <3>2. Alone
      BY Zenon, <3>1 DEF Overtakes
    <3> QED
      BY Zenon, <1>4, <3>1, <3>2 DEF FlushTurnInv
  <2> QED
    BY Zenon, <1>4, <2>2, <2>3
<1>5. CASE HandleFlush
  <2> DEFINE h == Head(queue).id
             lineages == {l \in active : (mode[h] = "all" \/ l \notin Pending) /\ Outstanding(l)}
  <2>1. /\ queue # <<>> /\ Head(queue).kind = "flush" /\ queue' = Tail(queue) /\ UNCHANGED <<permits, ahead>>
        /\ IF lineages = {}
           THEN CompleteReadyFlushes(pendingFlushes, active, [flush EXCEPT ![h] = "ok"])
           ELSE CompleteReadyFlushes(Append(pendingFlushes, [flush |-> h, lineages |-> lineages]),
                                     active, flush)
    BY Zenon, <1>5 DEF HandleFlush, Receive
  <2>2. /\ h \in Flush /\ Head(queue) = [kind |-> "flush", id |-> h] /\ mode[h] \in Modes
        /\ active \subseteq Lineage /\ lineages \subseteq Lineage
    <3>1. Head(queue) \in Message
      BY Zenon, <1>0, <2>1, SeqHeadTail
    <3>2. h \in Flush /\ Head(queue) = [kind |-> "flush", id |-> h]
      BY <2>1, <3>1 DEF Message, PublicationMsg, DeliverMsg
    <3>3. active \subseteq Lineage /\ mode \in [Flush -> Modes]
      BY Zenon DEF TypeOK
    <3> QED
      BY <3>2, <3>3
  <2> HIDE DEF h
  <2>3. CASE lineages = {}
    <3> DEFINE fs == [flush EXCEPT ![h] = "ok"]
    <3>1. InTurn(queue', pendingFlushes, fs, ahead)
      <4>1. \A f \in Flush : fs[f] = IF Head(queue).kind = "flush" /\ Head(queue).id = f THEN "ok" ELSE flush[f]
        BY <1>0, <2>1 DEF h
      <4> HIDE DEF fs
      <4> QED
        BY Zenon, <1>0, <2>1, <4>1, TurnReceive
    <3>2. /\ InTurn(queue', pendingFlushes', flush', ahead)
          /\ \A f, g \in Flush : fs[f] = "waiting" /\ flush'[f] = "ok" /\ g \in ahead[f] => flush'[g] # "waiting"
      <4>1. CompleteReadyFlushes(pendingFlushes, active, fs)
        BY Zenon, <2>1, <2>3
      <4> HIDE DEF fs
      <4> QED
        BY Zenon, <1>0, <3>1, <4>1, CompleteInTurn
    <3>3. ASSUME NEW f \in Flush, NEW g \in Flush, Overtakes(f, g)
          PROVE  f = h
      <4>1. f # h => fs[f] = flush[f]
        BY <1>0
      <4> QED
        BY Zenon, <3>2, <3>3, <4>1 DEF Overtakes
    <3>4. ASSUME NEW g \in Flush, Overtakes(h, g)
          PROVE  \E i \in DOMAIN pendingFlushes : \E l \in pendingFlushes[i].lineages :
                    Outstanding(l) /\ (l \in active => l \in Pending /\ mode[h] = "queued")
      <4>1. g \in ahead[h] /\ flush'[g] = "waiting" /\ Head(queue).id = h
        BY Zenon, <3>4 DEF Overtakes, h
      <4> QED
        BY Zenon, <1>0, <2>1, <2>2, <2>3, <4>1, HeadOvertakes
    <3> QED
      BY Zenon, <2>1, <2>2, <3>2, <3>3, <3>4 DEF FlushTurnInv
  <2>4. CASE lineages # {}
    <3> DEFINE w == [flush |-> h, lineages |-> lineages]
               pw == Append(pendingFlushes, w)
    <3>1. w \in PendingFlush /\ w.flush = h
      BY <2>2 DEF PendingFlush
    <3>2. pw \in Seq(PendingFlush)
      BY Zenon, <1>0, <3>1, SeqAppend
    <3> HIDE DEF w
    <3>3. InTurn(queue', pw, flush, ahead)
      BY Zenon, <1>0, <2>1, <2>2, <3>1, TurnDefer DEF h
    <3>4. CompleteReadyFlushes(pw, active, flush)
      BY Zenon, <2>1, <2>4 DEF w
    <3> HIDE DEF pw
    <3>5. /\ InTurn(queue', pendingFlushes', flush', ahead)
          /\ \A f, g \in Flush : flush[f] = "waiting" /\ flush'[f] = "ok" /\ g \in ahead[f] => flush'[g] # "waiting"
      BY Zenon, <3>2, <3>3, <3>4, CompleteInTurn
    <3>6. Alone
      BY Zenon, <3>5 DEF Overtakes
    <3> QED
      BY Zenon, <2>1, <3>5, <3>6 DEF FlushTurnInv
  <2> QED
    BY Zenon, <2>3, <2>4
<1> QED
  BY Zenon, <1>1, <1>2, <1>3, <1>4, <1>5, FlushMoves

\* For any number of publications and flush calls, a flush is acknowledged before one
\* that was called earlier only at the head of the channel, and only past one that
\* waits for a lineage the dispatcher no longer holds active or a managed call which the
\* overtaking flush does not ask for.
THEOREM FlushesOrdered == Spec => FlushOrder
<1> DEFINE Ordered ==
      \A f, g \in Flush : Overtakes(f, g) =>
          /\ queue # <<>> /\ Head(queue) = [kind |-> "flush", id |-> f]
          /\ \E i \in DOMAIN pendingFlushes : \E l \in pendingFlushes[i].lineages :
                Outstanding(l) /\ (l \in active => l \in Pending /\ mode[f] = "queued")
<1>1. Init => FlushTurnInv
  BY DEF Init, FlushTurnInv, InTurn, FlushIn, Deferred
<1>2. TypeOK /\ FlushTurnInv /\ [Next]_vars => FlushTurnInv' /\ [Ordered]_vars
  BY Zenon, FlushTurnStep
<1> QED
  BY <1>1, <1>2, TypeCorrect, PTL DEF Spec, FlushOrder
==============================================================================
