------------------------- MODULE SubscriberDispatcher -------------------------
(***************************************************************************)
(* The process-wide subscriber dispatcher of NeMo Relay                    *)
(* (crates/core/src/api/runtime/subscriber_dispatcher.rs).                 *)
(*                                                                         *)
(* Runtime calls hand events to one dispatcher thread over an unbounded    *)
(* FIFO channel.  The thread runs an event's transform, metadata injectors *)
(* and sanitizers, then its subscribers.  Any of these callbacks may emit  *)
(* further events: subscribers to the tail of the channel, the other       *)
(* callbacks to a buffer that is drained right after their event.  An      *)
(* asynchronous publication reserves a place in the channel (a barrier) at *)
(* which the dispatcher waits for the task's events; a pending publication *)
(* registers managed work without blocking the channel.  A flush is        *)
(* acknowledged when the lineages that were outstanding at its place in    *)
(* the channel have drained.                                               *)
(***************************************************************************)
EXTENDS Naturals, Sequences

CONSTANTS
    Event,        \* the events (Deliver messages) of the run
    Task,         \* asynchronous publications (Barrier messages)
    Pending,      \* pending publications of managed calls
    Flush,        \* calls of flush_subscribers / flush_queued_subscribers
    Transformed,  \* events that carry a transform
    Injected,     \* events that carry metadata injectors
    Guarded,      \* events that carry sanitizers
    None          \* no value

ASSUME DisjointIds ==
    /\ Event \cap Task = {} /\ Event \cap Pending = {} /\ Task \cap Pending = {}
    /\ None \notin Event \cup Task \cup Pending

ASSUME EventShapes ==
    Transformed \subseteq Event /\ Injected \subseteq Event /\ Guarded \subseteq Event

(***************************************************************************)
(* A permit (PublicationPermit) is owned by the publication it was made    *)
(* for, so it is named after it; a lineage is named after the publication  *)
(* or pending handle whose permit created it.                              *)
(***************************************************************************)
Publication == Event \cup Task
Lineage == Publication \cup Pending

Modes == {"all", "queued"}               \* include_pending true / false
MiddlewareStages == {"transform", "inject", "sanitize"}
Views == {"raw", "transformed", "sanitized", "cleared"}
Places == {"unused", "attached", "queue", "nested", "task", "stack", "delivering", "gone"}
Outcomes == Views \cup {"none", "dropped", "lost"}

VARIABLES
    dispatcher,     \* DispatcherState: None, Ok(sender), Err
    queue,          \* the mpsc channel
    permits,        \* publications and pending handles whose permit is alive
    lineage,        \* the lineage each permit was taken on
    active,         \* DispatcherLoopState.active_lineages
    pendingFlushes, \* DispatcherLoopState.pending_flushes
    stack,          \* what the recursive handle_message has left to do
    delivering,     \* the event in deliver_event, its stage and what it shows
    nested,         \* nested_publications: buffers taken so far and the open one
    task,           \* progress of each asynchronous publication
    taskBuffer,     \* the PublicationBuffer of each running task
    pending,        \* progress of each pending publication
    foreign,        \* buffer captured for a publication made on a foreign thread
    place,          \* where the message of each publication is
    outcome,        \* what became of each event
    flush,          \* progress of each flush call
    mode,           \* include_pending of each flush call
    promised,       \* history: what the documentation makes each flush wait for
    owed,           \* history: the part of it that the code waits for
    atCall,         \* history: lineages that were outstanding at the flush call
    ahead,          \* history: flushes that were waiting at the flush call
    turn,           \* history: the channel position a publication belongs to
    sends,          \* history: number of publications sent to the channel
    served          \* history: channel position of the last event handled

channelVars == <<dispatcher, queue>>
permitVars == <<permits, lineage>>
loopVars == <<active, pendingFlushes, stack, delivering>>
emitterVars == <<task, taskBuffer, pending>>
flushVars == <<flush, mode, atCall, ahead>>
promiseVars == <<promised, owed>>
orderVars == <<turn, sends, served>>
vars == <<channelVars, permitVars, loopVars, nested, emitterVars, foreign, place,
          outcome, flushVars, promiseVars, orderVars>>

-----------------------------------------------------------------------------
(* Types *)

DeliverMsg == [kind : {"deliver"}, id : Event]
PublicationMsg == DeliverMsg \cup [kind : {"barrier"}, id : Task]

Message ==
    PublicationMsg
      \cup [kind : {"flush"}, id : Flush]
      \cup [kind : {"register", "complete"}, id : Pending]

Frame == [op : {"handle"}, id : Publication]
           \cup [op : {"finish"}, id : Event]
           \cup [op : {"await", "release"}, id : Task]

PendingFlush == [flush : Flush, lineages : SUBSET Lineage]

NoDelivery == [event |-> None, stage |-> "idle", view |-> "raw"]

Delivery ==
    {NoDelivery} \cup [event : Event, stage : MiddlewareStages \cup {"subscribe"}, view : Views]

\* A PublicationBuffer: of one middleware stage of an event, or of a task.
Buffer == [owner : Event, stage : MiddlewareStages] \cup [owner : Task, stage : {"task"}]

\* The variables hold values of the kinds the code declares.
TypeOK ==
    /\ dispatcher \in {"unstarted", "running", "failed"}
    /\ queue \in Seq(Message)
    /\ permits \subseteq Lineage
    /\ lineage \in [Lineage -> Lineage]
    /\ active \subseteq Lineage
    /\ pendingFlushes \in Seq(PendingFlush)
    /\ stack \in Seq(Frame)
    /\ delivering \in Delivery
    /\ nested \in Seq(PublicationMsg)
    /\ task \in [Task -> {"none", "running", "published", "dropped"}]
    /\ taskBuffer \in [Task -> Seq(DeliverMsg)]
    /\ pending \in [Pending -> {"none", "registered", "released", "done"}]
    /\ foreign \in [Event -> Buffer \cup {None}]
    /\ place \in [Publication -> Places]
    /\ outcome \in [Event -> Outcomes]
    /\ flush \in [Flush -> {"idle", "waiting", "ok", "skipped", "failed"}]
    /\ mode \in [Flush -> Modes]
    /\ promised \in [Flush -> SUBSET Lineage]
    /\ owed \in [Flush -> SUBSET Lineage]
    /\ atCall \in [Flush -> SUBSET Lineage]
    /\ ahead \in [Flush -> SUBSET Flush]
    /\ turn \in [Publication -> Nat]
    /\ sends \in Nat
    /\ served \in Nat

Init ==
    /\ dispatcher = "unstarted"
    /\ queue = <<>>
    /\ permits = {}
    /\ lineage = [l \in Lineage |-> l]
    /\ active = {}
    /\ pendingFlushes = <<>>
    /\ stack = <<>>
    /\ delivering = NoDelivery
    /\ nested = <<>>
    /\ task = [b \in Task |-> "none"]
    /\ taskBuffer = [b \in Task |-> <<>>]
    /\ pending = [p \in Pending |-> "none"]
    /\ foreign = [e \in Event |-> None]
    /\ place = [x \in Publication |-> "unused"]
    /\ outcome = [e \in Event |-> "none"]
    /\ flush = [f \in Flush |-> "idle"]
    /\ mode = [f \in Flush |-> "all"]
    /\ promised = [f \in Flush |-> {}]
    /\ owed = [f \in Flush |-> {}]
    /\ atCall = [f \in Flush |-> {}]
    /\ ahead = [f \in Flush |-> {}]
    /\ turn = [x \in Publication |-> 0]
    /\ sends = 0
    /\ served = 0

-----------------------------------------------------------------------------
(* Emitting a publication *)

Ids(msgs) == {msgs[i].id : i \in DOMAIN msgs}

Msg(x) == [kind |-> IF x \in Event THEN "deliver" ELSE "barrier", id |-> x]

\* Nothing was emitted under this name yet, nor will be by a foreign thread.
Unused(x) == place[x] = "unused" /\ (x \in Event => foreign[x] = None)

\* A message has one owner; these messages move to another one.
Move(xs, to) == place' = [x \in Publication |-> IF x \in xs THEN to ELSE place[x]]

\* dispatcher_sender: start the dispatcher lazily; a failed start is remembered.
SenderOk == dispatcher # "failed" /\ dispatcher' = "running"
SenderErr == dispatcher # "running" /\ dispatcher' = "failed"

\* attach_publication_lineage: take a permit for x on lineage l.
Attach(x, l) ==
    /\ permits' = permits \cup {x}
    /\ lineage' = [lineage EXCEPT ![x] = l]

\* History: o caused x.  The documentation promises a waiting flush for o to
\* wait for x too; the code does so if o's lineage is as old as the flush.
Promise(x, o) ==
    /\ promised' = [f \in Flush |-> IF flush[f] = "waiting" /\ o \in promised[f]
                                    THEN promised[f] \cup {x} ELSE promised[f]]
    /\ owed' = [f \in Flush |->
                  IF flush[f] = "waiting" /\ o \in owed[f] /\ lineage[o] \in atCall[f]
                  THEN owed[f] \cup {x} ELSE owed[f]]

\* A registered barrier is handed to a background task at once.
StartTask(x) ==
    task' = [b \in Task |-> IF b = x THEN "running" ELSE task[b]]

\* send_dispatch_message of a publication, with the position it gets.
SendPublication(x) ==
    /\ SenderOk
    /\ queue' = Append(queue, Msg(x))
    /\ sends' = sends + 1
    /\ turn' = [turn EXCEPT ![x] = sends + 1]
    /\ Move({x}, "queue")

\* A publication made on a thread in no publication context; it may be the
\* terminal event of the managed call that holds p.
Emit(x, p) ==
    /\ Unused(x)
    /\ p # None => pending[p] = "registered"
    /\ SendPublication(x)
    /\ Attach(x, x)
    /\ Promise(x, p)
    /\ StartTask(x)
    /\ UNCHANGED <<loopVars, nested, taskBuffer, pending, foreign, outcome,
                   flushVars, served>>

\* The dispatcher thread cannot be started: dispatch_* returns false.
EmitLost(e) ==
    /\ Unused(e)
    /\ SenderErr
    /\ outcome' = [outcome EXCEPT ![e] = "lost"]
    /\ Move({e}, "gone")
    /\ UNCHANGED <<queue, permitVars, loopVars, nested, emitterVars, foreign,
                   flushVars, promiseVars, orderVars>>

\* Mutant: the callback's publication does not join its event's lineage.
SubscriberEmitFresh(x) ==
    /\ delivering.stage = "subscribe"
    /\ Unused(x)
    /\ SendPublication(x)
    /\ Attach(x, x)
    /\ Promise(x, delivering.event)
    /\ StartTask(x)
    /\ UNCHANGED <<loopVars, nested, taskBuffer, pending, foreign, outcome,
                   flushVars, served>>

\* A subscriber emits on the dispatcher thread: channel tail, event's lineage.
SubscriberEmit(x) ==
    /\ delivering.stage = "subscribe"
    /\ Unused(x)
    /\ SendPublication(x)
    /\ Attach(x, lineage[delivering.event])
    /\ Promise(x, delivering.event)
    /\ StartTask(x)
    /\ UNCHANGED <<loopVars, nested, taskBuffer, pending, foreign, outcome,
                   flushVars, served>>

\* A transform, injector or sanitizer emits: into the nested buffer.
NestedEmit(x) ==
    /\ delivering.stage \in MiddlewareStages
    /\ Unused(x)
    /\ nested' = Append(nested, Msg(x))
    /\ Move({x}, "nested")
    /\ Attach(x, lineage[delivering.event])
    /\ Promise(x, delivering.event)
    /\ StartTask(x)
    /\ turn' = [turn EXCEPT ![x] = turn[delivering.event]]
    /\ UNCHANGED <<channelVars, loopVars, taskBuffer, pending, foreign, outcome,
                   flushVars, sends, served>>

\* Mutant: a task's event goes to the tail, on the task's lineage.
TaskEmitToTail(e, b) ==
    /\ task[b] = "running"
    /\ Unused(e)
    /\ queue' = Append(queue, Msg(e))
    /\ Move({e}, "queue")
    /\ Attach(e, lineage[b])
    /\ Promise(e, b)
    /\ turn' = [turn EXCEPT ![e] = turn[b]]
    /\ UNCHANGED <<dispatcher, taskBuffer, loopVars, nested, task, pending, foreign, outcome,
                   flushVars, sends, served>>

\* A background task emits: into its own buffer, which has no lineage.
TaskEmit(e, b) ==
    /\ task[b] = "running"
    /\ Unused(e)
    /\ taskBuffer' = [taskBuffer EXCEPT ![b] = Append(@, Msg(e))]
    /\ Move({e}, "task")
    /\ Attach(e, e)
    /\ Promise(e, b)
    /\ turn' = [turn EXCEPT ![e] = turn[b]]
    /\ UNCHANGED <<channelVars, loopVars, nested, task, pending, foreign, outcome,
                   flushVars, sends, served>>

-----------------------------------------------------------------------------
(* Publications on foreign callback threads *)

\* PublicationBuffer::is_active: the buffer was not taken yet.  The buffer of
\* a task that died is never taken.
IsActive(buf) ==
    IF buf.stage = "task"
    THEN task[buf.owner] \in {"running", "dropped"}
    ELSE delivering.event = buf.owner /\ delivering.stage = buf.stage

OpenBuffers ==
    {[owner |-> delivering.event, stage |-> delivering.stage] :
        s \in {delivering.stage} \cap MiddlewareStages}
      \cup {[owner |-> b, stage |-> "task"] : b \in {c \in Task : task[c] = "running"}}

\* capture_nested_publication_buffer for a thread that will emit e.
ForeignCapture(e) ==
    /\ Unused(e)
    /\ \E buf \in OpenBuffers : foreign' = [foreign EXCEPT ![e] = buf]
    /\ UNCHANGED <<channelVars, permitVars, loopVars, nested, emitterVars, place,
                   outcome, flushVars, promiseVars, orderVars>>

\* The foreign thread enqueues e: first the permit, on the buffer's lineage.
ForeignAttach(e) ==
    /\ foreign[e] # None
    /\ place[e] = "unused"
    /\ Move({e}, "attached")
    /\ IF foreign[e].stage = "task"
       THEN Attach(e, e)
       ELSE Attach(e, lineage[foreign[e].owner])
    /\ IF foreign[e].stage # "task" /\ IsActive(foreign[e])
       THEN Promise(e, foreign[e].owner)
       ELSE UNCHANGED promiseVars
    /\ UNCHANGED <<channelVars, loopVars, nested, emitterVars, foreign, outcome,
                   flushVars, orderVars>>

\* Then the push: into the buffer while it is active, else to the channel.
ForeignPush(e) ==
    LET buf == foreign[e] IN
    /\ buf # None /\ place[e] = "attached"
    /\ \/ /\ ~IsActive(buf)
          /\ SendPublication(e)
          /\ UNCHANGED <<nested, taskBuffer, outcome, permits, promiseVars>>
       \/ /\ buf.stage # "task" /\ IsActive(buf)
          /\ nested' = Append(nested, Msg(e))
          /\ Move({e}, "nested")
          /\ turn' = [turn EXCEPT ![e] = turn[buf.owner]]
          /\ UNCHANGED <<channelVars, taskBuffer, outcome, permits, promiseVars, sends>>
       \/ /\ buf.stage = "task" /\ task[buf.owner] = "running"
          /\ taskBuffer' = [taskBuffer EXCEPT ![buf.owner] = Append(@, Msg(e))]
          /\ Move({e}, "task")
          /\ turn' = [turn EXCEPT ![e] = turn[buf.owner]]
          /\ Promise(e, buf.owner)
          /\ UNCHANGED <<channelVars, nested, outcome, permits, sends>>
       \/ /\ buf.stage = "task" /\ task[buf.owner] = "dropped"
          /\ outcome' = [outcome EXCEPT ![e] = "lost"]
          /\ permits' = permits \ {e}
          /\ Move({e}, "gone")
          /\ UNCHANGED <<channelVars, nested, taskBuffer, promiseVars, turn, sends>>
    /\ UNCHANGED <<lineage, loopVars, task, pending, foreign, flushVars, served>>

-----------------------------------------------------------------------------
(* Background tasks, pending publications and flush calls *)

\* The task returns: its buffer is taken and sent to the barrier.
TaskFinish(b) ==
    /\ task[b] = "running"
    /\ task' = [task EXCEPT ![b] = "published"]
    /\ UNCHANGED <<channelVars, permitVars, loopVars, nested, taskBuffer, pending,
                   foreign, place, outcome, flushVars, promiseVars, orderVars>>

\* Mutant: the permits of the events that die with the task leak.
TaskDropLeaks(b) ==
    LET lost == Ids(taskBuffer[b]) IN
    /\ task[b] = "running"
    /\ task' = [task EXCEPT ![b] = "dropped"]
    /\ taskBuffer' = [taskBuffer EXCEPT ![b] = <<>>]
    /\ Move(lost, "gone")
    /\ outcome' = [e \in Event |-> IF e \in lost THEN "lost" ELSE outcome[e]]
    /\ UNCHANGED <<channelVars, permitVars, loopVars, nested, pending, foreign,
                   flushVars, promiseVars, orderVars>>

\* The task panics or could not be spawned: handle and buffer are dropped.
TaskDrop(b) ==
    LET lost == Ids(taskBuffer[b]) IN
    /\ task[b] = "running"
    /\ task' = [task EXCEPT ![b] = "dropped"]
    /\ taskBuffer' = [taskBuffer EXCEPT ![b] = <<>>]
    /\ permits' = permits \ lost
    /\ Move(lost, "gone")
    /\ outcome' = [e \in Event |-> IF e \in lost THEN "lost" ELSE outcome[e]]
    /\ UNCHANGED <<channelVars, lineage, loopVars, nested, pending, foreign,
                   flushVars, promiseVars, orderVars>>

\* register_pending_publication: a lineage of its own, straight to the channel.
RegisterPending(p) ==
    /\ pending[p] = "none"
    /\ SenderOk
    /\ queue' = Append(queue, [kind |-> "register", id |-> p])
    /\ Attach(p, p)
    /\ pending' = [pending EXCEPT ![p] = "registered"]
    /\ UNCHANGED <<loopVars, nested, task, taskBuffer, foreign, place, outcome, flushVars,
                   promiseVars, orderVars>>

\* Dropping the handle queues its permit behind what the call sent before.
ReleasePending(p) ==
    /\ pending[p] = "registered"
    /\ queue' = Append(queue, [kind |-> "complete", id |-> p])
    /\ pending' = [pending EXCEPT ![p] = "released"]
    /\ UNCHANGED <<dispatcher, permitVars, loopVars, nested, task, taskBuffer,
                   foreign, place, outcome, flushVars, promiseVars, orderVars>>

\* What a flush call of mode m has to wait for: every publication handed to
\* the dispatcher that it has not handled, and in mode "all" the managed calls.
Outstanding(l) == \E x \in permits : lineage[x] = l
InTransit(m) ==
    {x \in permits : IF x \in Pending THEN m = "all" ELSE place[x] # "attached"}

\* flush_subscribers_inner on a thread in no publication context.
FlushCall(f, m) ==
    /\ flush[f] = "idle"
    /\ mode' = [mode EXCEPT ![f] = m]
    /\ \/ /\ dispatcher = "unstarted"
          /\ flush' = [flush EXCEPT ![f] = "ok"]
          /\ UNCHANGED <<queue, promiseVars, atCall, ahead>>
       \/ /\ dispatcher = "failed"
          /\ flush' = [flush EXCEPT ![f] = "failed"]
          /\ UNCHANGED <<queue, promiseVars, atCall, ahead>>
       \/ /\ dispatcher = "running"
          /\ flush' = [flush EXCEPT ![f] = "waiting"]
          /\ queue' = Append(queue, [kind |-> "flush", id |-> f])
          /\ promised' = [promised EXCEPT ![f] = InTransit(m)]
          /\ owed' = [owed EXCEPT ![f] = InTransit(m)]
          /\ atCall' = [atCall EXCEPT ![f] = {l \in Lineage : Outstanding(l)}]
          /\ ahead' = [ahead EXCEPT ![f] = {g \in Flush : flush[g] = "waiting"}]
    /\ UNCHANGED <<dispatcher, permitVars, loopVars, nested, emitterVars, foreign, place,
                   outcome, orderVars>>

\* in_dispatcher_callback: inside a callback, a task, or a foreign thread whose
\* captured buffer is active, a flush returns without waiting.
FlushInCallback(f) ==
    /\ flush[f] = "idle"
    /\ \/ delivering.stage # "idle"
       \/ \E b \in Task : task[b] = "running"
       \/ \E e \in Event : foreign[e] # None /\ IsActive(foreign[e])
    /\ flush' = [flush EXCEPT ![f] = "skipped"]
    /\ UNCHANGED <<channelVars, permitVars, loopVars, nested, emitterVars, foreign, place,
                   outcome, mode, atCall, ahead, promiseVars, orderVars>>

-----------------------------------------------------------------------------
(* The dispatcher thread *)

\* Mutant: every ready flush is acknowledged, not the longest ready prefix.
CompleteReadyAny(pf, registered, fs) ==
    LET drained(l) == ~\E x \in permits' : lineage[x] = l
        waits(w) == \E l \in w.lineages : ~drained(l)
    IN  /\ active' = {l \in registered : ~drained(l)}
        /\ pendingFlushes' = SelectSeq(pf, waits)
        /\ flush' = [f \in Flush |->
                       IF \E i \in 1..Len(pf) : pf[i].flush = f /\ ~waits(pf[i])
                       THEN "ok" ELSE fs[f]]

\* complete_ready_flushes: drop drained lineages, then acknowledge the longest
\* prefix of the waiting flushes whose lineages have all drained.  It runs on
\* the waiting flushes pf, with fs the progress of the flush calls.
CompleteReadyFlushes(pf, registered, fs) ==
    LET drained(l) == ~\E x \in permits' : lineage[x] = l
        ready(i) == \A l \in pf[i].lineages : drained(l)
    IN  \E n \in 0..Len(pf) :
          /\ \A i \in 1..n : ready(i)
          /\ n < Len(pf) => ~ready(n + 1)
          /\ active' = {l \in registered : ~drained(l)}
          /\ pendingFlushes' = SubSeq(pf, n + 1, Len(pf))
          /\ flush' = [f \in Flush |->
                         IF \E i \in 1..n : pf[i].flush = f THEN "ok" ELSE fs[f]]

\* rx.recv() of the dispatcher loop.
Receive(kind) ==
    /\ stack = <<>>
    /\ delivering.stage = "idle"
    /\ queue # <<>>
    /\ Head(queue).kind = kind
    /\ queue' = Tail(queue)

\* Mutant: include_pending is ignored.
HandleFlushAll ==
    LET f == Head(queue).id
        lineages == {l \in active : Outstanding(l)}
    IN  /\ Receive("flush")
        /\ UNCHANGED permits
        /\ IF lineages = {}
           THEN CompleteReadyFlushes(pendingFlushes, active, [flush EXCEPT ![f] = "ok"])
           ELSE CompleteReadyFlushes(Append(pendingFlushes, [flush |-> f, lineages |-> lineages]),
                                     active, flush)
        /\ UNCHANGED <<dispatcher, lineage, stack, delivering, nested, emitterVars,
                       foreign, place, outcome, mode, atCall, ahead, promiseVars, orderVars>>

\* defer_or_complete_flush.
HandleFlush ==
    LET f == Head(queue).id
        lineages == {l \in active : (mode[f] = "all" \/ l \notin Pending) /\ Outstanding(l)}
    IN  /\ Receive("flush")
        /\ UNCHANGED permits
        /\ IF lineages = {}
           THEN CompleteReadyFlushes(pendingFlushes, active, [flush EXCEPT ![f] = "ok"])
           ELSE CompleteReadyFlushes(Append(pendingFlushes, [flush |-> f, lineages |-> lineages]),
                                     active, flush)
        /\ UNCHANGED <<dispatcher, lineage, stack, delivering, nested, emitterVars,
                       foreign, place, outcome, mode, atCall, ahead, promiseVars, orderVars>>

HandleRegisterPending ==
    /\ Receive("register")
    /\ UNCHANGED permits
    /\ CompleteReadyFlushes(pendingFlushes, active \cup {Head(queue).id}, flush)
    /\ UNCHANGED <<dispatcher, lineage, stack, delivering, nested, emitterVars,
                   foreign, place, outcome, mode, atCall, ahead, promiseVars, orderVars>>

\* Mutant: the completion does not look for flushes that became ready.
HandleCompletePendingNoWake ==
    LET p == Head(queue).id IN
    /\ Receive("complete")
    /\ permits' = permits \ {p}
    /\ pending' = [pending EXCEPT ![p] = "done"]
    /\ active' = active \cup {p}
    /\ UNCHANGED <<dispatcher, lineage, stack, delivering, nested, task, taskBuffer, place,
                   foreign, outcome, pendingFlushes, flushVars, promiseVars, orderVars>>

HandleCompletePending ==
    LET p == Head(queue).id IN
    /\ Receive("complete")
    /\ permits' = permits \ {p}
    /\ pending' = [pending EXCEPT ![p] = "done"]
    /\ CompleteReadyFlushes(pendingFlushes, active \cup {p}, flush)
    /\ UNCHANGED <<dispatcher, lineage, stack, delivering, nested, task, taskBuffer,
                   foreign, place, outcome, mode, atCall, ahead, promiseVars, orderVars>>

\* Mutant: the permit dies with the received message.
ReceivePublicationNoPermit ==
    /\ Receive("deliver") \/ Receive("barrier")
    /\ stack' = <<[op |-> "handle", id |-> Head(queue).id]>>
    /\ Move({Head(queue).id}, "stack")
    /\ permits' = permits \ {Head(queue).id}
    /\ UNCHANGED <<dispatcher, lineage, active, pendingFlushes, delivering, nested,
                   emitterVars, foreign, outcome, flushVars, promiseVars, orderVars>>

ReceivePublication ==
    /\ Receive("deliver") \/ Receive("barrier")
    /\ stack' = <<[op |-> "handle", id |-> Head(queue).id]>>
    /\ Move({Head(queue).id}, "stack")
    /\ UNCHANGED <<dispatcher, permitVars, active, pendingFlushes, delivering, nested,
                   emitterVars, foreign, outcome, flushVars, promiseVars, orderVars>>

\* Mutant: without a runtime for the sanitizers the event is shown as it is.
EnterSanitizeOpen(e, v) ==
    IF e \in Guarded THEN {<<"sanitize", v>>, <<"subscribe", v>>}
                     ELSE {<<"subscribe", v>>}

\* Where sanitize_event_snapshot goes next: <<stage, view>>.  A stage whose
\* runtime cannot be built is not entered: the transform's event is dropped,
\* injection is skipped, and sanitizing clears the fields instead.
EnterSanitize(e, v) ==
    IF e \in Guarded THEN {<<"sanitize", v>>, <<"subscribe", "cleared">>}
                     ELSE {<<"subscribe", v>>}

EnterInject(e, v) ==
    (IF e \in Injected THEN {<<"inject", v>>} ELSE {}) \cup EnterSanitize(e, v)

EnterTransform(e) ==
    IF e \in Transformed THEN {<<"transform", "raw">>, <<"drop", "raw">>}
                         ELSE EnterInject(e, "raw")

\* A stage ends, normally or by a caught panic.
AfterStage(d) ==
    CASE d.stage = "transform" -> EnterInject(d.event, "transformed") \cup {<<"drop", "raw">>}
      [] d.stage = "inject" -> EnterSanitize(d.event, d.view)
      [] d.stage = "sanitize" -> {<<"subscribe", "sanitized">>, <<"subscribe", "cleared">>}

HandleFrames(msgs) == [i \in DOMAIN msgs |-> [op |-> "handle", id |-> msgs[i].id]]

\* deliver_event returns: drop the permit, then handle the nested publications
\* with rest still to do.
EndDelivery(e, result, rest) ==
    /\ delivering' = NoDelivery
    /\ outcome' = [outcome EXCEPT ![e] = result]
    /\ permits' = permits \ {e}
    /\ stack' = HandleFrames(nested) \o <<[op |-> "finish", id |-> e]>> \o rest
    /\ nested' = <<>>
    /\ place' = [x \in Publication |->
                   IF x = e THEN "gone" ELSE IF x \in Ids(nested) THEN "stack" ELSE place[x]]

\* Mutant: a dropped event stays in delivery.
AdvanceNoDrop(e, pt, rest) ==
    /\ delivering' = [event |-> e, stage |-> pt[1], view |-> pt[2]]
    /\ stack' = rest
    /\ Move({e}, "delivering")
    /\ UNCHANGED <<outcome, permits, nested>>

\* Go to the stage pt[1] showing pt[2], or end the delivery if it is dropped.
Advance(e, pt, rest) ==
    IF pt[1] = "drop"
    THEN EndDelivery(e, "dropped", rest)
    ELSE /\ delivering' = [event |-> e, stage |-> pt[1], view |-> pt[2]]
         /\ stack' = rest
         /\ Move({e}, "delivering")
         /\ UNCHANGED <<outcome, permits, nested>>

Step(op) == delivering.stage = "idle" /\ stack # <<>> /\ Head(stack).op = op

\* handle_message of a Deliver: register the lineage and start deliver_event.
HandleDeliver ==
    LET e == Head(stack).id IN
    /\ Step("handle") /\ e \in Event
    /\ active' = active \cup {lineage[e]}
    /\ served' = turn[e]
    /\ \E pt \in EnterTransform(e) : Advance(e, pt, Tail(stack))
    /\ UNCHANGED <<channelVars, lineage, pendingFlushes, emitterVars, foreign,
                   flushVars, promiseVars, turn, sends>>

EndStage ==
    /\ delivering.stage \in MiddlewareStages
    /\ \E pt \in AfterStage(delivering) : Advance(delivering.event, pt, stack)
    /\ UNCHANGED <<channelVars, lineage, active, pendingFlushes, emitterVars, foreign,
                   flushVars, promiseVars, orderVars>>

\* The last subscriber returned; a panicking one is skipped.
EndSubscribers ==
    /\ delivering.stage = "subscribe"
    /\ EndDelivery(delivering.event, delivering.view, stack)
    /\ UNCHANGED <<channelVars, lineage, active, pendingFlushes, emitterVars, foreign,
                   flushVars, promiseVars, orderVars>>

\* After the nested publications: the completion receipt, then ready flushes.
FinishDeliver ==
    /\ Step("finish")
    /\ stack' = Tail(stack)
    /\ UNCHANGED permits
    /\ CompleteReadyFlushes(pendingFlushes, active, flush)
    /\ UNCHANGED <<channelVars, lineage, delivering, nested, emitterVars, foreign, place,
                   outcome, mode, atCall, ahead, promiseVars, orderVars>>

\* handle_message of a Barrier: register the lineage, then block in recv().
HandleBarrier ==
    LET b == Head(stack).id IN
    /\ Step("handle") /\ b \in Task
    /\ active' = active \cup {lineage[b]}
    /\ stack' = <<[op |-> "await", id |-> b]>> \o Tail(stack)
    /\ UNCHANGED <<channelVars, permitVars, pendingFlushes, delivering, nested,
                   emitterVars, foreign, place, outcome, flushVars, promiseVars, orderVars>>

\* Mutant: a dropped handle is not noticed.
ReceivePublicationsOnly ==
    LET b == Head(stack).id IN
    /\ Step("await")
    /\ task[b] = "published"
    /\ stack' = HandleFrames(taskBuffer[b]) \o <<[op |-> "release", id |-> b]>> \o Tail(stack)
    /\ taskBuffer' = [taskBuffer EXCEPT ![b] = <<>>]
    /\ Move(Ids(taskBuffer[b]), "stack")
    /\ UNCHANGED <<channelVars, permitVars, active, pendingFlushes, delivering, nested,
                   task, pending, foreign, outcome, flushVars, promiseVars, orderVars>>

\* recv() returns the publications, or an error when the handle was dropped.
ReceivePublications ==
    LET b == Head(stack).id IN
    /\ Step("await")
    /\ task[b] \in {"published", "dropped"}
    /\ stack' = HandleFrames(taskBuffer[b]) \o <<[op |-> "release", id |-> b]>> \o Tail(stack)
    /\ taskBuffer' = [taskBuffer EXCEPT ![b] = <<>>]
    /\ Move(Ids(taskBuffer[b]), "stack")
    /\ UNCHANGED <<channelVars, permitVars, active, pendingFlushes, delivering, nested,
                   task, pending, foreign, outcome, flushVars, promiseVars, orderVars>>

ReleaseBarrier ==
    /\ Step("release")
    /\ stack' = Tail(stack)
    /\ permits' = permits \ {Head(stack).id}
    /\ Move({Head(stack).id}, "gone")
    /\ CompleteReadyFlushes(pendingFlushes, active, flush)
    /\ UNCHANGED <<channelVars, lineage, delivering, nested, emitterVars, foreign,
                   outcome, mode, atCall, ahead, promiseVars, orderVars>>

-----------------------------------------------------------------------------

DispatcherStep ==
    \/ HandleFlush \/ HandleRegisterPending \/ HandleCompletePending
    \/ ReceivePublication \/ HandleDeliver \/ EndStage \/ EndSubscribers \/ FinishDeliver
    \/ HandleBarrier \/ ReceivePublications \/ ReleaseBarrier

Next ==
    \/ \E x \in Publication, p \in Pending \cup {None} : Emit(x, p)
    \/ \E e \in Event : EmitLost(e) \/ ForeignCapture(e) \/ ForeignAttach(e) \/ ForeignPush(e)
    \/ \E x \in Publication : SubscriberEmit(x) \/ NestedEmit(x)
    \/ \E b \in Task : TaskFinish(b) \/ TaskDrop(b) \/ \E e \in Event : TaskEmit(e, b)
    \/ \E p \in Pending : RegisterPending(p) \/ ReleasePending(p)
    \/ \E f \in Flush : FlushInCallback(f) \/ \E m \in Modes : FlushCall(f, m)
    \/ DispatcherStep

Spec == Init /\ [][Next]_vars

\* The dispatcher thread and the background executor are scheduled, callbacks
\* and tasks return, and a thread inside an enqueue completes it.
ThreadFairness ==
    /\ WF_vars(DispatcherStep)
    /\ \A b \in Task : WF_vars(TaskFinish(b) \/ TaskDrop(b))
    /\ \A e \in Event : WF_vars(ForeignPush(e))

\* Managed calls may stay in flight for ever.
FairSpec == Spec /\ ThreadFairness

\* Managed calls end, one way or the other, and drop their handle.
CallsEnd == \A p \in Pending : WF_vars(ReleasePending(p))

-----------------------------------------------------------------------------
(* Properties *)

\* Published, or lost with a task that died, or dropped by a failed transform;
\* for a task and a managed call: the dispatcher has passed its release.
Handled(x) ==
    IF x \in Event THEN outcome[x] # "none" ELSE x \notin permits

\* A flush is acknowledged only when everything that was handed to the
\* dispatcher before the call has been handled, and with it what callbacks
\* emitted on those lineages, the terminal events of the managed calls it
\* covers and the events of reserved tasks (defer_or_complete_flush,
\* complete_ready_flushes).
FlushCovers ==
    \A f \in Flush : flush[f] = "ok" => \A x \in owed[f] : Handled(x)

\* What the documentation of flush_subscribers promises: the same, for every
\* publication that callbacks emitted transitively.
FlushCoversTransitively ==
    \A f \in Flush : flush[f] = "ok" => \A x \in promised[f] : Handled(x)

\* f is acknowledged while g, which was called before it, still waits.
Overtakes(f, g) ==
    flush[f] = "waiting" /\ flush'[f] = "ok" /\ g \in ahead[f] /\ flush'[g] = "waiting"

\* A flush that was deferred never overtakes another one.  One that finds nothing to
\* wait for at its turn may: then a flush before it is held up by a managed call that
\* this one does not wait for, or by a lineage that had drained and that a foreign
\* thread reopened (defer_or_complete_flush, complete_ready_flushes).
FlushOrder ==
    [][\A f, g \in Flush : Overtakes(f, g) =>
          /\ queue # <<>> /\ Head(queue) = [kind |-> "flush", id |-> f]
          /\ \E i \in DOMAIN pendingFlushes : \E l \in pendingFlushes[i].lineages :
                Outstanding(l) /\ (l \in active => l \in Pending /\ mode[f] = "queued")]_vars

\* "a ready later flush must not overtake an earlier pending flush", said of a flush
\* that waits for everything.
FlushesInTurn ==
    \A f, g \in Flush :
        flush[f] = "ok" /\ g \in ahead[f] /\ mode[f] = "all" => flush[g] = "ok"

\* Every publication on its way to subscribers holds a permit on a lineage,
\* wherever it is: in the channel, a buffer, a reserved slot or the
\* dispatcher's hands.  So no lineage looks drained between two hand-overs.
PermitHeld ==
    /\ \A i \in DOMAIN queue :
          queue[i].kind \in {"deliver", "barrier", "complete"} => queue[i].id \in permits
    /\ \A i \in DOMAIN stack : stack[i].op # "finish" => stack[i].id \in permits
    /\ \A i \in DOMAIN nested : nested[i].id \in permits
    /\ \A b \in Task : \A i \in DOMAIN taskBuffer[b] : taskBuffer[b][i].id \in permits
    /\ delivering.event # None => delivering.event \in permits
    /\ \A e \in Event : place[e] = "attached" => e \in permits

\* Events are handled in the order of the channel positions they belong to: a
\* nested publication or one of a reserved barrier comes before everything
\* that was sent to the channel after that position was taken.
ReservedOrder == [][served <= served']_served

\* Subscribers see an event with a transform or sanitizers only after they
\* ran, or with its fields cleared, whatever failed on the way.
FailClosed ==
    \A e \in Event :
        /\ outcome[e] = "raw" => e \notin Transformed \cup Guarded
        /\ outcome[e] = "transformed" => e \notin Guarded

\* Every flush call that waits is acknowledged once managed calls end.
FlushReturns ==
    CallsEnd => \A f \in Flush : flush[f] = "waiting" ~> flush[f] = "ok"

\* A flush_queued_subscribers with no flush_subscribers waiting before it
\* returns even if managed calls never end.
QueuedFlushReturns ==
    \A f \in Flush :
        /\ flush[f] = "waiting" /\ mode[f] = "queued"
        /\ \A g \in ahead[f] : mode[g] = "queued"
        ~> flush[f] = "ok"

\* Every publication handed to the dispatcher is handled, once managed calls end.
PublicationsHandled ==
    CallsEnd => \A x \in Publication : x \in permits ~> Handled(x)
=============================================================================
