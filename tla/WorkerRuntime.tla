---------------------------- MODULE WorkerRuntime ----------------------------
(***************************************************************************)
(* A daemon worker process (daemon/worker/runtime.rs): which requests it   *)
(* admits, how it stops, and what a lost control connection does to it.    *)
(*                                                                         *)
(* The tasks of the process share three flags and a counter, all atomics,  *)
(* a lock around the tokens and a Notify.  A step is one access to one of  *)
(* them, or an await; accesses with no effect on another task are joined.  *)
(* Atomics are taken to be sequentially consistent.                        *)
(*                                                                         *)
(* A registration with the daemon is a number, and so is its data token:   *)
(* 0 is the first one, each recovery attempt has the next.                 *)
(***************************************************************************)
EXTENDS Naturals, FiniteSets

CONSTANTS
    Req,            \* requests that reach the proxy handler
    Probe,          \* readiness probes that reach their handler
    MaxAttempts,    \* bound: recovery attempts
    None            \* no token

ASSUME RuntimeAssumption == IsFiniteSet(Req) /\ MaxAttempts \in Nat /\ None \notin Nat

VARIABLES
    accepting, draining, exiting,   \* WorkerState's flags
    in_flight,                      \* requests counted, admitted or about to be
    drain_deadline,                 \* "none", "set" or "past"
    data, pending_data, readiness_data,     \* AuthTokens
    req,        \* the admit and release steps of a request
    probe,      \* the steps of a readiness_probe handler, and its token
    answered,   \* tokens some probe was answered for
    mon,        \* the control task: where it is
    attempts,   \* registrations so far, after the first
    signal,     \* the signal task: its steps through request_exit
    main,       \* serve: waiting in wait_until_stopped, then stopping
    stop,       \* why wait_until_stopped returned
    woken,      \* the waiter's Notified has been notified
    closed      \* not accepting since the waiter saw no request in flight

tokens == <<data, pending_data, readiness_data>>
flags == <<accepting, draining, exiting>>
vars == <<flags, in_flight, drain_deadline, tokens, req, probe, answered, mon, attempts,
          signal, main, stop, woken, closed>>

Tokens == 0 .. MaxAttempts

Init ==
    /\ accepting = FALSE /\ draining = FALSE /\ exiting = FALSE
    /\ in_flight = 0
    /\ drain_deadline = "none"
    /\ data = 0 /\ pending_data = None /\ readiness_data = 0
    /\ req = [q \in Req |-> "new"]
    /\ probe = [p \in Probe |-> [pc |-> "new", t |-> None]]
    /\ answered = {}
    /\ mon = "initial" /\ attempts = 0
    /\ signal = "armed"
    /\ main = "starting" /\ stop = "none" /\ woken = FALSE
    /\ closed = FALSE

FlagTypes ==
    /\ accepting \in BOOLEAN /\ draining \in BOOLEAN /\ exiting \in BOOLEAN
    /\ woken \in BOOLEAN /\ closed \in BOOLEAN

TokenTypes ==
    /\ data \in Tokens
    /\ pending_data \in Tokens \cup {None} /\ readiness_data \in Tokens \cup {None}
    /\ answered \subseteq Tokens
    /\ attempts \in Tokens
    /\ probe \in [Probe -> [pc : {"new", "asked", "taken", "open", "done"},
                            t : Tokens \cup {None}]]

StepTypes ==
    /\ drain_deadline \in {"none", "set", "past"}
    /\ req \in [Req -> {"new", "checked", "counted", "rejected", "admitted", "last", "done"}]
    /\ mon \in {"initial", "opening", "next", "drain", "drain1", "drain2", "ack", "lost",
                "retry", "attach", "rdrain", "rdrain1", "rdrain2", "rack", "ready",
                "exit", "ended"}
    /\ signal \in {"armed", "ended"}
    /\ main \in {"starting", "check", "draining", "count", "wait", "sleep", "exit", "close",
                 "gone", "failed"}
    /\ stop \in {"none", "idle", "deadline", "exiting"}

\* The tokens in use are those of registrations that happened, and the counter of
\* requests neither underflows nor counts one twice (AuthTokens, in_flight).
TypeOK == FlagTypes /\ TokenTypes /\ StepTypes /\ in_flight \in 0 .. Cardinality(Req)

Running == main \notin {"gone", "failed"}

\* The control and signal tasks are aborted at their next await once serve stops.
Polled == main \notin {"close", "gone", "failed"}

\* accepting.store(true): whoever does it ends `closed`.
Open == accepting' = TRUE /\ closed' = FALSE

-----------------------------------------------------------------------------
(* Requests.                                                                *)

\* admit: load, count, load again.  A request turned away at the first load leaves no
\* trace, and may come again.
CheckAccepting(q) ==
    /\ Running /\ req[q] = "new" /\ accepting
    /\ req' = [req EXCEPT ![q] = "checked"]
    /\ UNCHANGED <<flags, in_flight, drain_deadline, tokens, probe, answered, mon, attempts,
                   signal, main, stop, woken, closed>>

Count(q) ==
    /\ Running /\ req[q] = "checked"
    /\ req' = [req EXCEPT ![q] = "counted"]
    /\ in_flight' = in_flight + 1
    /\ UNCHANGED <<flags, drain_deadline, tokens, probe, answered, mon, attempts, signal, main, stop,
                   woken, closed>>

\* Mutant: the second look forgets to give the count back.
RecheckForgets(q) ==
    /\ Running /\ req[q] = "counted"
    /\ req' = [req EXCEPT ![q] = IF accepting THEN "admitted" ELSE "done"]
    /\ UNCHANGED <<flags, in_flight, drain_deadline, tokens, probe, answered, mon, attempts,
                   signal, main, stop, woken, closed>>

\* Mutant: no second look.
AdmitAtOnce(q) ==
    /\ Running /\ req[q] = "counted"
    /\ req' = [req EXCEPT ![q] = "admitted"]
    /\ UNCHANGED <<flags, in_flight, drain_deadline, tokens, probe, answered, mon, attempts,
                   signal, main, stop, woken, closed>>

Recheck(q) ==
    /\ Running /\ req[q] = "counted"
    /\ req' = [req EXCEPT ![q] = IF accepting THEN "admitted" ELSE "rejected"]
    /\ UNCHANGED <<flags, in_flight, drain_deadline, tokens, probe, answered, mon, attempts,
                   signal, main, stop, woken, closed>>

\* release_in_flight, for a rejected request and for one whose response body is done:
\* the last one looks whether a drain is waiting for it.
Uncount(q) ==
    /\ Running /\ req[q] \in {"rejected", "admitted"}
    /\ req' = [req EXCEPT ![q] = IF in_flight = 1 THEN "last" ELSE "done"]
    /\ in_flight' = in_flight - 1
    /\ UNCHANGED <<flags, drain_deadline, tokens, probe, answered, mon, attempts, signal, main, stop,
                   woken, closed>>

\* Mutant: the last request does not notify the drain.
NotifyNobody(q) ==
    /\ Running /\ req[q] = "last"
    /\ req' = [req EXCEPT ![q] = "done"]
    /\ UNCHANGED <<flags, in_flight, drain_deadline, tokens, probe, answered, mon, attempts,
                   signal, main, stop, woken, closed>>

NotifyDrain(q) ==
    /\ Running /\ req[q] = "last"
    /\ req' = [req EXCEPT ![q] = "done"]
    /\ woken' = (woken \/ draining)
    /\ UNCHANGED <<flags, in_flight, drain_deadline, tokens, probe, answered, mon, attempts,
                   signal, main, stop, closed>>

-----------------------------------------------------------------------------
(* Readiness probes.                                                        *)

\* authenticate_daemon_request, and the first look of readiness_probe at the flags.
\* The daemon probes once for a registration that asks to be ready; a probe with a
\* token that is only still valid may come at any time.
StartProbe(p) ==
    /\ Running /\ probe[p].pc = "new" /\ ~draining /\ ~exiting
    /\ \E t \in {data, pending_data} \ {None} :
       /\ mon \in {"initial", "ready"} /\ t = attempts => \A o \in Probe : probe[o].t # t
       /\ probe' = [probe EXCEPT ![p] = [pc |-> "asked", t |-> t]]
    /\ UNCHANGED <<flags, in_flight, drain_deadline, tokens, req, answered, mon, attempts,
                   signal, main, stop, woken, closed>>

\* Mutant: any token that authenticates a request opens admission.
TakeAnyToken(p) ==
    /\ Running /\ probe[p].pc = "asked"
    /\ readiness_data' = IF readiness_data = probe[p].t THEN None ELSE readiness_data
    /\ probe' = [probe EXCEPT ![p].pc = "taken"]
    /\ UNCHANGED <<flags, in_flight, drain_deadline, data, pending_data, req, answered, mon,
                   attempts, signal, main, stop, woken, closed>>

\* activate_pending_readiness: the staged token is used up under the lock, the flags
\* are looked at after it, and then admission opens.
TakeToken(p) ==
    /\ Running /\ probe[p].pc = "asked"
    /\ IF readiness_data = probe[p].t
       THEN /\ readiness_data' = None
            /\ probe' = [probe EXCEPT ![p].pc = "taken"]
            /\ UNCHANGED answered
       ELSE /\ probe' = [probe EXCEPT ![p].pc = "done"]
            /\ answered' = answered \cup {probe[p].t}
            /\ UNCHANGED readiness_data
    /\ UNCHANGED <<flags, in_flight, drain_deadline, data, pending_data, req, mon, attempts,
                   signal, main, stop, woken, closed>>

CheckStopping(p) ==
    /\ Running /\ probe[p].pc = "taken"
    /\ IF draining \/ exiting
       THEN /\ probe' = [probe EXCEPT ![p].pc = "done"]
            /\ answered' = answered \cup {probe[p].t}
       ELSE /\ probe' = [probe EXCEPT ![p].pc = "open"]
            /\ UNCHANGED answered
    /\ UNCHANGED <<flags, in_flight, drain_deadline, tokens, req, mon, attempts, signal, main, stop,
                   woken, closed>>

OpenAdmission(p) ==
    /\ Running /\ probe[p].pc = "open"
    /\ Open
    /\ probe' = [probe EXCEPT ![p].pc = "done"]
    /\ answered' = answered \cup {probe[p].t}
    /\ UNCHANGED <<draining, exiting, in_flight, drain_deadline, tokens, req, mon, attempts,
                   signal, main, stop, woken>>

-----------------------------------------------------------------------------
(* The control task: serve up to readiness, then monitor_control.           *)

To(from, to) == mon = from /\ mon' = to

rest == <<req, probe, answered, signal, stop>>

\* Readiness is acknowledged after the daemon's probe of this registration.
InitialReady ==
    /\ Running /\ To("initial", "opening") /\ 0 \in answered
    /\ readiness_data' = None
    /\ UNCHANGED <<flags, in_flight, drain_deadline, data, pending_data, rest, attempts, main,
                   woken, closed>>

\* An error, or INITIAL_READY_TIMEOUT: the process ends.
InitialFails ==
    /\ Running /\ To("initial", "ended")
    /\ main' = "failed"
    /\ UNCHANGED <<flags, in_flight, drain_deadline, tokens, rest, attempts, woken, closed>>

\* The last store of control_restored.  The other flag it looks at, draining, is
\* only written by this task; exiting may be set between the look and the store.
OpenRestored ==
    /\ Running /\ To("opening", "next")
    /\ Open
    /\ main' = IF main = "starting" THEN "check" ELSE main
    /\ UNCHANGED <<draining, exiting, in_flight, drain_deadline, tokens, rest, attempts, woken>>

\* Mutant: a drain event that comes again restarts the deadline.
SetDeadlineAgain(from, ack, next) ==
    /\ Running /\ mon = from
    /\ mon' = IF draining THEN ack ELSE next
    /\ drain_deadline' = "set"
    /\ UNCHANGED <<flags, in_flight, tokens, rest, attempts, main, woken, closed>>

\* begin_drain, unless the worker drains already: the deadline, draining, accepting
\* and the notification; for a drain event of the session ("drain") and for one that a
\* recovered session brings ("rdrain").
SetDeadline(from, ack, next) ==
    /\ Running /\ mon = from
    /\ mon' = IF draining THEN ack ELSE next
    /\ drain_deadline' = IF draining THEN drain_deadline ELSE "set"
    /\ UNCHANGED <<flags, in_flight, tokens, rest, attempts, main, woken, closed>>

SetDraining(from, next) ==
    /\ Running /\ To(from, next)
    /\ draining' = TRUE
    /\ UNCHANGED <<accepting, exiting, in_flight, drain_deadline, tokens, rest, attempts, main,
                   woken, closed>>

CloseAndNotify(from, next) ==
    /\ Running /\ To(from, next)
    /\ accepting' = FALSE
    /\ woken' = TRUE
    /\ UNCHANGED <<draining, exiting, in_flight, drain_deadline, tokens, rest, attempts, main,
                   closed>>

\* registration.next(): a drain event, or the end of the session.
NextEvent ==
    /\ Polled
    /\ To("next", "drain") \/ To("next", "lost")
    /\ UNCHANGED <<flags, in_flight, drain_deadline, tokens, rest, attempts, main, woken, closed>>

Acknowledge ==
    /\ Polled
    /\ To("ack", "next") \/ To("ack", IF exiting THEN "ended" ELSE "retry")
    /\ UNCHANGED <<flags, in_flight, drain_deadline, tokens, rest, attempts, main, woken, closed>>

\* control_lost
ControlLost ==
    /\ Running /\ To("lost", IF exiting THEN "ended" ELSE "retry")
    /\ accepting' = FALSE
    /\ UNCHANGED <<draining, exiting, in_flight, drain_deadline, tokens, rest, attempts, main,
                   woken, closed>>

\* One attempt of retry_until: the session is recovered, with a pending drain or not.
Recover ==
    /\ Polled /\ attempts < MaxAttempts
    /\ To("retry", "rdrain") \/ To("retry", "attach")
    /\ attempts' = attempts + 1
    /\ UNCHANGED <<flags, in_flight, drain_deadline, tokens, rest, main, woken, closed>>

RecoveredAcknowledge ==
    /\ Polled
    /\ To("rack", "attach") \/ To("rack", "retry")
    /\ UNCHANGED <<flags, in_flight, drain_deadline, tokens, rest, attempts, main, woken, closed>>

\* A draining worker keeps the session; any other stages the token and asks to be ready.
Attach ==
    /\ Running /\ mon = "attach"
    /\ mon' = IF draining THEN "next" ELSE "ready"
    /\ IF draining THEN UNCHANGED tokens
       ELSE /\ pending_data' = attempts
            /\ readiness_data' = attempts
            /\ UNCHANGED data
    /\ UNCHANGED <<flags, in_flight, drain_deadline, rest, attempts, main, woken, closed>>

\* discard_recovery_data_token
ReadyFails ==
    /\ Polled /\ To("ready", "retry")
    /\ pending_data' = None /\ readiness_data' = None
    /\ accepting' = FALSE
    /\ UNCHANGED <<draining, exiting, in_flight, drain_deadline, data, rest, attempts, main,
                   woken, closed>>

\* Mutant: the pending token is cleared before it is moved.
TokenClearedFirst ==
    /\ Polled /\ attempts \in answered
    /\ mon = "ready" /\ mon' = IF exiting THEN "next" ELSE "opening"
    /\ data' = None /\ pending_data' = None /\ readiness_data' = None
    /\ UNCHANGED <<flags, in_flight, drain_deadline, rest, attempts, main, woken, closed>>

\* control_restored up to its look at exiting.
ReadyAcknowledged ==
    /\ Polled /\ attempts \in answered
    /\ mon = "ready" /\ mon' = IF exiting THEN "next" ELSE "opening"
    /\ data' = attempts /\ pending_data' = None /\ readiness_data' = None
    /\ UNCHANGED <<flags, in_flight, drain_deadline, rest, attempts, main, woken, closed>>

\* The recovery window is over: request_exit.
GiveUp ==
    /\ Polled /\ To("retry", "exit")
    /\ UNCHANGED <<flags, in_flight, drain_deadline, tokens, rest, attempts, main, woken, closed>>

ControlTask ==
    \/ InitialReady \/ InitialFails \/ OpenRestored
    \/ NextEvent \/ Acknowledge \/ ControlLost
    \/ SetDeadline("drain", "ack", "drain1") \/ SetDraining("drain1", "drain2")
    \/ CloseAndNotify("drain2", "ack")
    \/ Recover \/ RecoveredAcknowledge \/ Attach \/ ReadyFails \/ ReadyAcknowledged \/ GiveUp
    \/ SetDeadline("rdrain", "rack", "rdrain1") \/ SetDraining("rdrain1", "rdrain2")
    \/ CloseAndNotify("rdrain2", "rack")

-----------------------------------------------------------------------------
(* request_exit, by the control task and by the signal task.  Its two stores *)
(* and the notification are one step: nothing looks at both flags.          *)

RequestExit(task) ==
    /\ Running
    /\ \/ task = "control" /\ To("exit", "ended") /\ UNCHANGED signal
       \/ /\ task = "signal" /\ Polled /\ main # "starting"
          /\ signal = "armed" /\ signal' = "ended" /\ UNCHANGED mon
    /\ exiting' = TRUE /\ accepting' = FALSE /\ woken' = TRUE
    /\ UNCHANGED <<draining, in_flight, drain_deadline, tokens, req, probe, answered, attempts,
                   main, stop, closed>>

-----------------------------------------------------------------------------
(* serve: wait_until_stopped, and the end of the process.                   *)

Goes(from, to) == main = from /\ main' = to
others == <<in_flight, drain_deadline, tokens, req, probe, answered, mon, attempts, signal>>

\* A new Notified, and a look at exiting.
WaitCheck ==
    /\ Goes("check", IF exiting THEN "exit" ELSE "draining")
    /\ stop' = IF exiting THEN "exiting" ELSE stop
    /\ woken' = FALSE
    /\ UNCHANGED <<flags, others, closed>>

WaitDraining ==
    /\ Goes("draining", IF draining THEN "count" ELSE "wait")
    /\ UNCHANGED <<flags, others, stop, woken, closed>>

WaitCount ==
    /\ IF in_flight = 0
       THEN Goes("count", "exit") /\ stop' = "idle" /\ closed' = ~accepting
       ELSE /\ UNCHANGED closed
            /\ IF drain_deadline = "past"
               THEN Goes("count", "exit") /\ stop' = "deadline"
               ELSE Goes("count", "sleep") /\ UNCHANGED stop
    /\ UNCHANGED <<flags, others, woken>>

Woken ==
    /\ woken
    /\ Goes("wait", "check") \/ Goes("sleep", "check")
    /\ UNCHANGED <<flags, others, stop, woken, closed>>

SleepEnds ==
    /\ drain_deadline = "past"
    /\ Goes("sleep", "exit") /\ stop' = "deadline"
    /\ UNCHANGED <<flags, others, woken, closed>>

\* The second request_exit, and the aborts.
StopServing ==
    /\ Goes("exit", "close")
    /\ exiting' = TRUE /\ accepting' = FALSE
    /\ UNCHANGED <<draining, others, stop, woken, closed>>

\* managed.close(), and the process ends.
Terminate ==
    /\ Goes("close", "gone")
    /\ UNCHANGED <<flags, others, stop, woken, closed>>

MainTask ==
    WaitCheck \/ WaitDraining \/ WaitCount \/ Woken \/ SleepEnds
    \/ StopServing \/ Terminate

DeadlinePasses ==
    /\ Running /\ drain_deadline = "set"
    /\ drain_deadline' = "past"
    /\ UNCHANGED <<flags, in_flight, tokens, req, probe, answered, mon, attempts, signal, main,
                   stop, woken, closed>>

-----------------------------------------------------------------------------
RequestStep(q) ==
    CheckAccepting(q) \/ Count(q) \/ Recheck(q) \/ Uncount(q) \/ NotifyDrain(q)

ProbeStep(p) == StartProbe(p) \/ TakeToken(p) \/ CheckStopping(p) \/ OpenAdmission(p)

Next ==
    \/ \E q \in Req : RequestStep(q)
    \/ \E p \in Probe : ProbeStep(p)
    \/ ControlTask \/ MainTask \/ DeadlinePasses
    \/ \E t \in {"control", "signal"} : RequestExit(t)

Spec == Init /\ [][Next]_vars

\* Tasks are polled and request handlers end; the drain deadline may never come.
FairSpec ==
    /\ Spec
    /\ \A q \in Req : WF_vars(RequestStep(q))
    /\ WF_vars(ControlTask) /\ WF_vars(MainTask)

-----------------------------------------------------------------------------
(* Properties.                                                              *)

Admitted == {q \in Req : req[q] = "admitted"}

\* The counter the drain waits for is exactly the requests between fetch_add and
\* fetch_sub, a rejected one included: it never underflows (release_in_flight).
InFlightExact ==
    in_flight = Cardinality({q \in Req : req[q] \in {"counted", "rejected", "admitted"}})

\* admit's second look closes the gap between its first look and the count: once the
\* drain has seen nothing in flight with admission closed, nothing is admitted.
NothingAfterIdle == stop = "idle" /\ closed => Admitted = {}

\* A drain event that is delivered again never extends the deadline of the drain.
DeadlineKept == [][drain_deadline = "past" => drain_deadline' = "past"]_vars

\* Without control, admission can only have been opened by a probe that carried the
\* token of a recovery: the first registration's token, which still authenticates
\* requests, does not bring a worker back (activate_pending_readiness).
OldTokenNeverReopens ==
    accepting /\ mon \in {"retry", "rdrain", "rdrain1", "rdrain2", "rack", "attach", "ready"}
    => \E p \in Probe : probe[p].pc = "done" /\ probe[p].t > 0

\* No wakeup is lost: a worker that drains ends when its requests have ended, without
\* the help of the deadline (wait_until_stopped creates its Notified before it looks).
DrainEnds == draining ~> main = "gone"

\* "Already accepted requests have up to two minutes to finish before the worker
\* terminates": a worker that ends before the deadline of its drain has none left.
AcceptedFinish == main = "gone" /\ stop = "idle" => Admitted = {}
=============================================================================
