------------------------- MODULE WorkerRuntimeProofs -------------------------
(***************************************************************************)
(* Proofs about the worker process, for any number of requests, readiness  *)
(* probes and recoveries.                                                  *)
(***************************************************************************)
EXTENDS WorkerRuntime, FiniteSetTheorems, TLAPS

\* The requests between fetch_add and fetch_sub.
Counted == {q \in Req : req[q] \in {"counted", "rejected", "admitted"}}

\* Some probe with the token of a recovery has been answered.
RecoveryProbed == \E p \in Probe : probe[p].pc = "done" /\ probe[p].t > 0

\* What WaitCount saw stays true until admission opens again.
IdleInv == (closed => ~accepting) /\ NothingAfterIdle

\* A drain has a deadline only after it began; only the control task begins one.
DeadlineInv ==
    /\ mon \in {"initial", "opening", "ready", "drain1", "rdrain1"} => ~draining
    /\ ~draining /\ mon \notin {"drain1", "rdrain1"} => drain_deadline = "none"

\* A probe has a token from its first step on.
ProbeInv == \A p \in Probe : probe[p].pc = "new" <=> probe[p].t = None

\* Up to readiness there is one registration and one probe of it.
InitialInv ==
    mon = "initial" =>
        /\ attempts = 0 /\ data = 0 /\ pending_data = None
        /\ \A p \in Probe : probe[p].t \in {None, 0}
        /\ \A o, p \in Probe : probe[o].t = 0 /\ probe[p].t = 0 => o = p
        /\ 0 \in answered => \E p \in Probe : probe[p].t = 0 /\ probe[p].pc = "done"

\* After it, no probe of the first registration is on its way to open admission.
SpentInv ==
    mon # "initial" /\ main # "failed" =>
        /\ readiness_data # 0
        /\ \A p \in Probe : probe[p].t = 0 => probe[p].pc \notin {"taken", "open"}

\* The places of the control task without control.
RecoverySteps == {"retry", "rdrain", "rdrain1", "rdrain2", "rack", "attach", "ready"}

\* Admission is open there, or during a drain, only after the probe of a recovery.
RecoveryInv ==
    /\ mon \in RecoverySteps \ {"retry"} => attempts > 0
    /\ /\ accepting
       /\ mon \in RecoverySteps \cup {"ack"} \/ (draining /\ mon # "drain2")
       => RecoveryProbed

\* The inductive invariant.
RuntimeInv ==
    /\ TypeOK /\ InFlightExact /\ IdleInv /\ DeadlineInv
    /\ ProbeInv /\ InitialInv /\ SpentInv /\ RecoveryInv

-----------------------------------------------------------------------------
(* The counter of requests. *)

\* Only the steps of a request touch its state and the counter.
LEMMA CounterFrame ==
    ASSUME [Next]_vars, ~ \E q \in Req : RequestStep(q)
    PROVE  UNCHANGED <<req, in_flight>>
<1>1. CASE \E p \in Probe : ProbeStep(p)
  BY ZenonT(60), <1>1 DEF ProbeStep, StartProbe, TakeToken, CheckStopping, OpenAdmission
<1>2. CASE ControlTask
  BY ZenonT(60), <1>2 DEF ControlTask, InitialReady, InitialFails, OpenRestored, NextEvent, Acknowledge,
              ControlLost, SetDeadline, SetDraining, CloseAndNotify, Recover,
              RecoveredAcknowledge, Attach, ReadyFails, ReadyAcknowledged, GiveUp, rest
<1>3. CASE MainTask \/ DeadlinePasses
  BY ZenonT(60), <1>3 DEF MainTask, WaitCheck, WaitDraining, WaitCount, Woken, SleepEnds, StopServing,
              Terminate, DeadlinePasses, others
<1>4. CASE \E t \in {"control", "signal"} : RequestExit(t)
  BY <1>4 DEF RequestExit
<1>5. CASE UNCHANGED vars
  BY <1>5 DEF vars
<1> QED
  BY <1>1, <1>2, <1>3, <1>4, <1>5 DEF Next

\* The counter stays exact, and so within its bounds.
LEMMA CountStep ==
    ASSUME TypeOK, InFlightExact, [Next]_vars
    PROVE  InFlightExact' /\ in_flight' \in 0 .. Cardinality(Req)
<1> DEFINE N == Cardinality(Req)
<1>1. in_flight = Cardinality(Counted) /\ (InFlightExact' <=> in_flight' = Cardinality(Counted'))
  BY DEF InFlightExact, Counted
<1>2. IsFiniteSet(Counted) /\ IsFiniteSet(Counted')
  <2>1. Counted \subseteq Req /\ Counted' \subseteq Req
    BY DEF Counted
  <2> QED
    BY ZenonT(60), <2>1, FS_Subset, RuntimeAssumption
<1>3. Cardinality(Counted) \in Nat /\ Cardinality(Counted') \in Nat /\ N \in Nat
      /\ Cardinality(Counted') <= N
  <2>1. Counted' \subseteq Req
    BY DEF Counted
  <2> QED
    BY ZenonT(60), <1>2, <2>1, FS_CardinalityType, FS_Subset, RuntimeAssumption
<1> SUFFICES in_flight' = Cardinality(Counted')
  BY <1>1, <1>3
<1>4. CASE ~ \E q \in Req : RequestStep(q)
  <2>1. UNCHANGED <<req, in_flight>>
    BY ZenonT(60), <1>4, CounterFrame
  <2> QED
    BY ZenonT(60), <1>1, <2>1 DEF Counted
<1>5. ASSUME NEW q \in Req, RequestStep(q) PROVE in_flight' = Cardinality(Counted')
  <2>0. req \in [Req -> {"new", "checked", "counted", "rejected", "admitted", "last", "done"}]
    BY DEF TypeOK, StepTypes
  <2>1. CASE CheckAccepting(q) \/ Recheck(q) \/ NotifyDrain(q)
    <3>1. Counted' = Counted /\ in_flight' = in_flight
      BY ZenonT(60), <2>0, <2>1 DEF CheckAccepting, Recheck, NotifyDrain, Counted
    <3> QED
      BY ZenonT(60), <1>1, <3>1
  <2>2. CASE Count(q)
    <3>1. Counted' = Counted \cup {q} /\ q \notin Counted /\ in_flight' = in_flight + 1
      BY <2>0, <2>2 DEF Count, Counted
    <3> QED
      BY ZenonT(60), <1>1, <1>2, <3>1, FS_AddElement
  <2>3. CASE Uncount(q)
    <3>1. Counted' = Counted \ {q} /\ q \in Counted /\ in_flight' = in_flight - 1
      BY ZenonT(60), <2>0, <2>3 DEF Uncount, Counted
    <3> QED
      BY ZenonT(60), <1>1, <1>2, <3>1, FS_RemoveElement
  <2> QED
    BY ZenonT(60), <1>5, <2>1, <2>2, <2>3 DEF RequestStep
<1> QED
  BY <1>4, <1>5

-----------------------------------------------------------------------------
(* Types. *)

\* Every step keeps the flags Boolean.
LEMMA FlagStep ==
    ASSUME FlagTypes, [Next]_vars
    PROVE  FlagTypes'
<1> USE DEF FlagTypes, flags
<1>1. CASE \E q \in Req : RequestStep(q)
  BY Zenon, <1>1 DEF RequestStep, CheckAccepting, Count, Recheck, Uncount, NotifyDrain
<1>2. CASE \E p \in Probe : ProbeStep(p)
  BY Zenon, <1>2 DEF ProbeStep, StartProbe, TakeToken, CheckStopping, OpenAdmission, Open
<1>3. CASE ControlTask
  BY Zenon, <1>3 DEF ControlTask, InitialReady, InitialFails, OpenRestored, NextEvent,
              Acknowledge, ControlLost, SetDeadline, SetDraining, CloseAndNotify, Recover,
              RecoveredAcknowledge, Attach, ReadyFails, ReadyAcknowledged, GiveUp, Open
<1>4. CASE MainTask
  BY Zenon, <1>4 DEF MainTask, WaitCheck, WaitDraining, WaitCount, Woken, SleepEnds, StopServing,
              Terminate
<1>5. CASE DeadlinePasses \/ UNCHANGED vars
  BY Zenon, <1>5 DEF DeadlinePasses, vars
<1>6. CASE \E t \in {"control", "signal"} : RequestExit(t)
  BY Zenon, <1>6 DEF RequestExit
<1> QED
  BY Zenon, <1>1, <1>2, <1>3, <1>4, <1>5, <1>6 DEF Next

\* A probe that moves on keeps its token.
LEMMA ProbeMovesOn ==
    ASSUME NEW C, NEW T, NEW f \in [Probe -> [pc : C, t : T]], NEW p \in Probe, NEW c \in C
    PROVE  [f EXCEPT ![p].pc = c] \in [Probe -> [pc : C, t : T]]
<1>1. [f[p] EXCEPT !.pc = c] \in [pc : C, t : T]
  <2>1. f[p] \in [pc : C, t : T]
    OBVIOUS
  <2> QED
    BY <2>1
<1> QED
  BY <1>1

\* Every step keeps the tokens those of registrations that happened.
LEMMA TokenStep ==
    ASSUME TokenTypes, ProbeInv, [Next]_vars
    PROVE  TokenTypes'
<1> USE DEF TokenTypes, tokens
<1>1. ASSUME NEW p \in Probe, ProbeStep(p) PROVE TokenTypes'
  <2>0. probe[p].pc # "new" => probe[p].t \in Tokens
    BY DEF ProbeInv
  <2>1. CASE StartProbe(p)
    BY <2>1 DEF StartProbe
  <2>2. ASSUME NEW c \in {"taken", "open", "done"}, probe' = [probe EXCEPT ![p].pc = c]
        PROVE  probe' \in [Probe -> [pc : {"new", "asked", "taken", "open", "done"},
                                     t : Tokens \cup {None}]]
    BY Zenon, <2>2, ProbeMovesOn
  <2>3. CASE TakeToken(p)
    BY ZenonT(60), <2>0, <2>2, <2>3 DEF TakeToken
  <2>4. CASE CheckStopping(p)
    BY ZenonT(60), <2>0, <2>2, <2>4 DEF CheckStopping
  <2>5. CASE OpenAdmission(p)
    BY ZenonT(60), <2>0, <2>2, <2>5 DEF OpenAdmission
  <2> QED
    BY ZenonT(60), <1>1, <2>1, <2>3, <2>4, <2>5 DEF ProbeStep
<1>2. CASE ControlTask
  <2>1. CASE Recover
    BY <2>1, RuntimeAssumption DEF Recover, rest, Tokens
  <2>2. CASE ControlTask /\ ~Recover
    BY ZenonT(60), <2>2 DEF ControlTask, InitialReady, InitialFails, OpenRestored, NextEvent, Acknowledge,
                ControlLost, SetDeadline, SetDraining, CloseAndNotify, RecoveredAcknowledge,
                Attach, ReadyFails, ReadyAcknowledged, GiveUp, rest
  <2> QED
    BY ZenonT(60), <1>2, <2>1, <2>2
<1>3. CASE \E q \in Req : RequestStep(q)
  BY ZenonT(60), <1>3 DEF RequestStep, CheckAccepting, Count, Recheck, Uncount, NotifyDrain
<1>4. CASE MainTask
  BY ZenonT(60), <1>4 DEF MainTask, WaitCheck, WaitDraining, WaitCount, Woken, SleepEnds, StopServing,
              Terminate, others
<1>5. CASE DeadlinePasses \/ UNCHANGED vars
  BY <1>5 DEF DeadlinePasses, vars
<1>6. CASE \E t \in {"control", "signal"} : RequestExit(t)
  BY ZenonT(60), <1>6 DEF RequestExit
<1> QED
  BY ZenonT(60), <1>1, <1>2, <1>3, <1>4, <1>5, <1>6 DEF Next

\* Every step leaves each task at one of its places.
LEMMA PlaceStep ==
    ASSUME StepTypes, [Next]_vars
    PROVE  StepTypes'
<1> USE DEF StepTypes
<1>1. CASE \E q \in Req : RequestStep(q)
  BY ZenonT(60), <1>1 DEF RequestStep, CheckAccepting, Count, Recheck, Uncount, NotifyDrain
<1>2. CASE \E p \in Probe : ProbeStep(p)
  BY ZenonT(60), <1>2 DEF ProbeStep, StartProbe, TakeToken, CheckStopping, OpenAdmission
<1>3. CASE ControlTask
  <2> USE DEF rest, To
  <2>1. CASE InitialReady \/ InitialFails \/ OpenRestored \/ NextEvent \/ Acknowledge
             \/ ControlLost \/ GiveUp
    BY ZenonT(60), <2>1 DEF InitialReady, InitialFails, OpenRestored, NextEvent, Acknowledge, ControlLost,
                GiveUp
  <2>2. CASE \/ SetDeadline("drain", "ack", "drain1") \/ SetDeadline("rdrain", "rack", "rdrain1")
             \/ SetDraining("drain1", "drain2") \/ SetDraining("rdrain1", "rdrain2")
             \/ CloseAndNotify("drain2", "ack") \/ CloseAndNotify("rdrain2", "rack")
    BY ZenonT(60), <2>2 DEF SetDeadline, SetDraining, CloseAndNotify
  <2>3. CASE Recover \/ RecoveredAcknowledge \/ Attach \/ ReadyFails \/ ReadyAcknowledged
    BY ZenonT(60), <2>3 DEF Recover, RecoveredAcknowledge, Attach, ReadyFails, ReadyAcknowledged
  <2> QED
    BY ZenonT(60), <1>3, <2>1, <2>2, <2>3 DEF ControlTask
<1>4. CASE MainTask
  BY ZenonT(60), <1>4 DEF MainTask, WaitCheck, WaitDraining, WaitCount, Woken, SleepEnds, StopServing,
              Terminate, Goes, others
<1>5. CASE DeadlinePasses \/ UNCHANGED vars
  BY ZenonT(60), <1>5 DEF DeadlinePasses, vars
<1>6. CASE \E t \in {"control", "signal"} : RequestExit(t)
  BY <1>6 DEF RequestExit, To
<1> QED
  BY ZenonT(60), <1>1, <1>2, <1>3, <1>4, <1>5, <1>6 DEF Next

\* Every step keeps the types.
LEMMA TypeStep ==
    ASSUME TypeOK, InFlightExact, ProbeInv, [Next]_vars
    PROVE  TypeOK'
BY ZenonT(60), FlagStep, TokenStep, PlaceStep, CountStep DEF TypeOK

-----------------------------------------------------------------------------
(* The drain. *)

\* Nothing is admitted once the wait for the drain has seen nothing in flight.
LEMMA IdleStep ==
    ASSUME TypeOK, InFlightExact, IdleInv, [Next]_vars
    PROVE  IdleInv'
<1> USE DEF IdleInv, NothingAfterIdle, Admitted
<1>1. ASSUME NEW q \in Req, RequestStep(q) PROVE IdleInv'
  <2>0. req \in [Req -> {"new", "checked", "counted", "rejected", "admitted", "last", "done"}]
    BY DEF TypeOK, StepTypes
  <2>1. /\ UNCHANGED <<accepting, stop, closed>>
        /\ \/ \E c \in {"checked", "counted", "rejected", "last", "done"} : req' = [req EXCEPT ![q] = c]
           \/ accepting
    BY ZenonT(60), <1>1 DEF RequestStep, CheckAccepting, Count, Recheck, Uncount, NotifyDrain, flags
  <2> QED
    BY <2>0, <2>1
<1>2. ASSUME NEW p \in Probe, ProbeStep(p) PROVE IdleInv'
  <2>1. UNCHANGED <<req, stop>> /\ (UNCHANGED <<accepting, closed>> \/ Open)
    BY ZenonT(60), <1>2 DEF ProbeStep, StartProbe, TakeToken, CheckStopping, OpenAdmission, flags
  <2> QED
    BY <2>1 DEF Open
<1>3. CASE ControlTask
  <2>1. /\ UNCHANGED <<req, stop>>
        /\ UNCHANGED <<accepting, closed>> \/ Open \/ (accepting' = FALSE /\ closed' = closed)
    BY ZenonT(60), <1>3 DEF ControlTask, InitialReady, InitialFails, OpenRestored, NextEvent, Acknowledge,
              ControlLost, SetDeadline, SetDraining, CloseAndNotify, Recover,
              RecoveredAcknowledge, Attach, ReadyFails, ReadyAcknowledged, GiveUp,
              rest, flags
  <2> QED
    BY <2>1 DEF Open
<1>4. CASE WaitCount
  <2>1. in_flight = 0 => Counted = {}
    <3>1. IsFiniteSet(Counted)
      <4>1. Counted \subseteq Req
        BY DEF Counted
      <4> QED
        BY ZenonT(60), <4>1, FS_Subset, RuntimeAssumption
    <3> QED
      BY ZenonT(60), <3>1, FS_EmptySet DEF InFlightExact, Counted
  <2>2. Counted = {} => Admitted = {}
    BY ZenonT(60) DEF Counted
  <2> QED
    BY ZenonT(60), <1>4, <2>1, <2>2 DEF WaitCount, Goes, others, flags
<1>5. CASE WaitCheck \/ WaitDraining \/ Woken \/ SleepEnds
  BY <1>5 DEF WaitCheck, WaitDraining, Woken, SleepEnds, others, flags
<1>6. CASE StopServing \/ Terminate \/ DeadlinePasses \/ UNCHANGED vars
  BY <1>6 DEF StopServing, Terminate, DeadlinePasses, others, flags, vars
<1>7. CASE \E t \in {"control", "signal"} : RequestExit(t)
  BY <1>7 DEF RequestExit
<1> QED
  BY ZenonT(60), <1>1, <1>2, <1>3, <1>4, <1>5, <1>6, <1>7 DEF Next, MainTask

\* A drain that has begun keeps its deadline, whoever announces it again.
LEMMA DeadlineStep ==
    ASSUME TypeOK, DeadlineInv, [Next]_vars
    PROVE  DeadlineInv' /\ (drain_deadline = "past" => drain_deadline' = "past")
<1> USE DEF DeadlineInv
<1>1. CASE ControlTask
  <2> USE DEF flags, rest, To
  <2>1. CASE InitialReady \/ InitialFails \/ OpenRestored \/ NextEvent \/ Acknowledge
             \/ ControlLost \/ GiveUp
    BY <2>1 DEF InitialReady, InitialFails, OpenRestored, NextEvent, Acknowledge, ControlLost,
                GiveUp
  <2>2. CASE SetDeadline("drain", "ack", "drain1") \/ SetDeadline("rdrain", "rack", "rdrain1")
    BY <2>2 DEF SetDeadline
  <2>3. CASE \/ SetDraining("drain1", "drain2") \/ SetDraining("rdrain1", "rdrain2")
             \/ CloseAndNotify("drain2", "ack") \/ CloseAndNotify("rdrain2", "rack")
    BY <2>3 DEF SetDraining, CloseAndNotify
  <2>4. CASE Recover \/ RecoveredAcknowledge \/ Attach \/ ReadyFails \/ ReadyAcknowledged
    BY <2>4 DEF Recover, RecoveredAcknowledge, Attach, ReadyFails, ReadyAcknowledged
  <2> QED
    BY ZenonT(60), <1>1, <2>1, <2>2, <2>3, <2>4 DEF ControlTask
<1>2. CASE \E q \in Req : RequestStep(q)
  BY <1>2 DEF RequestStep, CheckAccepting, Count, Recheck, Uncount, NotifyDrain, flags
<1>3. CASE \E p \in Probe : ProbeStep(p)
  BY <1>3 DEF ProbeStep, StartProbe, TakeToken, CheckStopping, OpenAdmission, flags
<1>4. CASE MainTask
  BY <1>4 DEF MainTask, WaitCheck, WaitDraining, WaitCount, Woken, SleepEnds, StopServing,
              Terminate, others, flags
<1>5. CASE DeadlinePasses \/ UNCHANGED vars
  BY <1>5 DEF DeadlinePasses, vars, flags
<1>6. CASE \E t \in {"control", "signal"} : RequestExit(t)
  BY <1>6 DEF RequestExit, To
<1> QED
  BY ZenonT(60), <1>1, <1>2, <1>3, <1>4, <1>5, <1>6 DEF Next

-----------------------------------------------------------------------------
(* Probes and tokens. *)

\* Only the steps of a probe touch its state and what has been answered.
LEMMA ProbeFrame ==
    ASSUME [Next]_vars, ~ \E p \in Probe : ProbeStep(p)
    PROVE  UNCHANGED <<probe, answered>>
<1>1. CASE \E q \in Req : RequestStep(q)
  BY <1>1 DEF RequestStep, CheckAccepting, Count, Recheck, Uncount, NotifyDrain
<1>2. CASE ControlTask
  BY ZenonT(60), <1>2 DEF ControlTask, InitialReady, InitialFails, OpenRestored, NextEvent, Acknowledge,
              ControlLost, SetDeadline, SetDraining, CloseAndNotify, Recover,
              RecoveredAcknowledge, Attach, ReadyFails, ReadyAcknowledged, GiveUp, rest
<1>3. CASE MainTask \/ DeadlinePasses
  BY <1>3 DEF MainTask, WaitCheck, WaitDraining, WaitCount, Woken, SleepEnds, StopServing,
              Terminate, DeadlinePasses, others
<1>4. CASE \E t \in {"control", "signal"} : RequestExit(t)
  BY <1>4 DEF RequestExit
<1>5. CASE UNCHANGED vars
  BY <1>5 DEF vars
<1> QED
  BY <1>1, <1>2, <1>3, <1>4, <1>5 DEF Next

\* Steps of requests and of serve, and the clock, leave the control task and what it
\* owns alone; only they do not open admission either.
LEMMA ControlFrame ==
    ASSUME \/ \E q \in Req : RequestStep(q)
           \/ MainTask \/ DeadlinePasses \/ UNCHANGED vars
    PROVE  /\ UNCHANGED <<mon, attempts, data, pending_data, readiness_data, draining>>
           /\ accepting' => accepting
           /\ main' = "failed" <=> main = "failed"
<1>1. CASE \E q \in Req : RequestStep(q)
  <2>1. UNCHANGED <<flags, tokens, mon, attempts, main>>
    BY ZenonT(60), <1>1 DEF RequestStep, CheckAccepting, Count, Recheck, Uncount, NotifyDrain
  <2> QED
    BY <2>1 DEF flags, tokens
<1>2. CASE WaitCheck \/ WaitDraining \/ WaitCount \/ Woken
  BY <1>2 DEF WaitCheck, WaitDraining, WaitCount, Woken, Goes, others, flags, tokens
<1>3. CASE SleepEnds \/ StopServing \/ Terminate
  BY <1>3 DEF SleepEnds, StopServing, Terminate, Goes, others, flags, tokens
<1>4. CASE DeadlinePasses \/ UNCHANGED vars
  BY <1>4 DEF DeadlinePasses, vars, flags, tokens
<1> QED
  BY <1>1, <1>2, <1>3, <1>4 DEF MainTask

\* What a step of a probe does to it.
LEMMA ProbeMoves ==
    ASSUME TypeOK, NEW p \in Probe, ProbeStep(p)
    PROVE  /\ \A o \in Probe \ {p} : probe'[o] = probe[o]
           /\ UNCHANGED <<mon, attempts, data, pending_data, draining, main>>
           /\ Running
           /\ \/ /\ probe[p].pc = "new" /\ probe'[p].pc = "asked"
                 /\ probe'[p].t \in {data, pending_data} \ {None}
                 /\ mon = "initial" /\ probe'[p].t = attempts
                       => \A o \in Probe : probe[o].t # probe'[p].t
                 /\ UNCHANGED <<readiness_data, answered, accepting>>
              \/ /\ probe[p].pc # "new" /\ probe'[p].t = probe[p].t
                 /\ \/ /\ probe[p].pc = "asked" /\ readiness_data = probe[p].t
                       /\ probe'[p].pc = "taken" /\ readiness_data' = None
                       /\ UNCHANGED <<answered, accepting>>
                    \/ /\ probe[p].pc = "taken" /\ probe'[p].pc = "open"
                       /\ UNCHANGED <<readiness_data, answered, accepting>>
                    \/ /\ probe[p].pc \in {"asked", "taken"} /\ probe'[p].pc = "done"
                       /\ answered' = answered \cup {probe[p].t}
                       /\ UNCHANGED <<readiness_data, accepting>>
                    \/ /\ probe[p].pc = "open" /\ probe'[p].pc = "done"
                       /\ answered' = answered \cup {probe[p].t}
                       /\ UNCHANGED readiness_data
<1> USE DEF TypeOK, TokenTypes, flags, tokens
<1>1. CASE StartProbe(p)
  BY <1>1 DEF StartProbe
<1>2. CASE TakeToken(p)
  BY <1>2 DEF TakeToken
<1>3. CASE CheckStopping(p)
  BY <1>3 DEF CheckStopping
<1>4. CASE OpenAdmission(p)
  BY <1>4 DEF OpenAdmission
<1> QED
  BY ZenonT(60), <1>1, <1>2, <1>3, <1>4 DEF ProbeStep

\* Every step keeps the tokens of the probes and the first registration in order.
LEMMA TokenInvStep ==
    ASSUME TypeOK, ProbeInv, InitialInv, SpentInv, [Next]_vars
    PROVE  ProbeInv' /\ InitialInv'
<1>1. ASSUME NEW p \in Probe, ProbeStep(p) PROVE ProbeInv' /\ InitialInv'
  <2>0. None \notin Tokens /\ data \in Tokens /\ pending_data \in Tokens \cup {None}
    BY RuntimeAssumption DEF TypeOK, TokenTypes, Tokens
  <2>1. ProbeInv'
    <3>1. /\ \A o \in Probe \ {p} : probe'[o] = probe[o]
          /\ probe'[p].pc # "new"
          /\ probe'[p].t \in {data, pending_data} \ {None} \/ probe'[p].t = probe[p].t
          /\ probe[p].pc = "new" => probe'[p].t # None
      BY <1>1, ProbeMoves
    <3> QED
      BY ZenonT(60), <3>1 DEF ProbeInv
  <2>2. InitialInv'
    BY <1>1, ProbeMoves, RuntimeAssumption DEF ProbeInv, InitialInv, TypeOK, TokenTypes, Tokens
  <2> QED
    BY <2>1, <2>2
<1>2. ASSUME ~ \E p \in Probe : ProbeStep(p) PROVE ProbeInv' /\ InitialInv'
  <2>1. UNCHANGED <<probe, answered>>
    BY <1>2, ProbeFrame
  <2>2. mon' = "initial" => UNCHANGED <<mon, attempts, data, pending_data>>
    <3>1. CASE ControlTask
      BY ZenonT(60), <3>1 DEF ControlTask, InitialReady, InitialFails, OpenRestored, NextEvent, Acknowledge,
              ControlLost, SetDeadline, SetDraining, CloseAndNotify, Recover, To,
              RecoveredAcknowledge, Attach, ReadyFails, ReadyAcknowledged, GiveUp
    <3>2. CASE \E t \in {"control", "signal"} : RequestExit(t)
      BY ZenonT(60), <3>2 DEF RequestExit, To, tokens
    <3> QED
      BY ZenonT(60), <1>2, <3>1, <3>2, ControlFrame DEF Next
  <2> QED
    BY <2>1, <2>2 DEF ProbeInv, InitialInv
<1> QED
  BY <1>1, <1>2

\* The first token is spent once the worker is ready, and is not staged again.
LEMMA SpentStep ==
    ASSUME TypeOK, DeadlineInv, ProbeInv, InitialInv, SpentInv, RecoveryInv, [Next]_vars
    PROVE  SpentInv'
<1>1. ASSUME NEW p \in Probe, ProbeStep(p) PROVE SpentInv'
  <2>0. None # 0
    BY RuntimeAssumption DEF Tokens
  <2>1. /\ \A o \in Probe \ {p} : probe'[o] = probe[o]
        /\ UNCHANGED <<mon, main>>
        /\ readiness_data' \in {readiness_data, None}
        /\ \/ probe'[p].pc \in {"asked", "done"}
           \/ probe'[p].t = probe[p].t /\ probe[p].pc = "taken"
           \/ probe'[p].t = probe[p].t /\ readiness_data = probe[p].t
    BY ZenonT(60), <1>1, ProbeMoves
  <2> QED
    BY <2>0, <2>1 DEF SpentInv
<1>2. ASSUME ~ \E p \in Probe : ProbeStep(p) PROVE SpentInv'
  <2>1. UNCHANGED <<probe, answered>>
    BY <1>2, ProbeFrame
  <2>2. CASE InitialReady
    <3>1. \A p \in Probe : probe[p].t = 0 => probe[p].pc = "done"
      BY <2>2 DEF InitialReady, To, InitialInv
    <3> QED
      BY <2>1, <2>2, <3>1, RuntimeAssumption DEF InitialReady, SpentInv
  <2>3. CASE InitialFails
    BY <2>3 DEF InitialFails, SpentInv
  <2>4. CASE Attach
    <3>1. readiness_data' = readiness_data \/ (readiness_data' = attempts /\ attempts > 0)
      BY <2>4 DEF Attach, tokens, RecoveryInv, RecoverySteps
    <3> QED
      BY <2>1, <2>4, <3>1 DEF Attach, SpentInv, TypeOK, TokenTypes, Tokens
  <2>5. CASE ReadyFails \/ ReadyAcknowledged
    BY <2>1, <2>5, RuntimeAssumption DEF ReadyFails, ReadyAcknowledged, To, SpentInv
  <2>6. CASE ControlTask /\ ~InitialReady /\ ~InitialFails /\ ~Attach /\ ~ReadyFails
             /\ ~ReadyAcknowledged
    <3>1. mon # "initial" /\ readiness_data' = readiness_data
          /\ (main' = main \/ main # "failed")
      BY ZenonT(60), <2>6 DEF ControlTask, OpenRestored, NextEvent, Acknowledge, ControlLost, SetDeadline,
                  SetDraining, CloseAndNotify, Recover, RecoveredAcknowledge, GiveUp, To, tokens
    <3> QED
      BY <2>1, <3>1 DEF SpentInv
  <2>7. CASE \E t \in {"control", "signal"} : RequestExit(t)
    BY ZenonT(60), <2>1, <2>7 DEF RequestExit, To, SpentInv, tokens
  <2> QED
    BY ZenonT(60), <1>2, <2>1, <2>2, <2>3, <2>4, <2>5, <2>6, <2>7, ControlFrame DEF Next, SpentInv
<1> QED
  BY ZenonT(60), <1>1, <1>2

\* Without control, admission opens only for the token of a recovery.
LEMMA RecoveryStep ==
    ASSUME TypeOK, DeadlineInv, ProbeInv, InitialInv, SpentInv, RecoveryInv, [Next]_vars
    PROVE  RecoveryInv'
<1>0. attempts \in Nat /\ \A p \in Probe : probe[p].t \in Nat \cup {None}
  BY RuntimeAssumption DEF TypeOK, TokenTypes, Tokens
<1>1. ASSUME NEW p \in Probe, ProbeStep(p) PROVE RecoveryInv'
  <2>1. RecoveryProbed => RecoveryProbed'
    BY ZenonT(60), <1>1, ProbeMoves DEF RecoveryProbed
  <2>2. accepting' => accepting \/ (probe[p].pc = "open" /\ probe'[p].pc = "done"
                                       /\ probe'[p].t = probe[p].t)
    BY ZenonT(60), <1>1, ProbeMoves
  <2>3. probe[p].pc = "open" /\ mon # "initial" => probe[p].t > 0
    BY <1>0, <1>1, ProbeMoves DEF SpentInv, ProbeInv, Running
  <2>4. probe[p].pc = "open" /\ mon # "initial" /\ accepting' => accepting \/ RecoveryProbed'
    BY ZenonT(60), <2>2, <2>3 DEF RecoveryProbed
  <2> QED
    BY ZenonT(60), <1>1, <2>1, <2>2, <2>4, ProbeMoves DEF RecoveryInv, RecoverySteps, DeadlineInv
<1>2. ASSUME ~ \E p \in Probe : ProbeStep(p) PROVE RecoveryInv'
  <2>1. RecoveryProbed' <=> RecoveryProbed
    BY <1>2, ProbeFrame DEF RecoveryProbed
  <2> USE DEF RecoveryInv, RecoverySteps
  <2>2. CASE ControlTask
    <3> USE DEF flags, To
    <3>1. CASE InitialReady \/ InitialFails \/ OpenRestored
      BY <2>1, <3>1 DEF InitialReady, InitialFails, OpenRestored, DeadlineInv
    <3>2. CASE NextEvent \/ Acknowledge \/ ControlLost
      BY <2>1, <3>2 DEF NextEvent, Acknowledge, ControlLost
    <3>3. CASE GiveUp \/ RecoveredAcknowledge
      BY <2>1, <3>3 DEF GiveUp, RecoveredAcknowledge
    <3>4. CASE SetDeadline("drain", "ack", "drain1") \/ SetDeadline("rdrain", "rack", "rdrain1")
      BY <2>1, <3>4 DEF SetDeadline
    <3>5. CASE SetDraining("drain1", "drain2") \/ SetDraining("rdrain1", "rdrain2")
      BY <2>1, <3>5 DEF SetDraining
    <3>6. CASE CloseAndNotify("drain2", "ack") \/ CloseAndNotify("rdrain2", "rack")
      BY <2>1, <3>6 DEF CloseAndNotify
    <3>7. CASE Recover
      BY <1>0, <2>1, <3>7 DEF Recover
    <3>8. CASE Attach \/ ReadyFails \/ ReadyAcknowledged
      BY <2>1, <3>8 DEF Attach, ReadyFails, ReadyAcknowledged, DeadlineInv
    <3> QED
      BY ZenonT(60), <2>2, <3>1, <3>2, <3>3, <3>4, <3>5, <3>6, <3>7, <3>8 DEF ControlTask
  <2>3. CASE \E t \in {"control", "signal"} : RequestExit(t)
    BY ZenonT(60), <2>1, <2>3 DEF RequestExit, To
  <2> QED
    BY <1>2, <2>1, <2>2, <2>3, ControlFrame DEF Next
<1> QED
  BY ZenonT(60), <1>1, <1>2

-----------------------------------------------------------------------------
(* The theorems. *)

\* A worker process starts in the invariant.
LEMMA RuntimeInit == Init => RuntimeInv
<1> SUFFICES ASSUME Init PROVE RuntimeInv
  OBVIOUS
<1>1. Cardinality(Req) \in Nat
  BY FS_CardinalityType, RuntimeAssumption
<1>2. TypeOK
  <2>1. FlagTypes
    BY Zenon DEF Init, FlagTypes
  <2>2. TokenTypes
    BY RuntimeAssumption DEF Init, TokenTypes, Tokens
  <2>3. StepTypes /\ in_flight \in 0 .. Cardinality(Req)
    BY <1>1 DEF Init, StepTypes
  <2> QED
    BY ZenonT(60), <2>1, <2>2, <2>3 DEF TypeOK
<1>3. InFlightExact
  <2>1. Counted = {}
    BY ZenonT(60) DEF Init, Counted
  <2> QED
    BY ZenonT(60), <2>1, FS_EmptySet DEF Init, InFlightExact, Counted
<1>4. IdleInv /\ DeadlineInv
  BY ZenonT(60) DEF Init, IdleInv, DeadlineInv, NothingAfterIdle
<1>5. ProbeInv /\ InitialInv /\ SpentInv /\ RecoveryInv
  BY RuntimeAssumption DEF Init, ProbeInv, InitialInv, SpentInv, RecoveryInv, RecoverySteps
<1> QED
  BY ZenonT(60), <1>2, <1>3, <1>4, <1>5 DEF RuntimeInv

\* Every step keeps the invariant.
LEMMA RuntimeStep == RuntimeInv /\ [Next]_vars => RuntimeInv'
BY ZenonT(60), TypeStep, CountStep, IdleStep, DeadlineStep, TokenInvStep, SpentStep, RecoveryStep
   DEF RuntimeInv

\* The inductive invariant of the worker process.
LEMMA RuntimeInvariant == Spec => []RuntimeInv
BY RuntimeInit, RuntimeStep, PTL DEF Spec

\* Every variable keeps its type: tokens are those of registrations that happened, and
\* release_in_flight never takes the counter below zero.
THEOREM RuntimeTypeCorrect == Spec => []TypeOK
<1>1. RuntimeInv => TypeOK
  BY DEF RuntimeInv
<1> QED
  BY <1>1, RuntimeInvariant, PTL

\* in_flight is the number of requests between admit's fetch_add and the fetch_sub of
\* release_in_flight, at every moment and for any number of requests.
THEOREM InFlightIsExact == Spec => []InFlightExact
<1>1. RuntimeInv => InFlightExact
  BY ZenonT(60) DEF RuntimeInv
<1> QED
  BY <1>1, RuntimeInvariant, PTL

\* Once wait_until_stopped has seen no request in flight and admission closed, admit
\* admits nothing until admission opens again.
THEOREM NothingAdmittedAfterIdle == Spec => []NothingAfterIdle
<1>1. RuntimeInv => NothingAfterIdle
  BY DEF RuntimeInv, IdleInv
<1> QED
  BY <1>1, RuntimeInvariant, PTL

\* While control is lost, only a probe with the token of a recovery can have opened
\* admission (activate_pending_readiness, control_lost, discard_recovery_data_token).
THEOREM OldTokensNeverReopen == Spec => []OldTokenNeverReopens
<1>1. RuntimeInv => OldTokenNeverReopens
  BY ZenonT(60) DEF RuntimeInv, RecoveryInv, RecoverySteps, RecoveryProbed, OldTokenNeverReopens
<1> QED
  BY <1>1, RuntimeInvariant, PTL

\* begin_drain sets the deadline once: however often the drain event is delivered, by
\* the session or by a recovered one, a deadline that has passed has passed.
THEOREM DeadlineNeverExtended == Spec => DeadlineKept
<1>1. RuntimeInv /\ [Next]_vars => [drain_deadline = "past" => drain_deadline' = "past"]_vars
  BY DeadlineStep DEF RuntimeInv
<1> QED
  BY <1>1, RuntimeInvariant, PTL DEF Spec, DeadlineKept
=============================================================================
