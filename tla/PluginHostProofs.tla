--------------------------- MODULE PluginHostProofs ---------------------------
(***************************************************************************)
(* Proofs about the plugin host, for any hosts, kinds and configurations.  *)
(***************************************************************************)
EXTENDS PluginHostInv, SequenceTheorems, TLAPS

\* Taking the head off a sequence.
LEMMA TailRange ==
    ASSUME NEW S, NEW s \in Seq(S), s # <<>>
    PROVE  /\ Head(s) \in S /\ Tail(s) \in Seq(S)
           /\ Range(s) = {Head(s)} \cup Range(Tail(s))
<1>1. Head(s) \in S /\ Tail(s) \in Seq(S)
  BY HeadTailProperties
<1>2. <<Head(s)>> \in Seq(S) /\ s = <<Head(s)>> \o Tail(s)
  OBVIOUS
<1>3. Range(<<Head(s)>>) = {Head(s)}
  BY DEF Range
<1>4. Range(<<Head(s)>> \o Tail(s)) = Range(<<Head(s)>>) \cup Range(Tail(s))
  BY ZenonT(40), <1>1, <1>2, RangeConcatenation
<1> QED
  BY Zenon, <1>1, <1>2, <1>3, <1>4

\* Pushing a kind.
LEMMA PushRange ==
    ASSUME NEW S, NEW s \in Seq(S), NEW x \in S
    PROVE  <<x>> \o s \in Seq(S) /\ Range(<<x>> \o s) = {x} \cup Range(s)
<1>1. <<x>> \in Seq(S) /\ Range(<<x>>) = {x}
  BY DEF Range
<1>2. \A t \in Seq(S) : t \o s \in Seq(S) /\ Range(t \o s) = Range(t) \cup Range(s)
  BY RangeConcatenation, ConcatProperties
<1> QED
  BY Zenon, <1>1, <1>2

\* Keeping a registration that could not be removed.
LEMMA AppendRange ==
    ASSUME NEW S, NEW s \in Seq(S), NEW x \in S
    PROVE  Append(s, x) \in Seq(S) /\ Range(Append(s, x)) = Range(s) \cup {x}
<1>1. <<x>> \in Seq(S) /\ Range(<<x>>) = {x}
  BY DEF Range
<1>2. Append(s, x) = s \o <<x>>
  OBVIOUS
<1>3. Range(s \o <<x>>) = Range(s) \cup Range(<<x>>)
  BY ZenonT(40), <1>1, RangeConcatenation
<1> QED
  BY Zenon, <1>1, <1>2, <1>3, ConcatProperties

\* An empty sequence has no elements.
LEMMA EmptyRange == Range(<<>>) = {}
BY DEF Range

-------------------------------------------------------------------------------
(* Type correctness *)

\* What a component registers: callbacks of this host, for this kind, by the
\* plugin registered under it.
LEMMA RegisteredType ==
    ASSUME TypeOK, NEW h \in Host, NEW k \in Kind, handlers[k] # None, NEW new \in Registered(h, k)
    PROVE  /\ new \in Seq(Callback) /\ Range(new) \subseteq Callback
           /\ \A c \in Range(new) : c.host = h /\ c.kind = k /\ c.by = handlers[k]
<1>1. PICK n \in 0 .. MaxCallbacks :
        new = [i \in 1 .. n |-> [host |-> h, kind |-> k, by |-> handlers[k], n |-> n + 1 - i]]
  BY DEF Registered
<1>2. handlers[k] \in Host \cup {User, Builtin}
  BY DEF TypeOK, TableTypes
<1>3. \A i \in 1 .. n : n + 1 - i \in 1 .. MaxCallbacks
  BY ConfigAssumption
<1>4. \A i \in 1 .. n : new[i] = [host |-> h, kind |-> k, by |-> handlers[k], n |-> n + 1 - i]
  BY <1>1
<1>5. \A i \in 1 .. n : new[i] \in Callback
  <2> SUFFICES ASSUME NEW i \in 1 .. n PROVE new[i] \in Callback
    OBVIOUS
  <2> DEFINE by == handlers[k]
             m == n + 1 - i
  <2>1. by \in Host \cup {User, Builtin} /\ m \in 1 .. MaxCallbacks
    BY <1>2, <1>3
  <2>2. new[i] = [host |-> h, kind |-> k, by |-> by, n |-> m]
    BY <1>4
  <2> HIDE DEF by, m
  <2> QED
    BY <2>1, <2>2 DEF Callback
<1>6. DOMAIN new = 1 .. n /\ n \in Nat /\ new = [i \in 1 .. n |-> new[i]]
  BY <1>1, ConfigAssumption
<1>7. new \in Seq(Callback)
  BY <1>5, <1>6, IsASeq
<1> QED
  BY <1>4, <1>5, <1>6, <1>7 DEF Range

\* The variables are within their types initially.
LEMMA TypeInit == Init => TypeOK
<1> SUFFICES ASSUME Init PROVE TypeOK
  OBVIOUS
<1> USE DEF Init
<1>1. LeaseTypes
  BY DEF LeaseTypes
<1>2. TableTypes
  <2>1. handlers \in [Kind -> Host \cup {User, Builtin, None}]
    OBVIOUS
  <2>2. config \in Seq(Callback) /\ installed \subseteq Callback
    OBVIOUS
  <2>3. configured \in BOOLEAN
    BY Zenon
  <2> QED
    BY <2>1, <2>2, <2>3 DEF TableTypes
<1>3. PlanTypes
  BY DEF PlanTypes, Phases
<1>4. RegistrationTypes /\ RuntimeTypes
  BY DEF RegistrationTypes, RuntimeTypes
<1> QED
  BY ZenonT(60), <1>1, <1>2, <1>3, <1>4 DEF TypeOK

\* The end of a job leaves a sequence of hosts.
LEMMA EndJobType ==
    ASSUME LeaseTypes, NEW h \in Host, EndJob(h)
    PROVE  jobs' \in Seq(Host)
BY TailRange DEF EndJob, LeaseTypes

\* Restoring builtins changes free kinds only.
LEMMA RestoredTable ==
    ASSUME TypeOK, RestoreAll \/ RestoreSome \/ UNCHANGED handlers
    PROVE  /\ handlers' \in [Kind -> Host \cup {User, Builtin, None}]
           /\ \A k \in Kind : handlers[k] # None \/ handlers'[k] \in Host => handlers'[k] = handlers[k]
<1>1. handlers \in [Kind -> Host \cup {User, Builtin, None}]
  BY DEF TypeOK, TableTypes
<1>2. handlers' = handlers \/ \E S : handlers' = Restored(S)
  BY DEF RestoreAll, RestoreSome
<1> QED
  BY <1>1, <1>2, HostAssumption DEF Restored

\* Every step keeps the variables within their types.
LEMMA TypeStep ==
    ASSUME TypeOK, [Next]_vars
    PROVE  TypeOK'
<1> USE DEF leaseVars, configVars, localVars, runtimeVars
<1>0. LeaseTypes /\ TableTypes /\ PlanTypes /\ RegistrationTypes /\ RuntimeTypes
  BY DEF TypeOK
<1>1. CASE UNCHANGED vars
  BY ZenonT(60), <1>0, <1>1 DEF vars, TypeOK, LeaseTypes, TableTypes, PlanTypes, RegistrationTypes, RuntimeTypes
<1>2. ASSUME NEW h \in Host, NEW c \in Configs, Submit(h, c)
      PROVE  TypeOK'
  <2>5. LeaseTypes'
    BY <1>0, <1>2 DEF Submit, LeaseTypes
  <2>6. TableTypes'
    BY <1>0, <1>2 DEF Submit, TableTypes
  <2>7. PlanTypes'
    BY <1>0, <1>2 DEF Submit, PlanTypes, GoTo, Phases
  <2>8. RegistrationTypes'
    BY <1>0, <1>2 DEF Submit, RegistrationTypes
  <2>9. RuntimeTypes'
    BY <1>0, <1>2 DEF Submit, RuntimeTypes
  <2> QED
    BY <2>5, <2>6, <2>7, <2>8, <2>9 DEF TypeOK
<1>3. ASSUME NEW h \in Host, Cancel(h)
      PROVE  TypeOK'
  <2>5. LeaseTypes'
    BY <1>0, <1>3 DEF Cancel, LeaseTypes
  <2>6. TableTypes'
    BY <1>0, <1>3 DEF Cancel, TableTypes
  <2>7. PlanTypes'
    BY <1>0, <1>3 DEF Cancel, PlanTypes, GoTo, Phases
  <2>8. RegistrationTypes'
    BY <1>0, <1>3 DEF Cancel, RegistrationTypes
  <2>9. RuntimeTypes'
    BY <1>0, <1>3 DEF Cancel, RuntimeTypes
  <2> QED
    BY <2>5, <2>6, <2>7, <2>8, <2>9 DEF TypeOK
<1>4. ASSUME NEW k \in Kind, UserRegister(k) \/ UserDeregister(k)
      PROVE  TypeOK'
  <2>5. LeaseTypes'
    BY <1>0, <1>4 DEF UserRegister, UserDeregister, LeaseTypes
  <2>6. TableTypes'
    BY <1>0, <1>4 DEF UserRegister, UserDeregister, TableTypes
  <2>7. PlanTypes'
    BY <1>0, <1>4 DEF UserRegister, UserDeregister, PlanTypes, GoTo, Phases
  <2>8. RegistrationTypes'
    BY <1>0, <1>4 DEF UserRegister, UserDeregister, RegistrationTypes
  <2>9. RuntimeTypes'
    BY <1>0, <1>4 DEF UserRegister, UserDeregister, RuntimeTypes
  <2> QED
    BY <2>5, <2>6, <2>7, <2>8, <2>9 DEF TypeOK
<1>5. ASSUME NEW h \in Host, Acquire(h) \/ LeaseTaken(h) \/ BuiltinTaken(h)
      PROVE  TypeOK'
  <2>1. EndJob(h) => jobs' \in Seq(Host)
    BY Zenon, <1>0, EndJobType
  <2>2. LoadOrder(spec[h]) \in Seq(Kind)
    BY <1>0, <1>5, ConfigAssumption DEF Acquire, LeaseTaken, BuiltinTaken, Running, PlanTypes
  <2>3. handlers' \in [Kind -> Host \cup {User, Builtin, None}]
    BY <1>5, RestoredTable DEF Acquire, LeaseTaken, BuiltinTaken
  <2>5. LeaseTypes'
    BY <1>0, <1>5, <2>1 DEF Acquire, LeaseTaken, BuiltinTaken, Refuse, LeaseTypes
  <2>6. TableTypes'
    BY <1>0, <1>5, <2>3 DEF Acquire, LeaseTaken, BuiltinTaken, Refuse, TableTypes
  <2>7. PlanTypes'
    BY Zenon, <1>0, <1>5, <2>2 DEF Acquire, LeaseTaken, BuiltinTaken, Refuse, Running, PlanTypes, GoTo, Phases
  <2>8. RegistrationTypes'
    BY <1>0, <1>5 DEF Acquire, LeaseTaken, BuiltinTaken, Refuse, RegistrationTypes
  <2>9. RuntimeTypes'
    BY ZenonT(60), <1>0, <1>5 DEF Acquire, LeaseTaken, BuiltinTaken, Refuse, RuntimeTypes
  <2> QED
    BY <2>5, <2>6, <2>7, <2>8, <2>9 DEF TypeOK
<1>6. ASSUME NEW h \in Host, LoadPlugin(h)
      PROVE  TypeOK'
  <2>1. Head(todo[h]) \in Kind /\ Tail(todo[h]) \in Seq(Kind)
    BY ZenonT(60), <1>0, <1>6, TailRange DEF LoadPlugin, PlanTypes
  <2>2. /\ \A k \in NativeKind : <<k>> \o nativeKinds[h] \in Seq(NativeKind)
        /\ \A k \in WorkerKind : <<k>> \o workerKinds[h] \in Seq(WorkerKind)
    BY ZenonT(60), <1>0, PushRange DEF RuntimeTypes
  <2>5. LeaseTypes'
    BY ZenonT(60), <1>0, <1>6 DEF LoadPlugin, LeaseTypes
  <2>6. TableTypes'
    BY ZenonT(60), <1>0, <1>6, <2>1 DEF LoadPlugin, TableTypes
  <2>7. PlanTypes'
    BY ZenonT(60), <1>0, <1>6, <2>1 DEF LoadPlugin, PlanTypes, GoTo, Phases
  <2>8. RegistrationTypes'
    BY <1>0, <1>6 DEF LoadPlugin, RegistrationTypes
  <2>9. RuntimeTypes'
    BY Zenon, <1>0, <1>6, <2>1, <2>2 DEF LoadPlugin, RuntimeTypes
  <2> QED
    BY <2>5, <2>6, <2>7, <2>8, <2>9 DEF TypeOK
<1>7. ASSUME NEW h \in Host, LoadFails(h) \/ Invalid(h)
      PROVE  TypeOK'
  <2>5. LeaseTypes'
    BY <1>0, <1>7 DEF LoadFails, Invalid, Running, LeaseTypes
  <2>1. handlers' \in [Kind -> Host \cup {User, Builtin, None}]
    BY <1>7, RestoredTable DEF LoadFails, Invalid
  <2>6. TableTypes'
    BY <1>0, <1>7, <2>1 DEF LoadFails, Invalid, Running, TableTypes
  <2>7. PlanTypes'
    BY ZenonT(60), <1>0, <1>7 DEF LoadFails, Invalid, Running, PlanTypes, GoTo, Phases
  <2>8. RegistrationTypes'
    BY <1>0, <1>7 DEF LoadFails, Invalid, Running, RegistrationTypes
  <2>9. RuntimeTypes'
    BY <1>0, <1>7 DEF LoadFails, Invalid, Running, RuntimeTypes
  <2> QED
    BY <2>5, <2>6, <2>7, <2>8, <2>9 DEF TypeOK
<1>8. ASSUME NEW h \in Host, StartInit(h)
      PROVE  TypeOK'
  <2>1. spec[h] \in Seq(Kind)
    BY <1>0, <1>8, ConfigAssumption DEF StartInit, Running, PlanTypes
  <2>2. handlers' \in [Kind -> Host \cup {User, Builtin, None}]
    BY ZenonT(60), <1>8, RestoredTable DEF StartInit
  <2>5. LeaseTypes'
    BY <1>0, <1>8 DEF StartInit, Running, LeaseTypes
  <2>6. TableTypes'
    BY <1>0, <1>8, <2>2 DEF StartInit, Running, TableTypes
  <2>7. PlanTypes'
    BY <1>0, <1>8, <2>1 DEF StartInit, Running, PlanTypes, GoTo, Phases
  <2>8. RegistrationTypes'
    BY <1>0, <1>8 DEF StartInit, Running, RegistrationTypes
  <2>9. RuntimeTypes'
    BY <1>0, <1>8 DEF StartInit, Running, RuntimeTypes
  <2> QED
    BY <2>5, <2>6, <2>7, <2>8, <2>9 DEF TypeOK
<1>9. ASSUME NEW h \in Host, InitComponent(h)
      PROVE  TypeOK'
  <2>1. /\ Head(todo[h]) \in Kind /\ Tail(todo[h]) \in Seq(Kind)
        /\ handlers[Head(todo[h])] # None
    BY <1>0, <1>9, TailRange DEF InitComponent, PlanTypes
  <2>2. PICK new \in Registered(h, Head(todo[h])) :
           regs' = [regs EXCEPT ![h] = new \o regs[h]] /\ installed' = installed \cup Range(new)
    BY Zenon, <1>9 DEF InitComponent
  <2>3. new \in Seq(Callback) /\ Range(new) \subseteq Callback
    BY <2>1, RegisteredType
  <2>4. new \o regs[h] \in Seq(Callback)
    BY <1>0, <2>3, ConcatProperties DEF RegistrationTypes
  <2>5. LeaseTypes'
    BY ZenonT(60), <1>0, <1>9 DEF InitComponent, LeaseTypes
  <2>6. TableTypes'
    BY <1>0, <1>9, <2>2, <2>3 DEF InitComponent, TableTypes
  <2>7. PlanTypes'
    BY <1>0, <1>9, <2>1 DEF InitComponent, PlanTypes, GoTo, Phases
  <2>8. RegistrationTypes'
    BY Zenon, <1>0, <1>9, <2>2, <2>4 DEF InitComponent, RegistrationTypes
  <2>9. RuntimeTypes'
    BY <1>0, <1>9 DEF InitComponent, RuntimeTypes
  <2> QED
    BY ZenonT(60), <2>5, <2>6, <2>7, <2>8, <2>9 DEF TypeOK
<1>10. ASSUME NEW h \in Host, ComponentFails(h)
      PROVE  TypeOK'
  <2>1. PICK new : /\ \/ new = <<>>
                      \/ handlers[Head(todo[h])] # None /\ new \in Registered(h, Head(todo[h]))
                   /\ regs' = [regs EXCEPT ![h] = new \o regs[h]]
                   /\ installed' = installed \cup Range(new)
    BY Zenon, <1>10 DEF ComponentFails
  <2>2. Head(todo[h]) \in Kind
    BY <1>0, <1>10, TailRange DEF ComponentFails, PlanTypes
  <2>3. new \in Seq(Callback) /\ Range(new) \subseteq Callback
    <3>1. <<>> \in Seq(Callback)
      OBVIOUS
    <3> QED
      BY Zenon, <2>1, <2>2, <3>1, RegisteredType, EmptyRange
  <2>4. new \o regs[h] \in Seq(Callback)
    BY <1>0, <2>3, ConcatProperties DEF RegistrationTypes
  <2>5. LeaseTypes'
    BY ZenonT(60), <1>0, <1>10 DEF ComponentFails, LeaseTypes
  <2>6. TableTypes'
    BY ZenonT(60), <1>0, <1>10, <2>1, <2>3 DEF ComponentFails, TableTypes
  <2>7. PlanTypes'
    BY <1>0, <1>10 DEF ComponentFails, Running, PlanTypes, GoTo, Phases
  <2>8. RegistrationTypes'
    BY Zenon, <1>0, <1>10, <2>1, <2>4 DEF ComponentFails, RegistrationTypes
  <2>9. RuntimeTypes'
    BY ZenonT(60), <1>0, <1>10 DEF ComponentFails, RuntimeTypes
  <2> QED
    BY <2>5, <2>6, <2>7, <2>8, <2>9 DEF TypeOK
<1>11. ASSUME NEW h \in Host, Activated(h)
      PROVE  TypeOK'
  <2>1. EndJob(h) => jobs' \in Seq(Host)
    BY Zenon, <1>0, EndJobType
  <2>5. LeaseTypes'
    BY ZenonT(60), <1>0, <1>11, <2>1 DEF Activated, Running, LeaseTypes
  <2>6. TableTypes'
    BY <1>0, <1>11 DEF Activated, RegistrationTypes, TableTypes
  <2>7. PlanTypes'
    BY <1>0, <1>11 DEF Activated, Running, PlanTypes, GoTo, Phases
  <2>8. RegistrationTypes'
    BY <1>0, <1>11 DEF Activated, Running, RegistrationTypes
  <2>9. RuntimeTypes'
    BY ZenonT(60), <1>0, <1>11 DEF Activated, Running, RuntimeTypes
  <2> QED
    BY <2>5, <2>6, <2>7, <2>8, <2>9 DEF TypeOK
<1>12. ASSUME NEW h \in Host, Deregister(h)
      PROVE  TypeOK'
  <2>1. Head(regs[h]) \in Callback /\ Tail(regs[h]) \in Seq(Callback)
    BY <1>0, <1>12, TailRange DEF Deregister, RegistrationTypes
  <2>2. Append(kept[h], Head(regs[h])) \in Seq(Callback)
    BY <1>0, <2>1, AppendRange DEF RegistrationTypes
  <2>5. LeaseTypes'
    BY <1>0, <1>12 DEF Deregister, LeaseTypes
  <2>6. TableTypes'
    BY <1>0, <1>12 DEF Deregister, TableTypes
  <2>7. PlanTypes'
    BY <1>0, <1>12 DEF Deregister, PlanTypes, GoTo, Phases
  <2>8. RegistrationTypes'
    BY Zenon, <1>0, <1>12, <2>1, <2>2 DEF Deregister, RegistrationTypes
  <2>9. RuntimeTypes'
    BY ZenonT(60), <1>0, <1>12 DEF Deregister, RuntimeTypes
  <2> QED
    BY <2>5, <2>6, <2>7, <2>8, <2>9 DEF TypeOK
<1>13. ASSUME NEW h \in Host, RolledBack(h)
      PROVE  TypeOK'
  <2>1. EndJob(h) => jobs' \in Seq(Host)
    BY Zenon, <1>0, EndJobType
  <2>5. LeaseTypes'
    BY <1>0, <1>13, <2>1 DEF RolledBack, LeaseTypes
  <2>6. TableTypes'
    BY <1>0, <1>13 DEF RolledBack, TableTypes
  <2>7. PlanTypes'
    BY <1>0, <1>13 DEF RolledBack, PlanTypes, GoTo, Phases
  <2>8. RegistrationTypes'
    BY <1>0, <1>13 DEF RolledBack, RegistrationTypes
  <2>9. RuntimeTypes'
    BY <1>0, <1>13 DEF RolledBack, RuntimeTypes
  <2> QED
    BY <2>5, <2>6, <2>7, <2>8, <2>9 DEF TypeOK
<1>14. ASSUME NEW h \in Host, DropWorkerKind(h) \/ DeregisterWorkerKind(h)
      PROVE  TypeOK'
  <2>1. Head(workerKinds[h]) \in WorkerKind /\ Tail(workerKinds[h]) \in Seq(WorkerKind)
    BY <1>0, <1>14, TailRange DEF DropWorkerKind, DeregisterWorkerKind, RuntimeTypes
  <2>5. LeaseTypes'
    BY ZenonT(60), <1>0, <1>14 DEF DropWorkerKind, DeregisterWorkerKind, LeaseTypes
  <2>6. TableTypes'
    BY ZenonT(60), <1>0, <1>14, <2>1 DEF DropWorkerKind, DeregisterWorkerKind, WithoutKind, TableTypes
  <2>7. PlanTypes'
    BY ZenonT(60), <1>0, <1>14 DEF DropWorkerKind, DeregisterWorkerKind, PlanTypes, GoTo, Phases
  <2>8. RegistrationTypes'
    BY <1>0, <1>14 DEF DropWorkerKind, DeregisterWorkerKind, RegistrationTypes
  <2>9. RuntimeTypes'
    BY Zenon, <1>0, <1>14, <2>1 DEF DropWorkerKind, DeregisterWorkerKind, RuntimeTypes
  <2> QED
    BY <2>5, <2>6, <2>7, <2>8, <2>9 DEF TypeOK
<1>15. ASSUME NEW h \in Host, DropNativeKind(h) \/ DeregisterNativeKind(h)
      PROVE  TypeOK'
  <2>1. Head(nativeKinds[h]) \in NativeKind /\ Tail(nativeKinds[h]) \in Seq(NativeKind)
    BY ZenonT(60), <1>0, <1>15, TailRange DEF DropNativeKind, DeregisterNativeKind, RuntimeTypes
  <2>5. LeaseTypes'
    BY ZenonT(60), <1>0, <1>15 DEF DropNativeKind, DeregisterNativeKind, LeaseTypes
  <2>6. TableTypes'
    BY ZenonT(60), <1>0, <1>15, <2>1 DEF DropNativeKind, DeregisterNativeKind, WithoutKind, TableTypes
  <2>7. PlanTypes'
    BY ZenonT(60), <1>0, <1>15 DEF DropNativeKind, DeregisterNativeKind, PlanTypes, GoTo, Phases
  <2>8. RegistrationTypes'
    BY <1>0, <1>15 DEF DropNativeKind, DeregisterNativeKind, RegistrationTypes
  <2>9. RuntimeTypes'
    BY Zenon, <1>0, <1>15, <2>1 DEF DropNativeKind, DeregisterNativeKind, RuntimeTypes
  <2> QED
    BY <2>5, <2>6, <2>7, <2>8, <2>9 DEF TypeOK
<1>16. ASSUME NEW h \in Host, DropWorkers(h)
      PROVE  TypeOK'
  <2>5. LeaseTypes'
    BY <1>0, <1>16 DEF DropWorkers, LeaseTypes
  <2>6. TableTypes'
    BY <1>0, <1>16 DEF DropWorkers, TableTypes
  <2>7. PlanTypes'
    BY <1>0, <1>16 DEF DropWorkers, PlanTypes, GoTo, Phases
  <2>8. RegistrationTypes'
    BY <1>0, <1>16 DEF DropWorkers, RegistrationTypes
  <2>9. RuntimeTypes'
    BY <1>0, <1>16 DEF DropWorkers, RuntimeTypes
  <2> QED
    BY <2>5, <2>6, <2>7, <2>8, <2>9 DEF TypeOK
<1>17. ASSUME NEW h \in Host, DropLease(h)
      PROVE  TypeOK'
  <2>1. EndJob(h) => jobs' \in Seq(Host)
    BY Zenon, <1>0, EndJobType
  <2>5. LeaseTypes'
    BY ZenonT(60), <1>0, <1>17, <2>1 DEF DropLease, ReleaseLease, LeaseTypes
  <2>6. TableTypes'
    BY ZenonT(60), <1>0, <1>17 DEF DropLease, TableTypes
  <2>7. PlanTypes'
    BY <1>0, <1>17 DEF DropLease, PlanTypes, GoTo, Phases
  <2>8. RegistrationTypes'
    BY <1>0, <1>17 DEF DropLease, RegistrationTypes
  <2>9. RuntimeTypes'
    BY ZenonT(60), <1>0, <1>17 DEF DropLease, RuntimeTypes
  <2> QED
    BY <2>5, <2>6, <2>7, <2>8, <2>9 DEF TypeOK
<1>18. ASSUME NEW h \in Host, Close(h) \/ DropHandle(h)
      PROVE  TypeOK'
  <2>5. LeaseTypes'
    BY <1>0, <1>18 DEF Close, DropHandle, ClearConfiguration, LeaseTypes
  <2>6. TableTypes'
    <3>1. config' = <<>> /\ UNCHANGED <<handlers, configured, installed>>
      BY <1>18 DEF Close, DropHandle, ClearConfiguration
    <3> QED
      BY <1>0, <3>1 DEF TableTypes
  <2>7. PlanTypes'
    BY Zenon, <1>0, <1>18 DEF Close, DropHandle, ClearConfiguration, PlanTypes, GoTo, Phases
  <2>8. RegistrationTypes'
    BY ZenonT(60), <1>0, <1>18 DEF Close, DropHandle, ClearConfiguration, RegistrationTypes, TableTypes
  <2>9. RuntimeTypes'
    BY ZenonT(60), <1>0, <1>18 DEF Close, DropHandle, ClearConfiguration, RuntimeTypes
  <2> QED
    BY <2>5, <2>6, <2>7, <2>8, <2>9 DEF TypeOK
<1>19. ASSUME NEW h \in Host, Cleared(h)
      PROVE  TypeOK'
  <2>1. EndJob(h) => jobs' \in Seq(Host)
    BY Zenon, <1>0, EndJobType
  <2>5. LeaseTypes'
    BY ZenonT(60), <1>0, <1>19, <2>1 DEF Cleared, Incomplete, LeaseTypes
  <2>6. TableTypes'
    BY Zenon, <1>0, <1>19 DEF Cleared, RegistrationTypes, TableTypes
  <2>7. PlanTypes'
    BY ZenonT(60), <1>0, <1>19 DEF Cleared, Incomplete, PlanTypes, GoTo, Phases
  <2>8. RegistrationTypes'
    BY ZenonT(60), <1>0, <1>19 DEF Cleared, Incomplete, RegistrationTypes
  <2>9. RuntimeTypes'
    BY <1>0, <1>19 DEF Cleared, Incomplete, RuntimeTypes
  <2> QED
    BY <2>5, <2>6, <2>7, <2>8, <2>9 DEF TypeOK
<1>20. ASSUME NEW h \in Host, Shutdown(h)
      PROVE  TypeOK'
  <2>1. EndJob(h) => jobs' \in Seq(Host)
    BY Zenon, <1>0, EndJobType
  <2>5. LeaseTypes'
    BY ZenonT(60), <1>0, <1>20, <2>1 DEF Shutdown, Incomplete, ReleaseLease, LeaseTypes
  <2>6. TableTypes'
    BY ZenonT(60), <1>0, <1>20 DEF Shutdown, Incomplete, TableTypes
  <2>7. PlanTypes'
    BY ZenonT(60), <1>0, <1>20 DEF Shutdown, Incomplete, PlanTypes, GoTo, Phases
  <2>8. RegistrationTypes'
    BY <1>0, <1>20 DEF Shutdown, Incomplete, RegistrationTypes
  <2>9. RuntimeTypes'
    BY Zenon, <1>0, <1>20 DEF Shutdown, Kind, RuntimeTypes
  <2> QED
    BY <2>5, <2>6, <2>7, <2>8, <2>9 DEF TypeOK
<1> QED
  BY ZenonT(60), <1>1, <1>2, <1>3, <1>4, <1>5, <1>6, <1>7, <1>8, <1>9, <1>10, <1>11, <1>12, <1>13, <1>14, <1>15, <1>16, <1>17, <1>18, <1>19, <1>20
     DEF Next, ActivationStep, TeardownStep

-------------------------------------------------------------------------------
(* The inductive invariant *)

\* A host under way owns the lease, and all that is registered is its own.
LEMMA Alone ==
    ASSUME TypeOK, HostInv, NEW h \in Host, ~AtRest(h)
    PROVE  /\ owner = h /\ owner # None
           /\ \A g \in Host : g # h => AtRest(g)
           /\ \A k \in Kind : handlers[k] \in Host => handlers[k] = h
           /\ \A c \in installed : c.host = h /\ (c.by \in Host => c.by = h)
           /\ configured => phase[h] \in {"active", "clear", "retained"}
<1>1. owner = h /\ \A g \in Host : ~AtRest(g) => g = h
  BY DEF HostInv, OwnerInv
<1>2. \A k \in Kind : handlers[k] \in Host => handlers[k] = h
  <2>1. \A k \in Kind : handlers[k] \in Host => k \in held[handlers[k]]
    BY DEF HostInv, KindsInv
  <2>2. \A g \in Host : AtRest(g) => held[g] = {}
    BY DEF HostInv, RuntimeInv
  <2> QED
    BY ZenonT(60), <1>1, <2>1, <2>2
<1>3. \A c \in installed : c.host = h /\ (c.by \in Host => c.by = h)
  <2>1. \A c \in installed : c.host \in Host
    BY DEF TypeOK, TableTypes, Callback
  <2>2. \A c \in installed : ~AtRest(c.host) /\ (c.by \in Host => c.by = c.host)
    BY DEF HostInv, InstalledInv, AtRest
  <2> QED
    BY <1>1, <2>1, <2>2
<1>4. owner # None /\ (configured => phase[h] \in {"active", "clear", "retained"})
  BY <1>1, HostAssumption DEF HostInv, ConfigInv
<1> QED
  BY ZenonT(60), <1>1, <1>2, <1>3, <1>4

\* The invariant holds initially: nothing is registered, held or owned.
LEMMA HostInit == Init => HostInv
<1> SUFFICES ASSUME Init PROVE HostInv
  OBVIOUS
<1> USE DEF Init
<1>1. OwnerInv /\ ConfigInv /\ RegsInv /\ RuntimeInv
  BY HostAssumption DEF OwnerInv, ConfigInv, RegsInv, RuntimeInv, AtRest
<1>2. KindsInv
  BY HostAssumption DEF KindsInv
<1>3. InstalledInv /\ CallbacksTracked
  BY ZenonT(60) DEF InstalledInv, CallbacksTracked
<1> QED
  BY <1>1, <1>2, <1>3 DEF HostInv

\* Every step of the executor, of a closing thread and of the application
\* preserves the invariant.
LEMMA HostStep ==
    ASSUME TypeOK, HostInv, [Next]_vars
    PROVE  HostInv'
<1> USE DEF leaseVars, configVars, localVars, runtimeVars, GoTo
<1>0. /\ OwnerInv /\ ConfigInv /\ RegsInv /\ KindsInv /\ RuntimeInv /\ InstalledInv
      /\ CallbacksTracked
  BY DEF HostInv
<1>00. /\ phase \in [Host -> Phases] /\ owner \in Host \cup {None}
       /\ handlers \in [Kind -> Host \cup {User, Builtin, None}] /\ installed \subseteq Callback
       /\ regs \in [Host -> Seq(Callback)] /\ kept \in [Host -> Seq(Callback)]
       /\ nativeKinds \in [Host -> Seq(NativeKind)] /\ workerKinds \in [Host -> Seq(WorkerKind)]
       /\ held \in [Host -> SUBSET Kind] /\ stopped \in [Host -> SUBSET Kind]
  BY ZenonT(60) DEF TypeOK, LeaseTypes, TableTypes, PlanTypes, RegistrationTypes, RuntimeTypes
<1>1. CASE UNCHANGED vars
  BY Zenon, <1>0, <1>1 DEF vars, HostInv, OwnerInv, ConfigInv, RegsInv, KindsInv, RuntimeInv, InstalledInv,
     CallbacksTracked, AtRest
<1>2. ASSUME NEW h \in Host, NEW c \in Configs, Submit(h, c)
      PROVE  HostInv'
  <2>11. OwnerInv'
    BY ZenonT(60), <1>0, <1>00, <1>2 DEF Submit, OwnerInv, AtRest
  <2>12. ConfigInv'
    BY ZenonT(60), <1>0, <1>00, <1>2 DEF Submit, ConfigInv
  <2>13. RegsInv'
    BY ZenonT(60), <1>0, <1>00, <1>2 DEF Submit, RegsInv
  <2>14. KindsInv'
    BY ZenonT(60), <1>0, <1>00, <1>2 DEF Submit, KindsInv
  <2>15. RuntimeInv'
    BY ZenonT(60), <1>0, <1>00, <1>2 DEF Submit, RuntimeInv, AtRest
  <2>2. /\ UNCHANGED <<installed, config, regs, kept, held, stopped>>
        /\ phase' = [phase EXCEPT ![h] = "queued"] /\ phase[h] = "idle"
    BY Zenon, <1>2 DEF Submit
  <2>16. InstalledInv'
    <3>1. \A g \in Host : phase[g] \in {"init", "rollback", "active", "clear", "retained"}
                             => phase'[g] = phase[g]
      BY Zenon, <1>00, <2>2
    <3>2. \A c1 \in installed : c1.host \in Host
      BY Zenon, <1>00 DEF Callback
    <3> QED
      BY Zenon, <1>0, <2>2, <3>1, <3>2 DEF InstalledInv
  <2>17. CallbacksTracked'
    <3>1. \A g \in Host : phase[g] = "retained" => phase'[g] = "retained"
      BY Zenon, <1>00, <2>2
    <3>2. \A c1 \in installed : c1.host \in Host
      BY Zenon, <1>00 DEF Callback
    <3> QED
      BY ZenonT(60), <1>0, <2>2, <3>1, <3>2 DEF CallbacksTracked
  <2> QED
    BY ZenonT(60), <2>11, <2>12, <2>13, <2>14, <2>15, <2>16, <2>17 DEF HostInv
<1>3. ASSUME NEW h \in Host, Cancel(h)
      PROVE  HostInv'
  <2>11. OwnerInv'
    BY ZenonT(60), <1>0, <1>00, <1>3 DEF Cancel, OwnerInv, AtRest
  <2>12. ConfigInv'
    BY ZenonT(60), <1>0, <1>00, <1>3 DEF Cancel, ConfigInv
  <2>13. RegsInv'
    BY <1>0, <1>00, <1>3 DEF Cancel, RegsInv
  <2>14. KindsInv'
    BY ZenonT(60), <1>0, <1>00, <1>3 DEF Cancel, KindsInv
  <2>15. RuntimeInv'
    BY ZenonT(60), <1>0, <1>00, <1>3 DEF Cancel, RuntimeInv, AtRest
  <2>16. InstalledInv'
    BY ZenonT(60), <1>0, <1>00, <1>3 DEF Cancel, InstalledInv
  <2>17. CallbacksTracked'
    BY ZenonT(60), <1>0, <1>00, <1>3 DEF Cancel, CallbacksTracked
  <2> QED
    BY <2>11, <2>12, <2>13, <2>14, <2>15, <2>16, <2>17 DEF HostInv
<1>4. ASSUME NEW k \in Kind, UserRegister(k) \/ UserDeregister(k)
      PROVE  HostInv'
  <2>11. OwnerInv'
    BY ZenonT(60), <1>0, <1>00, <1>4 DEF UserRegister, UserDeregister, OwnerInv, AtRest
  <2>12. ConfigInv'
    <3>1. UNCHANGED <<configured, config, owner, phase, regs, kept>>
      BY Zenon, <1>4 DEF UserRegister, UserDeregister
    <3> QED
      BY Zenon, <1>0, <3>1 DEF ConfigInv
  <2>13. RegsInv'
    BY ZenonT(60), <1>0, <1>00, <1>4 DEF UserRegister, UserDeregister, RegsInv
  <2>14. KindsInv'
    BY Zenon, <1>0, <1>00, <1>4, HostAssumption DEF UserRegister, UserDeregister, KindsInv
  <2>15. RuntimeInv'
    BY ZenonT(60), <1>0, <1>00, <1>4 DEF UserRegister, UserDeregister, RuntimeInv, AtRest
  <2>16. InstalledInv'
    BY ZenonT(60), <1>0, <1>00, <1>4 DEF UserRegister, UserDeregister, InstalledInv
  <2>17. CallbacksTracked'
    BY ZenonT(60), <1>0, <1>00, <1>4 DEF UserRegister, UserDeregister, CallbacksTracked
  <2> QED
    BY ZenonT(60), <2>11, <2>12, <2>13, <2>14, <2>15, <2>16, <2>17 DEF HostInv
<1>5. ASSUME NEW h \in Host, LeaseTaken(h) \/ BuiltinTaken(h)
      PROVE  HostInv'
  <2>8. /\ UNCHANGED <<config, regs, kept, installed, held, stopped>>
        /\ \A c \in installed : phase'[c.host] = phase[c.host]
    <3>1. \A c \in installed : c.host \in Host /\ c.host # h
      BY ZenonT(60), <1>0, <1>00, <1>5 DEF LeaseTaken, BuiltinTaken, Running, InstalledInv, Callback
    <3> QED
      BY <1>00, <1>5, <3>1 DEF LeaseTaken, BuiltinTaken, Refuse
  <2>9. \A k \in Kind : handlers'[k] \in Host => handlers'[k] = handlers[k]
    BY <1>5, RestoredTable DEF LeaseTaken, BuiltinTaken
  <2>11. OwnerInv'
    BY Zenon, <1>0, <1>00, <1>5 DEF LeaseTaken, BuiltinTaken, Running, Refuse, OwnerInv, AtRest
  <2>12. ConfigInv'
    <3>1. /\ UNCHANGED <<configured, config, owner, regs, kept>>
          /\ phase' = [phase EXCEPT ![h] = "failed"] /\ phase[h] = "queued"
      BY Zenon, <1>5 DEF LeaseTaken, BuiltinTaken, Running, Refuse
    <3> QED
      BY ZenonT(60), <1>0, <1>00, <3>1 DEF ConfigInv
  <2>13. RegsInv'
    BY Zenon, <1>0, <1>00, <1>5 DEF LeaseTaken, BuiltinTaken, Running, Refuse, RegsInv
  <2>14. KindsInv'
    BY ZenonT(60), <1>0, <1>00, <1>5, <2>9 DEF LeaseTaken, BuiltinTaken, Running, Refuse, KindsInv
  <2>15. RuntimeInv'
    BY ZenonT(60), <1>0, <1>00, <1>5 DEF LeaseTaken, BuiltinTaken, Running, Refuse, RuntimeInv, AtRest
  <2>16. InstalledInv'
    BY <1>0, <2>8 DEF InstalledInv
  <2>17. CallbacksTracked'
    BY ZenonT(60), <1>0, <2>8 DEF CallbacksTracked
  <2> QED
    BY <2>11, <2>12, <2>13, <2>14, <2>15, <2>16, <2>17 DEF HostInv
<1>6. ASSUME NEW h \in Host, Acquire(h)
      PROVE  HostInv'
  <2>9. \A k \in Kind : handlers'[k] \in Host => handlers'[k] = handlers[k]
    BY ZenonT(60), <1>6, RestoredTable DEF Acquire
  <2>0. \A g \in Host : AtRest(g)
    BY <1>0, <1>6, HostAssumption DEF Acquire, OwnerInv
  <2>1. installed = {}
    <3>1. \A c \in installed : c.host \in Host /\ ~AtRest(c.host)
      BY Zenon, <1>0, <1>00 DEF InstalledInv, AtRest, Callback
    <3> QED
      BY <2>0, <3>1
  <2>11. OwnerInv'
    BY ZenonT(60), <1>0, <1>00, <1>6, <2>0 DEF Acquire, Running, OwnerInv, AtRest
  <2>12. ConfigInv'
    BY ZenonT(60), <1>0, <1>00, <1>6, <2>0 DEF Acquire, Running, AtRest, ConfigInv
  <2>13. RegsInv'
    BY ZenonT(60), <1>0, <1>00, <1>6 DEF Acquire, Running, RegsInv
  <2>14. KindsInv'
    BY ZenonT(60), <1>0, <1>00, <1>6, <2>9 DEF Acquire, Running, KindsInv
  <2>15. RuntimeInv'
    BY <1>0, <1>00, <1>6, <2>0 DEF Acquire, Running, RuntimeInv, AtRest
  <2>16. InstalledInv'
    BY ZenonT(60), <1>0, <1>00, <1>6, <2>1 DEF Acquire, Running, InstalledInv
  <2>17. CallbacksTracked'
    BY ZenonT(60), <1>0, <1>00, <1>6, <2>1 DEF Acquire, Running, CallbacksTracked
  <2> QED
    BY <2>11, <2>12, <2>13, <2>14, <2>15, <2>16, <2>17 DEF HostInv
<1>7. ASSUME NEW h \in Host, LoadPlugin(h)
      PROVE  HostInv'
  <2>0. /\ owner = h /\ owner # None
        /\ \A g \in Host : g # h => AtRest(g)
        /\ \A k \in Kind : handlers[k] \in Host => handlers[k] = h
        /\ \A c \in installed : c.host = h /\ (c.by \in Host => c.by = h)
        /\ configured => phase[h] \in {"active", "clear", "retained"}
    <3>1. ~AtRest(h)
      BY Zenon, <1>7 DEF LoadPlugin, Running, AtRest
    <3> QED
      BY Zenon, <3>1, Alone
  <2>11. OwnerInv'
    BY Zenon, <1>0, <1>00, <1>7, <2>0 DEF LoadPlugin, Running, OwnerInv, AtRest
  <2>12. ConfigInv'
    BY Zenon, <1>0, <1>00, <1>7, <2>0 DEF LoadPlugin, Running, ConfigInv
  <2>13. RegsInv'
    BY ZenonT(60), <1>0, <1>00, <1>7, <2>0 DEF LoadPlugin, Running, RegsInv
  <2>14. KindsInv'
    <3> DEFINE k == Head(todo[h])
    <3>1. /\ k \in Kind /\ handlers[k] = None /\ handlers' = [handlers EXCEPT ![k] = h]
          /\ held' = [held EXCEPT ![h] = held[h] \cup {k}] /\ stopped' = stopped /\ stopped[h] = {}
      BY ZenonT(60), <1>0, <1>7, TailRange DEF LoadPlugin, Running, RuntimeInv, TypeOK, PlanTypes
    <3>2. \/ /\ nativeKinds' = [nativeKinds EXCEPT ![h] = <<k>> \o nativeKinds[h]]
             /\ k \in NativeKind /\ workerKinds' = workerKinds
          \/ /\ workerKinds' = [workerKinds EXCEPT ![h] = <<k>> \o workerKinds[h]]
             /\ k \in WorkerKind /\ nativeKinds' = nativeKinds
      BY ZenonT(60), <1>7 DEF LoadPlugin
    <3> HIDE DEF k
    <3>3. /\ k \in NativeKind => Range(<<k>> \o nativeKinds[h]) = {k} \cup Range(nativeKinds[h])
          /\ k \in WorkerKind => Range(<<k>> \o workerKinds[h]) = {k} \cup Range(workerKinds[h])
      BY Zenon, <1>00, PushRange
    <3>4. Range(nativeKinds'[h]) \cup Range(workerKinds'[h])
            = {k} \cup Range(nativeKinds[h]) \cup Range(workerKinds[h])
      BY ZenonT(60), <1>00, <3>2, <3>3
    <3>5. \A j \in Kind : handlers'[j] \in Host => handlers'[j] = h /\ (j = k \/ handlers[j] = h)
      BY ZenonT(60), <1>00, <2>0, <3>1
    <3>6. held'[h] = held[h] \cup {k}
      BY <1>00, <3>1
    <3> QED
      BY ZenonT(60), <1>0, <3>1, <3>4, <3>5, <3>6 DEF KindsInv
  <2>15. RuntimeInv'
    BY ZenonT(60), <1>0, <1>00, <1>7, <2>0 DEF LoadPlugin, Running, RuntimeInv, AtRest
  <2>16. InstalledInv'
    BY Zenon, <1>0, <1>00, <1>7, <2>0 DEF LoadPlugin, Running, InstalledInv
  <2>17. CallbacksTracked'
    BY Zenon, <1>0, <1>00, <1>7, <2>0 DEF LoadPlugin, Running, CallbacksTracked
  <2> QED
    BY <2>11, <2>12, <2>13, <2>14, <2>15, <2>16, <2>17 DEF HostInv
<1>8. ASSUME NEW h \in Host, LoadFails(h) \/ Invalid(h)
      PROVE  HostInv'
  <2>0. /\ owner = h /\ owner # None
        /\ \A g \in Host : g # h => AtRest(g)
        /\ \A k \in Kind : handlers[k] \in Host => handlers[k] = h
        /\ \A c \in installed : c.host = h /\ (c.by \in Host => c.by = h)
        /\ configured => phase[h] \in {"active", "clear", "retained"}
    <3>1. ~AtRest(h)
      BY <1>8 DEF LoadFails, Invalid, Running, AtRest
    <3> QED
      BY Zenon, <3>1, Alone
  <2>9. \A k \in Kind : handlers'[k] \in Host => handlers'[k] = handlers[k]
    BY ZenonT(60), <1>8, RestoredTable DEF LoadFails, Invalid
  <2>11. OwnerInv'
    BY ZenonT(60), <1>0, <1>00, <1>8, <2>0 DEF LoadFails, Invalid, Running, OwnerInv, AtRest
  <2>12. ConfigInv'
    <3>1. /\ UNCHANGED <<configured, config, owner, regs, kept>>
          /\ phase' = [phase EXCEPT ![h] = "drop"] /\ phase[h] = "load"
      BY Zenon, <1>8 DEF LoadFails, Invalid, Running
    <3> QED
      BY ZenonT(60), <1>0, <1>00, <2>0, <3>1 DEF ConfigInv
  <2>13. RegsInv'
    BY ZenonT(60), <1>0, <1>00, <1>8, <2>0 DEF LoadFails, Invalid, Running, RegsInv
  <2>14. KindsInv'
    <3>1. UNCHANGED <<nativeKinds, workerKinds, held, stopped>>
      BY ZenonT(60), <1>8 DEF LoadFails, Invalid
    <3> QED
      BY ZenonT(60), <1>0, <2>9, <3>1 DEF KindsInv
  <2>15. RuntimeInv'
    BY ZenonT(60), <1>0, <1>00, <1>8, <2>0 DEF LoadFails, Invalid, Running, RuntimeInv, AtRest
  <2>16. InstalledInv'
    BY Zenon, <1>0, <1>00, <1>8, <2>0 DEF LoadFails, Invalid, Running, InstalledInv
  <2>17. CallbacksTracked'
    BY Zenon, <1>0, <1>00, <1>8, <2>0 DEF LoadFails, Invalid, Running, CallbacksTracked
  <2> QED
    BY <2>11, <2>12, <2>13, <2>14, <2>15, <2>16, <2>17 DEF HostInv
<1>9. ASSUME NEW h \in Host, StartInit(h)
      PROVE  HostInv'
  <2>0. /\ owner = h /\ owner # None
        /\ \A g \in Host : g # h => AtRest(g)
        /\ \A k \in Kind : handlers[k] \in Host => handlers[k] = h
        /\ \A c \in installed : c.host = h /\ (c.by \in Host => c.by = h)
        /\ configured => phase[h] \in {"active", "clear", "retained"}
    <3>1. ~AtRest(h)
      BY <1>9 DEF StartInit, Running, AtRest
    <3> QED
      BY Zenon, <3>1, Alone
  <2>9. \A k \in Kind : handlers'[k] \in Host => handlers'[k] = handlers[k]
    BY ZenonT(60), <1>9, RestoredTable DEF StartInit
  <2>11. OwnerInv'
    BY ZenonT(60), <1>0, <1>00, <1>9, <2>0 DEF StartInit, Running, OwnerInv, AtRest
  <2>12. ConfigInv'
    BY ZenonT(60), <1>0, <1>00, <1>9, <2>0 DEF StartInit, Running, ConfigInv
  <2>13. RegsInv'
    BY Zenon, <1>0, <1>00, <1>9, <2>0 DEF StartInit, Running, RegsInv
  <2>14. KindsInv'
    BY ZenonT(40), <1>0, <1>00, <1>9, <2>0, <2>9 DEF StartInit, Running, KindsInv
  <2>15. RuntimeInv'
    BY ZenonT(60), <1>0, <1>00, <1>9, <2>0 DEF StartInit, Running, RuntimeInv, AtRest
  <2>16. InstalledInv'
    BY Zenon, <1>0, <1>00, <1>9, <2>0 DEF StartInit, Running, InstalledInv
  <2>17. CallbacksTracked'
    BY Zenon, <1>0, <1>00, <1>9, <2>0 DEF StartInit, Running, CallbacksTracked
  <2> QED
    BY <2>11, <2>12, <2>13, <2>14, <2>15, <2>16, <2>17 DEF HostInv
<1>10. ASSUME NEW h \in Host, InitComponent(h)
      PROVE  HostInv'
  <2>0. /\ owner = h /\ owner # None
        /\ \A g \in Host : g # h => AtRest(g)
        /\ \A k \in Kind : handlers[k] \in Host => handlers[k] = h
        /\ \A c \in installed : c.host = h /\ (c.by \in Host => c.by = h)
        /\ configured => phase[h] \in {"active", "clear", "retained"}
    <3>1. ~AtRest(h)
      BY ZenonT(60), <1>10 DEF InitComponent, Running, AtRest
    <3> QED
      BY Zenon, <3>1, Alone
  <2>1. PICK new \in Registered(h, Head(todo[h])) :
           regs' = [regs EXCEPT ![h] = new \o regs[h]] /\ installed' = installed \cup Range(new)
    BY Zenon, <1>10 DEF InitComponent
  <2>2. Head(todo[h]) \in Kind /\ handlers[Head(todo[h])] # None
    BY ZenonT(60), <1>10, TailRange DEF InitComponent, TypeOK, PlanTypes
  <2>3. /\ \A c \in Range(new) : c.host = h /\ (c.by \in Host => c.by = h)
        /\ \A c \in Range(new) : c.by \in Host => c.kind \in held[h] /\ c.kind \notin stopped[h]
        /\ Range(new \o regs[h]) = Range(new) \cup Range(regs[h])
    <3>1. PICK k \in Kind : k = Head(todo[h]) /\ handlers[k] # None /\ new \in Registered(h, k)
      BY Zenon, <2>1, <2>2
    <3>2. new \in Seq(Callback) /\ \A c \in Range(new) : c.host = h /\ c.kind = k /\ c.by = handlers[k]
      BY <1>0, <3>1, RegisteredType
    <3>3. handlers[k] \in Host => handlers[k] = h /\ k \in held[h] /\ k \notin stopped[h]
      BY <1>0, <1>00, <2>0, <3>1 DEF KindsInv
    <3>4. regs[h] \in Seq(Callback)
      BY Zenon, <1>0 DEF TypeOK, RegistrationTypes
    <3>5. Range(new \o regs[h]) = Range(new) \cup Range(regs[h])
      BY <3>2, <3>4, RangeConcatenation
    <3> QED
      BY <3>2, <3>3, <3>5
  <2>11. OwnerInv'
    BY Zenon, <1>0, <1>00, <1>10, <2>0 DEF InitComponent, Running, OwnerInv, AtRest
  <2>12. ConfigInv'
    BY Zenon, <1>0, <1>00, <1>10, <2>0 DEF InitComponent, Running, ConfigInv
  <2>13. RegsInv'
    BY Zenon, <1>0, <1>00, <1>10, <2>0, <2>1 DEF InitComponent, Running, RegsInv
  <2>14. KindsInv'
    BY Zenon, <1>0, <1>00, <1>10, <2>0 DEF InitComponent, Running, KindsInv
  <2>15. RuntimeInv'
    BY Zenon, <1>0, <1>00, <1>10, <2>0 DEF InitComponent, Running, RuntimeInv, AtRest
  <2>16. InstalledInv'
    BY ZenonT(60), <1>0, <1>00, <1>10, <2>0, <2>1, <2>3 DEF InitComponent, Running, InstalledInv
  <2>17. CallbacksTracked'
    BY Zenon, <1>0, <1>00, <1>10, <2>0, <2>1, <2>3 DEF InitComponent, Running, CallbacksTracked
  <2> QED
    BY ZenonT(60), <2>11, <2>12, <2>13, <2>14, <2>15, <2>16, <2>17 DEF HostInv
<1>11. ASSUME NEW h \in Host, ComponentFails(h)
      PROVE  HostInv'
  <2>0. /\ owner = h /\ owner # None
        /\ \A g \in Host : g # h => AtRest(g)
        /\ \A k \in Kind : handlers[k] \in Host => handlers[k] = h
        /\ \A c \in installed : c.host = h /\ (c.by \in Host => c.by = h)
        /\ configured => phase[h] \in {"active", "clear", "retained"}
    <3>1. ~AtRest(h)
      BY ZenonT(60), <1>11 DEF ComponentFails, Running, AtRest
    <3> QED
      BY Zenon, <3>1, Alone
  <2>1. PICK new : /\ \/ new = <<>>
                      \/ handlers[Head(todo[h])] # None /\ new \in Registered(h, Head(todo[h]))
                   /\ regs' = [regs EXCEPT ![h] = new \o regs[h]]
                   /\ installed' = installed \cup Range(new)
    BY Zenon, <1>11 DEF ComponentFails
  <2>2. Head(todo[h]) \in Kind
    BY ZenonT(60), <1>11, TailRange DEF ComponentFails, TypeOK, PlanTypes
  <2>3. /\ \A c \in Range(new) : c.host = h /\ (c.by \in Host => c.by = h)
        /\ \A c \in Range(new) : c.by \in Host => c.kind \in held[h] /\ c.kind \notin stopped[h]
        /\ Range(new \o regs[h]) = Range(new) \cup Range(regs[h])
    <3>1. CASE new = <<>>
      <4>1. new \in Seq(Callback) /\ Range(new) = {}
        BY <3>1, EmptyRange
      <4>2. new \o regs[h] = regs[h]
        <5>1. regs[h] \in Seq(Callback)
          BY <1>00
        <5> QED
          BY <3>1, <5>1, ConcatEmptySeq
      <4> QED
        BY ZenonT(60), <4>1, <4>2
    <3>2. CASE handlers[Head(todo[h])] # None /\ new \in Registered(h, Head(todo[h]))
      BY <1>0, <1>00, <2>0, <2>2, <3>2, RegisteredType, RangeConcatenation DEF KindsInv
    <3> QED
      BY ZenonT(60), <2>1, <3>1, <3>2
  <2>11. OwnerInv'
    BY Zenon, <1>0, <1>00, <1>11, <2>0 DEF ComponentFails, Running, OwnerInv, AtRest
  <2>12. ConfigInv'
    BY Zenon, <1>0, <1>00, <1>11, <2>0 DEF ComponentFails, Running, ConfigInv
  <2>13. RegsInv'
    BY Zenon, <1>0, <1>00, <1>11, <2>0, <2>1 DEF ComponentFails, Running, RegsInv
  <2>14. KindsInv'
    BY ZenonT(60), <1>0, <1>00, <1>11, <2>0 DEF ComponentFails, Running, KindsInv
  <2>15. RuntimeInv'
    BY ZenonT(60), <1>0, <1>00, <1>11, <2>0 DEF ComponentFails, Running, RuntimeInv, AtRest
  <2>16. InstalledInv'
    <3>1. UNCHANGED <<held, stopped>> /\ phase'[h] = "rollback" /\ phase[h] = "init"
      BY ZenonT(60), <1>00, <1>11 DEF ComponentFails, Running
    <3> QED
      BY ZenonT(60), <1>0, <2>0, <2>1, <2>3, <3>1 DEF InstalledInv
  <2>17. CallbacksTracked'
    <3>1. /\ Range(regs'[h]) = Range(new) \cup Range(regs[h])
          /\ config' = config /\ kept' = kept /\ phase[h] # "retained"
          /\ \A c \in installed' : c.host = h /\ (c \in installed \/ c \in Range(new))
      BY Zenon, <1>00, <1>11, <2>0, <2>1, <2>3 DEF ComponentFails, Running
    <3> QED
      BY <1>0, <2>0, <3>1 DEF CallbacksTracked
  <2> QED
    BY <2>11, <2>12, <2>13, <2>14, <2>15, <2>16, <2>17 DEF HostInv
<1>12. ASSUME NEW h \in Host, Activated(h)
      PROVE  HostInv'
  <2>0. /\ owner = h /\ owner # None
        /\ \A g \in Host : g # h => AtRest(g)
        /\ \A k \in Kind : handlers[k] \in Host => handlers[k] = h
        /\ \A c \in installed : c.host = h /\ (c.by \in Host => c.by = h)
        /\ configured => phase[h] \in {"active", "clear", "retained"}
    <3>1. ~AtRest(h)
      BY Zenon, <1>12 DEF Activated, Running, AtRest
    <3> QED
      BY Zenon, <3>1, Alone
  <2>11. OwnerInv'
    BY Zenon, <1>0, <1>00, <1>12, <2>0 DEF Activated, Running, OwnerInv, AtRest
  <2>12. ConfigInv'
    <3>1. \A g \in Host : g # h => phase'[g] # "clear"
      BY Zenon, <1>00, <1>12, <2>0 DEF Activated, Running, AtRest
    <3>2. configured' /\ owner' = h /\ phase'[h] = "active"
      BY Zenon, <1>0, <1>00, <1>12, <2>0, EmptyRange DEF Activated, Running, ConfigInv, RegsInv
    <3> QED
      BY <3>1, <3>2 DEF ConfigInv
  <2>13. RegsInv'
    BY Zenon, <1>0, <1>00, <1>12, <2>0 DEF Activated, Running, RegsInv
  <2>14. KindsInv'
    BY Zenon, <1>0, <1>00, <1>12, <2>0 DEF Activated, Running, KindsInv
  <2>15. RuntimeInv'
    BY Zenon, <1>0, <1>00, <1>12, <2>0 DEF Activated, Running, RuntimeInv, AtRest
  <2>16. InstalledInv'
    BY ZenonT(60), <1>0, <1>00, <1>12, <2>0 DEF Activated, Running, InstalledInv
  <2>17. CallbacksTracked'
    <3>1. kept[h] = <<>> /\ config = <<>> /\ phase[h] # "retained"
      BY <1>0, <1>12, <2>0 DEF Activated, Running, RegsInv, ConfigInv
    <3>2. installed' = installed /\ config' = regs[h]
      BY Zenon, <1>12 DEF Activated
    <3>3. ASSUME NEW c \in installed
          PROVE  c \in Range(config')
      <4>1. Range(kept[h]) = {} /\ Range(config) = {}
        BY Zenon, <3>1, EmptyRange
      <4>2. c.host = h
        BY Zenon, <2>0
      <4> QED
        BY Zenon, <1>0, <3>1, <3>2, <4>1, <4>2 DEF CallbacksTracked
    <3> QED
      BY Zenon, <3>2, <3>3 DEF CallbacksTracked
  <2> QED
    BY <2>11, <2>12, <2>13, <2>14, <2>15, <2>16, <2>17 DEF HostInv
<1>13. ASSUME NEW h \in Host, Deregister(h)
      PROVE  HostInv'
  <2>0. /\ owner = h /\ owner # None
        /\ \A g \in Host : g # h => AtRest(g)
        /\ \A k \in Kind : handlers[k] \in Host => handlers[k] = h
        /\ \A c \in installed : c.host = h /\ (c.by \in Host => c.by = h)
        /\ configured => phase[h] \in {"active", "clear", "retained"}
    <3>1. ~AtRest(h)
      BY SMTT(60), <1>13 DEF Deregister, AtRest
    <3> QED
      BY Zenon, <3>1, Alone
  <2>1. /\ Range(regs[h]) = {Head(regs[h])} \cup Range(Tail(regs[h]))
        /\ Range(Append(kept[h], Head(regs[h]))) = Range(kept[h]) \cup {Head(regs[h])}
    BY <1>00, <1>13, TailRange, AppendRange DEF Deregister
  <2>11. OwnerInv'
    BY Zenon, <1>0, <1>00, <1>13, <2>0 DEF Deregister, OwnerInv, AtRest
  <2>12. ConfigInv'
    BY Zenon, <1>0, <1>00, <1>13, <2>0 DEF Deregister, ConfigInv
  <2>13. RegsInv'
    BY Zenon, <1>0, <1>00, <1>13, <2>0 DEF Deregister, RegsInv
  <2>14. KindsInv'
    BY ZenonT(60), <1>0, <1>00, <1>13, <2>0 DEF Deregister, KindsInv
  <2>15. RuntimeInv'
    BY ZenonT(60), <1>0, <1>00, <1>13, <2>0 DEF Deregister, RuntimeInv, AtRest
  <2>16. InstalledInv'
    BY ZenonT(60), <1>0, <1>00, <1>13, <2>0 DEF Deregister, InstalledInv
  <2>17. CallbacksTracked'
    <3>1. /\ regs'[h] = Tail(regs[h]) /\ config' = config /\ phase[h] # "retained"
          /\ \/ kept' = kept /\ installed' = installed \ {Head(regs[h])}
             \/ kept'[h] = Append(kept[h], Head(regs[h])) /\ installed' = installed
      BY ZenonT(60), <1>00, <1>13 DEF Deregister
    <3>2. \A c \in installed : c \in Range(config) \cup Range(regs[h]) \cup Range(kept[h])
      BY ZenonT(60), <1>0, <2>0, <3>1 DEF CallbacksTracked
    <3>3. \A c \in installed' : c \in Range(config') \cup Range(regs'[h]) \cup Range(kept'[h])
      BY Zenon, <2>1, <3>1, <3>2
    <3> QED
      BY ZenonT(60), <2>0, <3>1, <3>3 DEF CallbacksTracked
  <2> QED
    BY <2>11, <2>12, <2>13, <2>14, <2>15, <2>16, <2>17 DEF HostInv
<1>14. ASSUME NEW h \in Host, RolledBack(h)
      PROVE  HostInv'
  <2>0. /\ owner = h /\ owner # None
        /\ \A g \in Host : g # h => AtRest(g)
        /\ \A k \in Kind : handlers[k] \in Host => handlers[k] = h
        /\ \A c \in installed : c.host = h /\ (c.by \in Host => c.by = h)
        /\ configured => phase[h] \in {"active", "clear", "retained"}
    <3>1. ~AtRest(h)
      BY ZenonT(60), <1>14 DEF RolledBack, AtRest
    <3> QED
      BY Zenon, <3>1, Alone
  <2>1. kept[h] = <<>> => installed = {}
    BY ZenonT(60), <1>0, <1>14, <2>0, EmptyRange DEF RolledBack, CallbacksTracked, ConfigInv
  <2>11. OwnerInv'
    BY Zenon, <1>0, <1>00, <1>14, <2>0 DEF RolledBack, OwnerInv, AtRest
  <2>12. ConfigInv'
    BY Zenon, <1>0, <1>00, <1>14, <2>0 DEF RolledBack, ConfigInv
  <2>13. RegsInv'
    BY Zenon, <1>0, <1>00, <1>14, <2>0 DEF RolledBack, RegsInv
  <2>14. KindsInv'
    BY Zenon, <1>0, <1>00, <1>14, <2>0 DEF RolledBack, KindsInv
  <2>15. RuntimeInv'
    BY ZenonT(60), <1>0, <1>00, <1>14, <2>0 DEF RolledBack, RuntimeInv, AtRest
  <2>16. InstalledInv'
    <3>1. UNCHANGED <<installed, held, stopped>> /\ (kept[h] # <<>> => phase'[h] = "retained")
      BY ZenonT(60), <1>00, <1>14 DEF RolledBack
    <3> QED
      BY ZenonT(60), <1>0, <2>0, <2>1, <3>1 DEF InstalledInv
  <2>17. CallbacksTracked'
    <3>1. installed' = installed /\ (kept[h] # <<>> => phase'[h] = "retained")
      BY ZenonT(60), <1>00, <1>14 DEF RolledBack
    <3> QED
      BY <2>0, <2>1, <3>1 DEF CallbacksTracked
  <2> QED
    BY <2>11, <2>12, <2>13, <2>14, <2>15, <2>16, <2>17 DEF HostInv
<1>15. ASSUME NEW h \in Host, DropWorkerKind(h) \/ DeregisterWorkerKind(h)
      PROVE  HostInv'
  <2>0. /\ owner = h /\ owner # None
        /\ \A g \in Host : g # h => AtRest(g)
        /\ \A k \in Kind : handlers[k] \in Host => handlers[k] = h
        /\ \A c \in installed : c.host = h /\ (c.by \in Host => c.by = h)
        /\ configured => phase[h] \in {"active", "clear", "retained"}
    <3>1. ~AtRest(h)
      BY ZenonT(60), <1>15 DEF DropWorkerKind, DeregisterWorkerKind, AtRest
    <3> QED
      BY Zenon, <3>1, Alone
  <2>1. Range(workerKinds[h]) = {Head(workerKinds[h])} \cup Range(Tail(workerKinds[h]))
    BY <1>00, <1>15, TailRange DEF DropWorkerKind, DeregisterWorkerKind
  <2>11. OwnerInv'
    BY Zenon, <1>0, <1>00, <1>15, <2>0 DEF DropWorkerKind, DeregisterWorkerKind, OwnerInv, AtRest
  <2>12. ConfigInv'
    <3>1. UNCHANGED <<owner, configured, config, phase, regs, kept>>
      BY <1>15 DEF DropWorkerKind, DeregisterWorkerKind
    <3> QED
      BY ZenonT(60), <1>0, <3>1 DEF ConfigInv
  <2>13. RegsInv'
    BY ZenonT(60), <1>0, <1>00, <1>15, <2>0 DEF DropWorkerKind, DeregisterWorkerKind, RegsInv
  <2>14. KindsInv'
    <3> DEFINE k == Head(workerKinds[h])
    <3>1. /\ handlers' = [handlers EXCEPT ![k] = IF handlers[k] = h THEN None ELSE handlers[k]]
          /\ workerKinds'[h] = Tail(workerKinds[h]) /\ UNCHANGED <<nativeKinds, held, stopped>>
      BY ZenonT(60), <1>00, <1>15 DEF DropWorkerKind, DeregisterWorkerKind, WithoutKind
    <3>2. \A j \in Kind : handlers'[j] \in Host => handlers'[j] = h /\ handlers[j] = h /\ j # k
      BY Zenon, <1>00, <2>0, <3>1, HostAssumption
    <3> QED
      BY ZenonT(60), <1>0, <2>1, <3>1, <3>2 DEF KindsInv
  <2>15. RuntimeInv'
    BY Zenon, <1>0, <1>00, <1>15, <2>0, EmptyRange DEF DropWorkerKind, DeregisterWorkerKind, RuntimeInv, AtRest
  <2>16. InstalledInv'
    BY Zenon, <1>0, <1>00, <1>15, <2>0 DEF DropWorkerKind, DeregisterWorkerKind, InstalledInv
  <2>17. CallbacksTracked'
    BY ZenonT(60), <1>0, <1>00, <1>15, <2>0 DEF DropWorkerKind, DeregisterWorkerKind, CallbacksTracked
  <2> QED
    BY <2>11, <2>12, <2>13, <2>14, <2>15, <2>16, <2>17 DEF HostInv
<1>16. ASSUME NEW h \in Host, DropNativeKind(h) \/ DeregisterNativeKind(h)
      PROVE  HostInv'
  <2>0. /\ owner = h /\ owner # None
        /\ \A g \in Host : g # h => AtRest(g)
        /\ \A k \in Kind : handlers[k] \in Host => handlers[k] = h
        /\ \A c \in installed : c.host = h /\ (c.by \in Host => c.by = h)
        /\ configured => phase[h] \in {"active", "clear", "retained"}
    <3>1. ~AtRest(h)
      BY <1>16 DEF DropNativeKind, DeregisterNativeKind, AtRest
    <3> QED
      BY Zenon, <3>1, Alone
  <2>1. Range(nativeKinds[h]) = {Head(nativeKinds[h])} \cup Range(Tail(nativeKinds[h]))
    BY ZenonT(60), <1>00, <1>16, TailRange DEF DropNativeKind, DeregisterNativeKind
  <2>11. OwnerInv'
    BY ZenonT(60), <1>0, <1>00, <1>16, <2>0 DEF DropNativeKind, DeregisterNativeKind, OwnerInv, AtRest
  <2>12. ConfigInv'
    <3>1. UNCHANGED <<owner, configured, config, phase, regs, kept>>
      BY <1>16 DEF DropNativeKind, DeregisterNativeKind
    <3> QED
      BY SMTT(60), <1>0, <3>1 DEF ConfigInv
  <2>13. RegsInv'
    BY ZenonT(60), <1>0, <1>00, <1>16, <2>0 DEF DropNativeKind, DeregisterNativeKind, RegsInv
  <2>14. KindsInv'
    <3> DEFINE k == Head(nativeKinds[h])
    <3>1. /\ handlers' = [handlers EXCEPT ![k] = IF handlers[k] = h THEN None ELSE handlers[k]]
          /\ nativeKinds'[h] = Tail(nativeKinds[h]) /\ UNCHANGED <<workerKinds, held, stopped>>
      BY ZenonT(60), <1>00, <1>16 DEF DropNativeKind, DeregisterNativeKind, WithoutKind
    <3>2. \A j \in Kind : handlers'[j] \in Host => handlers'[j] = h /\ handlers[j] = h /\ j # k
      BY Zenon, <1>00, <2>0, <3>1, HostAssumption
    <3> QED
      BY ZenonT(60), <1>0, <2>1, <3>1, <3>2 DEF KindsInv
  <2>15. RuntimeInv'
    BY Zenon, <1>0, <1>00, <1>16, <2>0, EmptyRange DEF DropNativeKind, DeregisterNativeKind, RuntimeInv, AtRest
  <2>16. InstalledInv'
    BY Zenon, <1>0, <1>00, <1>16, <2>0 DEF DropNativeKind, DeregisterNativeKind, InstalledInv
  <2>17. CallbacksTracked'
    BY Zenon, <1>0, <1>00, <1>16, <2>0 DEF DropNativeKind, DeregisterNativeKind, CallbacksTracked
  <2> QED
    BY <2>11, <2>12, <2>13, <2>14, <2>15, <2>16, <2>17 DEF HostInv
<1>17. ASSUME NEW h \in Host, DropWorkers(h)
      PROVE  HostInv'
  <2>0. /\ owner = h /\ owner # None
        /\ \A g \in Host : g # h => AtRest(g)
        /\ \A k \in Kind : handlers[k] \in Host => handlers[k] = h
        /\ \A c \in installed : c.host = h /\ (c.by \in Host => c.by = h)
        /\ configured => phase[h] \in {"active", "clear", "retained"}
    <3>1. ~AtRest(h)
      BY <1>17 DEF DropWorkers, AtRest
    <3> QED
      BY Zenon, <3>1, Alone
  <2>1. \A k \in Kind : handlers[k] = h => k \in NativeKind
    <3>1. \A k \in Kind : handlers[k] = h => k \in Range(nativeKinds[h])
      BY ZenonT(60), <1>0, <1>17, EmptyRange DEF DropWorkers, KindsInv
    <3>2. Range(nativeKinds[h]) \subseteq NativeKind
      BY <1>00 DEF Range
    <3> QED
      BY ZenonT(60), <3>1, <3>2
  <2>11. OwnerInv'
    BY Zenon, <1>0, <1>00, <1>17, <2>0 DEF DropWorkers, OwnerInv, AtRest
  <2>12. ConfigInv'
    BY Zenon, <1>0, <1>00, <1>17, <2>0 DEF DropWorkers, ConfigInv
  <2>13. RegsInv'
    BY Zenon, <1>0, <1>00, <1>17, <2>0 DEF DropWorkers, RegsInv
  <2>14. KindsInv'
    BY Zenon, <1>0, <1>00, <1>17, <2>0, <2>1, KindAssumption DEF DropWorkers, KindsInv
  <2>15. RuntimeInv'
    BY Zenon, <1>0, <1>00, <1>17, <2>0 DEF DropWorkers, RuntimeInv, AtRest
  <2>16. InstalledInv'
    BY Zenon, <1>0, <1>00, <1>17, <2>0 DEF DropWorkers, InstalledInv
  <2>17. CallbacksTracked'
    BY Zenon, <1>0, <1>00, <1>17, <2>0 DEF DropWorkers, CallbacksTracked
  <2> QED
    BY <2>11, <2>12, <2>13, <2>14, <2>15, <2>16, <2>17 DEF HostInv
<1>18. ASSUME NEW h \in Host, DropLease(h)
      PROVE  HostInv'
  <2>0. /\ owner = h /\ owner # None
        /\ \A g \in Host : g # h => AtRest(g)
        /\ \A k \in Kind : handlers[k] \in Host => handlers[k] = h
        /\ \A c \in installed : c.host = h /\ (c.by \in Host => c.by = h)
        /\ configured => phase[h] \in {"active", "clear", "retained"}
    <3>1. ~AtRest(h)
      BY ZenonT(60), <1>18 DEF DropLease, AtRest
    <3> QED
      BY Zenon, <3>1, Alone
  <2>1. \A k \in Kind : handlers[k] # h
    BY ZenonT(60), <1>0, <1>18, EmptyRange DEF DropLease, KindsInv
  <2>2. installed = {}
    BY ZenonT(60), <1>0, <1>18, <2>0 DEF DropLease, InstalledInv
  <2>11. OwnerInv'
    BY ZenonT(60), <1>0, <1>00, <1>18, <2>0, HostAssumption DEF DropLease, ReleaseLease, OwnerInv, AtRest
  <2>12. ConfigInv'
    BY ZenonT(60), <1>0, <1>00, <1>18, <2>0 DEF DropLease, ReleaseLease, ConfigInv
  <2>13. RegsInv'
    BY Zenon, <1>0, <1>00, <1>18, <2>0 DEF DropLease, RegsInv
  <2>14. KindsInv'
    BY Zenon, <1>0, <1>00, <1>18, <2>0, <2>1 DEF DropLease, KindsInv
  <2>15. RuntimeInv'
    BY Zenon, <1>0, <1>00, <1>18, <2>0 DEF DropLease, RuntimeInv, AtRest
  <2>16. InstalledInv'
    BY Zenon, <1>0, <1>00, <1>18, <2>0, <2>2 DEF DropLease, InstalledInv
  <2>17. CallbacksTracked'
    BY Zenon, <1>0, <1>00, <1>18, <2>0, <2>2 DEF DropLease, CallbacksTracked
  <2> QED
    BY <2>11, <2>12, <2>13, <2>14, <2>15, <2>16, <2>17 DEF HostInv
<1>19. ASSUME NEW h \in Host, Close(h) \/ DropHandle(h)
      PROVE  HostInv'
  <2>0. /\ owner = h /\ owner # None
        /\ \A g \in Host : g # h => AtRest(g)
        /\ \A k \in Kind : handlers[k] \in Host => handlers[k] = h
        /\ \A c \in installed : c.host = h /\ (c.by \in Host => c.by = h)
        /\ configured => phase[h] \in {"active", "clear", "retained"}
    <3>1. ~AtRest(h)
      BY ZenonT(60), <1>19 DEF Close, DropHandle, ClearConfiguration, AtRest
    <3> QED
      BY Zenon, <3>1, Alone
  <2>1. /\ regs'[h] = config /\ config' = <<>> /\ phase'[h] = "clear" /\ phase[h] = "active"
        /\ UNCHANGED <<kept, installed, configured, owner>> /\ regs[h] = <<>> /\ kept[h] = <<>>
    BY ZenonT(60), <1>0, <1>00, <1>19 DEF Close, DropHandle, ClearConfiguration, RegsInv
  <2>11. OwnerInv'
    BY Zenon, <1>0, <1>00, <1>19, <2>0 DEF Close, DropHandle, ClearConfiguration, OwnerInv, AtRest
  <2>12. ConfigInv'
    <3>1. \A g \in Host : g # h => phase'[g] # "clear"
      BY Zenon, <1>00, <1>19, <2>0 DEF Close, DropHandle, ClearConfiguration, AtRest
    <3>2. config # <<>> => configured
      BY ZenonT(60), <1>0 DEF ConfigInv
    <3> QED
      BY ZenonT(60), <2>0, <2>1, <3>1, <3>2 DEF ConfigInv
  <2>13. RegsInv'
    BY Zenon, <1>0, <1>00, <1>19, <2>0 DEF Close, DropHandle, ClearConfiguration, RegsInv
  <2>14. KindsInv'
    BY Zenon, <1>0, <1>00, <1>19, <2>0 DEF Close, DropHandle, ClearConfiguration, KindsInv
  <2>15. RuntimeInv'
    BY ZenonT(60), <1>0, <1>00, <1>19, <2>0 DEF Close, DropHandle, ClearConfiguration, RuntimeInv, AtRest
  <2>16. InstalledInv'
    <3>1. UNCHANGED <<held, stopped>>
      BY ZenonT(60), <1>19 DEF Close, DropHandle, ClearConfiguration
    <3> QED
      BY ZenonT(60), <1>0, <2>0, <2>1, <3>1 DEF InstalledInv
  <2>17. CallbacksTracked'
    <3>1. \A c \in installed : c \in Range(config)
      BY ZenonT(60), <1>0, <2>0, <2>1, EmptyRange DEF CallbacksTracked
    <3> QED
      BY ZenonT(60), <2>0, <2>1, <3>1 DEF CallbacksTracked
  <2> QED
    BY <2>11, <2>12, <2>13, <2>14, <2>15, <2>16, <2>17 DEF HostInv
<1>20. ASSUME NEW h \in Host, Cleared(h)
      PROVE  HostInv'
  <2>0. /\ owner = h /\ owner # None
        /\ \A g \in Host : g # h => AtRest(g)
        /\ \A k \in Kind : handlers[k] \in Host => handlers[k] = h
        /\ \A c \in installed : c.host = h /\ (c.by \in Host => c.by = h)
        /\ configured => phase[h] \in {"active", "clear", "retained"}
    <3>1. ~AtRest(h)
      BY ZenonT(60), <1>20 DEF Cleared, Incomplete, AtRest
    <3> QED
      BY Zenon, <3>1, Alone
  <2>1. kept[h] = <<>> => installed = {}
    BY ZenonT(60), <1>0, <1>20, <2>0, EmptyRange DEF Cleared, CallbacksTracked, ConfigInv
  <2>2. /\ phase[h] = "clear" /\ config = <<>> /\ regs[h] = <<>> /\ regs' = regs /\ kept'[h] = <<>>
        /\ UNCHANGED <<owner, installed, held, stopped>>
    BY ZenonT(60), <1>0, <1>00, <1>20 DEF Cleared, ConfigInv
  <2>3. \/ kept[h] = <<>> /\ ~configured' /\ config' = config /\ phase'[h] = "kinds"
        \/ /\ kept[h] # <<>> /\ configured' = configured /\ config' = kept[h]
           /\ phase'[h] \in {"retained", "active"}
    BY ZenonT(60), <1>00, <1>20 DEF Cleared, Incomplete
  <2>4. kept[h] # <<>> => configured
    BY ZenonT(60), <1>0, <2>2 DEF ConfigInv
  <2>11. OwnerInv'
    BY ZenonT(60), <1>0, <1>00, <1>20, <2>0 DEF Cleared, Incomplete, OwnerInv, AtRest
  <2>12. ConfigInv'
    <3>1. \A g \in Host : phase'[g] # "clear"
      BY Zenon, <1>00, <1>20, <2>0, <2>3 DEF Cleared, Incomplete, AtRest
    <3>2. configured' => owner' = h /\ phase'[h] \in {"active", "retained"}
      BY <2>0, <2>2, <2>3
    <3>3. config' # <<>> => configured'
      BY <2>2, <2>3, <2>4
    <3> QED
      BY Zenon, <3>1, <3>2, <3>3 DEF ConfigInv
  <2>13. RegsInv'
    BY Zenon, <1>0, <1>00, <1>20, <2>0 DEF Cleared, Incomplete, RegsInv
  <2>14. KindsInv'
    BY Zenon, <1>0, <1>00, <1>20, <2>0 DEF Cleared, Incomplete, KindsInv
  <2>15. RuntimeInv'
    BY ZenonT(60), <1>0, <1>00, <1>20, <2>0 DEF Cleared, Incomplete, RuntimeInv, AtRest
  <2>16. InstalledInv'
    BY ZenonT(60), <1>0, <2>0, <2>1, <2>2, <2>3 DEF InstalledInv
  <2>17. CallbacksTracked'
    <3>1. \A c \in installed : c \in Range(kept[h])
      BY ZenonT(60), <1>0, <2>0, <2>2, EmptyRange DEF CallbacksTracked
    <3> QED
      BY ZenonT(60), <2>0, <2>1, <2>2, <2>3, <3>1 DEF CallbacksTracked
  <2> QED
    BY <2>11, <2>12, <2>13, <2>14, <2>15, <2>16, <2>17 DEF HostInv
<1>21. ASSUME NEW h \in Host, Shutdown(h)
      PROVE  HostInv'
  <2>0. /\ owner = h /\ owner # None
        /\ \A g \in Host : g # h => AtRest(g)
        /\ \A k \in Kind : handlers[k] \in Host => handlers[k] = h
        /\ \A c \in installed : c.host = h /\ (c.by \in Host => c.by = h)
        /\ configured => phase[h] \in {"active", "clear", "retained"}
    <3>1. ~AtRest(h)
      BY <1>21 DEF Shutdown, Incomplete, AtRest
    <3> QED
      BY Zenon, <3>1, Alone
  <2>1. \A k \in Kind : handlers[k] # h
    BY ZenonT(60), <1>0, <1>21, EmptyRange DEF Shutdown, KindsInv
  <2>2. installed = {}
    BY ZenonT(60), <1>0, <1>21, <2>0 DEF Shutdown, InstalledInv
  <2>3. /\ phase[h] = "kinds" /\ UNCHANGED <<handlers, nativeKinds, workerKinds>>
        /\ nativeKinds[h] = <<>> /\ workerKinds[h] = <<>>
        /\ \A g \in Host : g # h => held'[g] = held[g] /\ stopped'[g] = stopped[g] /\ phase'[g] = phase[g]
        /\ \/ phase'[h] \in {"retained", "active"} /\ owner' = owner
           \/ phase'[h] = "closed" /\ held'[h] = {} /\ owner' = None
    BY ZenonT(60), <1>00, <1>21, <2>0 DEF Shutdown, Incomplete, ReleaseLease
  <2>11. OwnerInv'
    BY ZenonT(60), <1>0, <2>0, <2>3, HostAssumption DEF OwnerInv, AtRest
  <2>12. ConfigInv'
    BY ZenonT(60), <1>0, <1>00, <1>21, <2>0 DEF Shutdown, Incomplete, ReleaseLease, ConfigInv
  <2>13. RegsInv'
    BY Zenon, <1>0, <1>00, <1>21, <2>0 DEF Shutdown, Incomplete, RegsInv
  <2>14. KindsInv'
    BY ZenonT(60), <1>0, <2>0, <2>1, <2>3 DEF KindsInv
  <2>15. RuntimeInv'
    BY ZenonT(60), <1>0, <2>0, <2>3 DEF RuntimeInv, AtRest
  <2>16. InstalledInv'
    BY Zenon, <1>0, <1>00, <1>21, <2>0, <2>2 DEF Shutdown, Incomplete, InstalledInv
  <2>17. CallbacksTracked'
    BY Zenon, <1>0, <1>00, <1>21, <2>0, <2>2 DEF Shutdown, Incomplete, CallbacksTracked
  <2> QED
    BY <2>11, <2>12, <2>13, <2>14, <2>15, <2>16, <2>17 DEF HostInv
<1> QED
  BY ZenonT(60), <1>1, <1>2, <1>3, <1>4, <1>5, <1>6, <1>7, <1>8, <1>9, <1>10, <1>11, <1>12, <1>13, <1>14, <1>15, <1>16, <1>17, <1>18, <1>19, <1>20, <1>21
     DEF Next, ActivationStep, TeardownStep

\* Loading and teardown keep the kinds of others: builtins are put only where
\* nothing else is, a plugin is loaded only under a free kind, and a teardown
\* removes a kind only while its own plugin is registered under it.
LEMMA OthersKept ==
    ASSUME TypeOK, NEW h \in Host, ActivationStep(h) \/ TeardownStep(h),
           NEW k \in Kind, handlers[k] \in (Host \ {h}) \cup {User}
    PROVE  handlers'[k] = handlers[k]
<1> USE HostAssumption DEF leaseVars, configVars, localVars, runtimeVars, GoTo
<1>1. handlers \in [Kind -> Host \cup {None, User, Builtin}]
  BY ZenonT(60) DEF TypeOK, TableTypes
<1>2. handlers[k] # None /\ handlers[k] # Builtin /\ handlers[k] # h
  BY ZenonT(60) DEF User, Builtin
<1>3. CASE \/ Acquire(h) \/ LeaseTaken(h) \/ BuiltinTaken(h)
           \/ StartInit(h) \/ LoadFails(h) \/ Invalid(h)
  BY ZenonT(60), <1>2, <1>3, RestoredTable DEF Acquire, LeaseTaken, BuiltinTaken, StartInit, LoadFails, Invalid
<1>4. CASE LoadPlugin(h)
  BY ZenonT(60), <1>1, <1>2, <1>4 DEF LoadPlugin
<1>5. CASE \/ InitComponent(h) \/ ComponentFails(h) \/ Activated(h) \/ Deregister(h)
           \/ RolledBack(h) \/ DropWorkers(h) \/ DropLease(h) \/ Cleared(h) \/ Shutdown(h)
  BY Zenon, <1>5 DEF InitComponent, ComponentFails, Activated, Deregister, RolledBack, DropWorkers,
              DropLease, Cleared, Shutdown
<1>6. CASE \/ DropWorkerKind(h) \/ DropNativeKind(h)
           \/ DeregisterNativeKind(h) \/ DeregisterWorkerKind(h)
  BY Zenon, <1>1, <1>2, <1>6 DEF DropWorkerKind, DropNativeKind, DeregisterNativeKind,
                          DeregisterWorkerKind, WithoutKind
<1> QED
  BY Zenon, <1>3, <1>4, <1>5, <1>6 DEF ActivationStep, TeardownStep

-------------------------------------------------------------------------------
(* Theorems *)

\* The variables of the plugin host stay within their types.
THEOREM HostTypeCorrect == Spec => []TypeOK
BY TypeInit, TypeStep, PTL DEF Spec

\* The inductive invariant holds for any number of hosts, kinds and
\* configurations.
THEOREM HostInvariant == Spec => []HostInv
BY HostInit, HostStep, HostTypeCorrect, PTL DEF Spec

\* No callback and no registered kind outlives the runtime it calls into.
THEOREM RuntimesOutlive == Spec => []RuntimeOutlives
<1>1. HostInv => RuntimeOutlives
  BY Zenon DEF HostInv, InstalledInv, KindsInv, RuntimeOutlives
<1> QED
  BY <1>1, HostInvariant, PTL

\* The lease covers every callback and every host under way, and an activation
\* never finds a configuration to replace.
THEOREM LeaseExclusive == Spec => []LeaseExclusion
<1>1. TypeOK /\ HostInv => LeaseExclusion
  <2> SUFFICES ASSUME TypeOK, HostInv
               PROVE  LeaseExclusion
    BY ZenonT(60)
  <2>1. \A h \in Host : phase[h] \notin {"idle", "queued", "failed", "closed"} => owner = h
    BY DEF HostInv, OwnerInv, AtRest
  <2>2. \A c \in installed : owner = c.host
    <3>1. \A c \in installed : c.host \in Host
      BY DEF TypeOK, TableTypes, Callback
    <3> QED
      BY ZenonT(60), <2>1, <3>1 DEF HostInv, InstalledInv
  <2>3. configured => owner # None
    BY HostAssumption DEF HostInv, ConfigInv
  <2>4. \A h \in Host : phase[h] \in {"load", "init"} => ~configured
    BY <2>1 DEF HostInv, ConfigInv
  <2> QED
    BY <2>1, <2>2, <2>3, <2>4 DEF LeaseExclusion
<1> QED
  BY <1>1, HostInvariant, HostTypeCorrect, PTL

\* Whatever fails, and wherever a teardown stops, somebody who can still remove a
\* registered callback knows of it.
THEOREM CallbacksKnown == Spec => []CallbacksTracked
<1>1. HostInv => CallbacksTracked
  BY Zenon DEF HostInv
<1> QED
  BY <1>1, HostInvariant, PTL

\* A failed or closed host leaves no callback, kind, runtime or lease behind.
THEOREM NothingLeftBehind == Spec => []FailedLeavesNothing
<1>1. HostInv => FailedLeavesNothing
  BY DEF HostInv, OwnerInv, RuntimeInv, KindsInv, InstalledInv, AtRest, FailedLeavesNothing
<1> QED
  BY <1>1, HostInvariant, PTL

\* Loading and teardown never take away a kind somebody else registered.
THEOREM OthersKindsKept == Spec => KindsOfOthersKept
<1>1. TypeOK /\ [Next]_vars =>
        [ \A h \in Host : ActivationStep(h) \/ TeardownStep(h) =>
            \A k \in Kind : handlers[k] \in (Host \ {h}) \cup {User} => handlers'[k] = handlers[k] ]_vars
  BY OthersKept
<1> QED
  BY <1>1, HostTypeCorrect, PTL DEF Spec, KindsOfOthersKept
===============================================================================
