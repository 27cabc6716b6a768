--------------------------- MODULE ScopeStackProofs ---------------------------
(***************************************************************************)
(* Proofs about ScopeStack, for any set of threads, scopes and stacks.     *)
(***************************************************************************)
EXTENDS ScopeStackInv, WellFoundedInduction, TLAPS

-----------------------------------------------------------------------------
\* A set of naturals that is not empty has a first element.
LEMMA FirstIn ==
    ASSUME NEW S \in SUBSET Nat, S # {}
    PROVE  First(S) \in S /\ \A j \in S : First(S) <= j
<1> DEFINE R == {p \in Nat \X Nat : p[1] < p[2]}
<1>1. IsWellFoundedOn(R, Nat)
  BY NatLessThanWellFounded DEF OpToRel
<1>2. PICK i \in S : \A j \in S : <<j, i>> \notin R
  <2> HIDE DEF R
  <2> QED BY Zenon, <1>1, WFMin
<1>3. \A j \in S : <<j, i>> \notin R => i <= j
  OBVIOUS
<1>4. \A j \in S : i <= j
  BY Zenon, <1>2, <1>3
<1> QED BY Zenon, <1>4 DEF First

\* A set of positions that is not empty has a last element.
LEMMA LastIn ==
    ASSUME NEW n \in Nat, NEW S \in SUBSET (1 .. n), S # {}
    PROVE  Last(S) \in S
<1> DEFINE T == {n - i : i \in S}
<1>1. T \in SUBSET Nat /\ T # {}
  <2>1. \A i \in S : i \in 1 .. n
    OBVIOUS
  <2>2. \A i \in 1 .. n : n - i \in Nat
    OBVIOUS
  <2>3. \A i \in S : n - i \in Nat
    BY <2>1, <2>2
  <2> QED BY <2>3, Zenon
<1> DEFINE R == {p \in Nat \X Nat : p[1] < p[2]}
<1>2. IsWellFoundedOn(R, Nat)
  BY ZenonT(60), NatLessThanWellFounded DEF OpToRel
<1>3. PICK k \in T : \A j \in T : <<j, k>> \notin R
  <2> HIDE DEF R, T
  <2> QED BY Zenon, <1>1, <1>2, WFMin
<1>4. PICK i \in S : k = n - i
  BY ZenonT(60)
<1>5. ASSUME NEW j \in S PROVE j <= i
  <2>1. <<n - j, n - i>> \notin R
    BY <1>3, <1>4
  <2> QED BY <2>1
<1> QED BY ZenonT(60), <1>5 DEF Last

-----------------------------------------------------------------------------
\* What the fields of a stack hold.
LEMMA StackFields ==
    ASSUME NEW st \in StackType
    PROVE  /\ st.scopes \in Seq(Handle) /\ Len(st.scopes) \in Nat
           /\ \A i \in 1 .. Len(st.scopes) :
                 st.scopes[i] \in Handle /\ st.scopes[i].uuid \in Uuid
                 /\ st.scopes[i].agent \in BOOLEAN /\ st.scopes[i].uuid \in OnStack(st)
           /\ OnStack(st) \subseteq Uuid
           /\ st.scopes # <<>> => Len(st.scopes) >= 1 /\ Top(st).uuid \in OnStack(st)
<1>1. st.scopes \in Seq(Handle)
  BY DEF StackType
<1>2. /\ Len(st.scopes) \in Nat
      /\ \A i \in 1 .. Len(st.scopes) : st.scopes[i] \in Handle
  BY <1>1
<1>3. \A i \in 1 .. Len(st.scopes) :
        st.scopes[i].uuid \in Uuid /\ st.scopes[i].agent \in BOOLEAN
  BY ZenonT(60), <1>2 DEF Handle
<1>4. st.scopes # <<>> => Len(st.scopes) >= 1
  BY <1>1
<1> QED BY <1>1, <1>2, <1>3, <1>4 DEF OnStack, Top

\* ScopeStack::push adds one handle above the others.
LEMMA PushedOk ==
    ASSUME NEW st \in StackType, NEW h \in Handle
    PROVE  /\ Pushed(st, h) \in StackType
           /\ Len(Pushed(st, h).scopes) = Len(st.scopes) + 1
           /\ \A i \in 1 .. Len(st.scopes) : Pushed(st, h).scopes[i] = st.scopes[i]
           /\ Pushed(st, h).scopes[Len(st.scopes) + 1] = h
           /\ Pushed(st, h).registries = st.registries
           /\ Pushed(st, h).root = st.root
           /\ Pushed(st, h).fresh = IF h.agent THEN st.fresh \cup {h.uuid} ELSE st.fresh
<1>1. st.scopes \in Seq(Handle) /\ Len(st.scopes) \in Nat
  BY StackFields
<1>2. /\ Append(st.scopes, h) \in Seq(Handle)
      /\ Len(Append(st.scopes, h)) = Len(st.scopes) + 1
      /\ \A i \in 1 .. Len(st.scopes) : Append(st.scopes, h)[i] = st.scopes[i]
      /\ Append(st.scopes, h)[Len(st.scopes) + 1] = h
  BY <1>1
<1>3. h.uuid \in Uuid
  BY DEF Handle
<1> QED BY Zenon, <1>2, <1>3 DEF Pushed, StackType

\* push puts one scope on the stack and leaves it well formed.
LEMMA PushedOpen ==
    ASSUME NEW st \in StackType, NEW h \in Handle, st.scopes # <<>>
    PROVE  /\ Pushed(st, h).scopes # <<>>
           /\ OnStack(Pushed(st, h)) = OnStack(st) \cup {h.uuid}
           /\ WellFormed(st) /\ Owned(st) /\ h.uuid \notin OnStack(st) =>
                 WellFormed(Pushed(st, h)) /\ Owned(Pushed(st, h))
<1> DEFINE n == Len(st.scopes)
           new == Pushed(st, h)
<1>1. n \in Nat /\ n >= 1 /\ new \in StackType /\ Len(new.scopes) = n + 1
  BY Zenon, StackFields, PushedOk
<1>2. /\ \A i \in 1 .. n : new.scopes[i] = st.scopes[i]
      /\ new.scopes[n + 1] = h
      /\ new.registries = st.registries
      /\ new.fresh = IF h.agent THEN st.fresh \cup {h.uuid} ELSE st.fresh
  BY Zenon, PushedOk
<1>3. new.scopes # <<>>
  BY <1>1
<1> HIDE DEF new, n
<1>4. OnStack(new) = OnStack(st) \cup {h.uuid}
  <2>1. ASSUME NEW u \in OnStack(new) PROVE u \in OnStack(st) \cup {h.uuid}
    BY SMTT(60), <1>1, <1>2 DEF OnStack, n
  <2>2. ASSUME NEW u \in OnStack(st) PROVE u \in OnStack(new)
    BY <1>1, <1>2 DEF OnStack, n
  <2>3. h.uuid \in OnStack(new)
    BY <1>1, <1>2 DEF OnStack
  <2> QED BY ZenonT(60), <2>1, <2>2, <2>3
<1>5. ASSUME WellFormed(st), Owned(st), h.uuid \notin OnStack(st)
      PROVE  WellFormed(new) /\ Owned(new)
  <2>1. ASSUME NEW i \in 1 .. n + 1, NEW j \in 1 .. n + 1,
               new.scopes[i].uuid = new.scopes[j].uuid
        PROVE  i = j
    <3>1. \A k \in 1 .. n : new.scopes[k].uuid # h.uuid
      BY ZenonT(60), <1>2, <1>5 DEF OnStack, n
    <3>2. i \in 1 .. n \/ i = n + 1
      BY <1>1
    <3>3. j \in 1 .. n \/ j = n + 1
      BY <1>1
    <3>4. CASE i \in 1 .. n /\ j \in 1 .. n
      BY ZenonT(60), <1>2, <1>5, <2>1, <3>4 DEF WellFormed, n
    <3> QED BY ZenonT(60), <1>2, <2>1, <3>1, <3>2, <3>3, <3>4
  <2>2. new.scopes[1].agent
    BY <1>1, <1>2, <1>5 DEF WellFormed, n
  <2>3. \A r \in new.registries : r.scope \in OnStack(new)
    BY ZenonT(60), <1>2, <1>4, <1>5 DEF Owned
  <2>4. ASSUME NEW u \in new.fresh
        PROVE  \E i \in 1 .. n + 1 : new.scopes[i].uuid = u /\ new.scopes[i].agent
    BY SMTT(60), <1>1, <1>2, <1>5 DEF Owned, n
  <2>5. WellFormed(new)
    BY SMTT(30), <1>1, <2>1, <2>2 DEF WellFormed
  <2>6. Owned(new)
    BY SMTT(30), <1>1, <2>3, <2>4 DEF Owned
  <2> QED BY Zenon, <2>5, <2>6
<1> QED BY ZenonT(60), <1>3, <1>4, <1>5 DEF new

\* ScopeStack::remove takes the last handle off, and its registries.
LEMMA RemovedOk ==
    ASSUME NEW st \in StackType, NEW u, st.scopes # <<>>, Removable(st, u)
    PROVE  /\ Removed(st, u) \in StackType
           /\ Len(st.scopes) > 1 /\ st.scopes[Len(st.scopes)].uuid = u
           /\ Len(Removed(st, u).scopes) = Len(st.scopes) - 1
           /\ \A i \in 1 .. Len(st.scopes) - 1 : Removed(st, u).scopes[i] = st.scopes[i]
           /\ Removed(st, u).registries = {r \in st.registries : r.scope # u}
           /\ Removed(st, u).fresh = st.fresh \ {u}
           /\ Removed(st, u).root = st.root
<1> DEFINE n == Len(st.scopes)
           sub == SubSeq(st.scopes, 1, n - 1)
<1>1. n \in Nat /\ n >= 1 /\ \A i \in 1 .. n : st.scopes[i] \in Handle
  BY SMTT(60), StackFields
<1>2. n > 1 /\ st.scopes[n].uuid = u
  <2>1. st.scopes[n].uuid = u
    BY DEF Removable, Top
  <2>2. n # 1
    BY DEF Removable
  <2> HIDE DEF n
  <2> QED BY <1>1, <2>1, <2>2
<1>3. sub \in Seq(Handle) /\ Len(sub) = n - 1 /\ \A i \in 1 .. n - 1 : sub[i] = st.scopes[i]
  <2>1. \A i \in 1 .. n - 1 : st.scopes[i] \in Handle
    BY <1>1
  <2>2. n - 1 \in Int /\ 1 \in Int /\ 1 <= n - 1
    BY <1>1, <1>2
  <2> HIDE DEF n
  <2>3. /\ sub \in Seq(Handle)
        /\ Len(sub) = IF 1 <= n - 1 THEN (n - 1) - 1 + 1 ELSE 0
        /\ \A i \in 1 .. (n - 1) - 1 + 1 : sub[i] = st.scopes[1 + i - 1]
    BY <2>1, <2>2
  <2> QED BY <1>1, <2>2, <2>3
<1>4. /\ Removed(st, u).scopes = sub
      /\ Removed(st, u).registries = {r \in st.registries : r.scope # u}
      /\ Removed(st, u).fresh = st.fresh \ {u}
      /\ Removed(st, u).root = st.root
  BY DEF Removed, StackType
<1>5. Removed(st, u) \in StackType
  BY Zenon, <1>3 DEF Removed, StackType
<1> QED BY SMTT(60), <1>2, <1>3, <1>4, <1>5

\* remove takes the scope off and leaves the stack well formed.
LEMMA RemovedOpen ==
    ASSUME NEW st \in StackType, NEW u, st.scopes # <<>>, Removable(st, u)
    PROVE  /\ Removed(st, u).scopes # <<>>
           /\ OnStack(Removed(st, u)) \subseteq OnStack(st)
           /\ WellFormed(st) => u \notin OnStack(Removed(st, u))
           /\ WellFormed(st) /\ Owned(st) =>
                 WellFormed(Removed(st, u)) /\ Owned(Removed(st, u))
<1> DEFINE n == Len(st.scopes)
           new == Removed(st, u)
<1>1. /\ n \in Nat /\ n > 1 /\ new \in StackType /\ Len(new.scopes) = n - 1
      /\ st.scopes[n].uuid = u
  BY ZenonT(60), StackFields, RemovedOk
<1>2. /\ \A i \in 1 .. n - 1 : new.scopes[i] = st.scopes[i]
      /\ new.registries = {r \in st.registries : r.scope # u}
      /\ new.fresh = st.fresh \ {u}
  BY SMTT(60), RemovedOk
<1>3. new.scopes # <<>>
  BY <1>1
<1> HIDE DEF new, n
<1>4. OnStack(new) \subseteq OnStack(st)
  BY <1>1, <1>2 DEF OnStack, n
<1>5. ASSUME WellFormed(st) PROVE u \notin OnStack(new)
  BY SMTT(60), <1>1, <1>2, <1>5 DEF OnStack, WellFormed, n
<1>6. ASSUME WellFormed(st), Owned(st)
      PROVE  WellFormed(new) /\ Owned(new)
  <2>1. WellFormed(new)
    <3>1. new.scopes[1].agent
      BY <1>1, <1>2, <1>6 DEF WellFormed, n
    <3>2. ASSUME NEW i \in 1 .. n - 1, NEW j \in 1 .. n - 1,
                 new.scopes[i].uuid = new.scopes[j].uuid
          PROVE  i = j
      <4>1. i \in 1 .. n /\ j \in 1 .. n /\ st.scopes[i].uuid = st.scopes[j].uuid
        BY <1>1, <1>2, <3>2
      <4> QED BY <1>6, <4>1 DEF WellFormed, n
    <3> QED BY ZenonT(60), <1>1, <3>1, <3>2 DEF WellFormed
  <2>2. ASSUME NEW r \in new.registries PROVE r.scope \in OnStack(new)
    BY SMTT(60), <1>1, <1>2, <1>6 DEF Owned, OnStack, n
  <2>3. ASSUME NEW v \in new.fresh
        PROVE  \E i \in 1 .. n - 1 : new.scopes[i].uuid = v /\ new.scopes[i].agent
    BY SMTT(60), <1>1, <1>2, <1>6 DEF Owned, n
  <2> QED BY ZenonT(60), <1>1, <2>1, <2>2, <2>3 DEF Owned
<1> QED BY ZenonT(60), <1>3, <1>4, <1>5, <1>6 DEF new

\* ScopeStack::event_propagation_root_uuid names a scope of the stack, or the
\* root the stack was imported with.
LEMMA EventRootOk ==
    ASSUME NEW st \in StackType, st.scopes # <<>>
    PROVE  /\ EventRoot(st) \in Uuid \cup {None}
           /\ EventRoot(st) \in OnStack(st) \/ EventRoot(st) = st.root \/ EventRoot(st) = None
<1> DEFINE explicit == {i \in 2 .. Len(st.scopes) : st.scopes[i].agent}
<1>1. /\ Len(st.scopes) \in Nat /\ Len(st.scopes) >= 1
      /\ \A i \in 1 .. Len(st.scopes) : st.scopes[i].uuid \in Uuid /\ st.scopes[i].uuid \in OnStack(st)
  BY ZenonT(60), StackFields
<1>2. st.root \in Uuid \cup {None}
  BY DEF StackType
<1>3. ASSUME explicit # {} PROVE First(explicit) \in 1 .. Len(st.scopes)
  <2>1. explicit \in SUBSET Nat
    BY <1>1
  <2>2. First(explicit) \in explicit
    <3> HIDE DEF explicit
    <3> QED BY ZenonT(60), <1>3, <2>1, FirstIn
  <2> QED BY <1>1, <2>2
<1>4. CASE st.root # None
  BY <1>2, <1>4 DEF EventRoot
<1>5. CASE st.root = None /\ explicit # {}
  <2>1. EventRoot(st) = st.scopes[First(explicit)].uuid
    BY ZenonT(60), <1>5 DEF EventRoot
  <2> QED BY Zenon, <1>1, <1>3, <1>5, <2>1
<1>6. CASE st.root = None /\ explicit = {}
  <2>1. EventRoot(st) = IF st.rootless THEN None ELSE st.scopes[1].uuid
    BY ZenonT(60), <1>6 DEF EventRoot
  <2> QED BY <1>1, <2>1
<1> QED BY ZenonT(60), <1>4, <1>5, <1>6

\* ScopeStack::owning_agent_uuid always finds an agent, and one that is open.
LEMMA OwningAgentOk ==
    ASSUME NEW st \in StackType, st.scopes # <<>>, WellFormed(st), NEW p
    PROVE  \E i \in 1 .. Len(st.scopes) :
              st.scopes[i].uuid = OwningAgent(st, p) /\ st.scopes[i].agent
<1> DEFINE at == {i \in 1 .. Len(st.scopes) : st.scopes[i].uuid = p}
           end == IF at = {} THEN Len(st.scopes) ELSE First(at)
           agents == {i \in 1 .. end : st.scopes[i].agent}
<1>1. Len(st.scopes) \in Nat /\ Len(st.scopes) >= 1
  BY ZenonT(60), StackFields
<1>2. end \in 1 .. Len(st.scopes)
  <2>1. at \in SUBSET Nat
    OBVIOUS
  <2>2. at # {} => First(at) \in at
    <3> HIDE DEF at
    <3> QED BY <2>1, FirstIn
  <2>3. CASE at = {}
    BY <1>1, <2>3
  <2>4. CASE at # {}
    BY ZenonT(60), <2>2, <2>4
  <2> QED BY ZenonT(60), <2>3, <2>4
<1>3. 1 \in agents
  BY <1>2 DEF WellFormed
<1>4. Last(agents) \in agents
  <2>1. agents \in SUBSET (1 .. end)
    BY Zenon
  <2> HIDE DEF agents, end, at
  <2>2. end \in Nat
    BY SMTT(30), <1>1, <1>2
  <2> QED BY Zenon, <1>3, <2>1, <2>2, LastIn
<1>5. OwningAgent(st, p) = st.scopes[Last(agents)].uuid
  BY DEF OwningAgent
<1>6. Last(agents) \in 1 .. Len(st.scopes) /\ st.scopes[Last(agents)].agent
  <2> HIDE DEF end
  <2> QED BY SMTT(60), <1>1, <1>2, <1>4
<1> QED BY Zenon, <1>5, <1>6
\* ScopeStack::new
LEMMA NewOpen ==
    ASSUME NEW s \in OwnStack
    PROVE  /\ New(s) \in StackType /\ New(s).scopes # <<>> /\ New(s).root = None
           /\ OnStack(New(s)) = {s} /\ WellFormed(New(s)) /\ Owned(New(s))
<1> DEFINE h == [uuid |-> s, agent |-> TRUE]
<1>1. h \in Handle /\ h.uuid = s /\ h.agent
  BY ZenonT(60) DEF Handle, Uuid
<1>2. /\ New(s).scopes = <<h>> /\ New(s).registries = {} /\ New(s).fresh = {s}
      /\ New(s).root = None
  BY Zenon DEF New
<1> HIDE DEF h
<1>3. <<h>> \in Seq(Handle) /\ Len(<<h>>) = 1 /\ <<h>>[1] = h /\ <<h>> # <<>>
  BY <1>1
<1>4. New(s) \in StackType
  <2>1. New(s) = [scopes |-> <<h>>, registries |-> {}, fresh |-> {s},
                  parent |-> None, root |-> None, rootless |-> FALSE]
    BY ZenonT(60) DEF New, h
  <2> QED BY <1>3, <2>1 DEF StackType, Uuid
<1>5. OnStack(New(s)) = {s}
  BY <1>1, <1>2, <1>3 DEF OnStack
<1>6. WellFormed(New(s)) /\ Owned(New(s))
  BY <1>1, <1>2, <1>3 DEF WellFormed, Owned
<1> QED BY ZenonT(60), <1>2, <1>3, <1>4, <1>5, <1>6

\* ScopeStack::from_propagation
LEMMA FromPropagationOpen ==
    ASSUME NEW root \in Uuid \cup {None}, NEW parent \in Uuid
    PROVE  LET st == FromPropagation(root, parent) IN
           /\ st \in StackType /\ st.scopes # <<>> /\ st.root = root
           /\ \A u \in OnStack(st) : u = parent \/ (u = root /\ root # None)
           /\ WellFormed(st) /\ Owned(st)
<1> DEFINE st == FromPropagation(root, parent)
           bottom == [uuid |-> IF root = None THEN parent ELSE root, agent |-> TRUE]
           below == [uuid |-> parent, agent |-> FALSE]
           rootless == root = None
           scopes == IF root = None \/ root = parent THEN <<bottom>> ELSE <<bottom, below>>
           above == IF root = None THEN None ELSE parent
<1>0. rootless \in BOOLEAN /\ above \in Uuid \cup {None}
  BY ZenonT(60)
<1>1. /\ bottom \in Handle /\ below \in Handle /\ bottom.agent /\ below.uuid = parent
      /\ bottom.uuid = IF root = None THEN parent ELSE root
  BY ZenonT(60) DEF Handle
<1>2. /\ st.scopes = scopes
      /\ st.registries = {} /\ st.fresh = {bottom.uuid} /\ st.root = root
      /\ st = [scopes |-> scopes, registries |-> {}, fresh |-> {bottom.uuid},
               parent |-> above, root |-> root, rootless |-> rootless]
  BY ZenonT(60) DEF FromPropagation
<1> HIDE DEF st, bottom, below, rootless, above
<1>3. scopes \in Seq(Handle) /\ scopes # <<>>
  BY <1>1
<1>4. st \in StackType
  <2>1. bottom.uuid \in Uuid
    BY SMTT(60), <1>1
  <2> HIDE DEF scopes
  <2> QED BY SMTT(60), <1>0, <1>2, <1>3, <2>1 DEF StackType
<1>5. CASE root = None \/ root = parent
  <2>1. Len(st.scopes) = 1 /\ st.scopes[1] = bottom
    BY SMTT(60), <1>2, <1>5
  <2>2. WellFormed(st) /\ Owned(st)
    BY SMTT(60), <1>1, <1>2, <2>1 DEF WellFormed, Owned
  <2>3. bottom.uuid = parent
    BY <1>1, <1>5
  <2>4. \A u \in OnStack(st) : u = parent
    BY SMTT(60), <2>1, <2>3 DEF OnStack
  <2> QED BY ZenonT(60), <1>2, <1>3, <1>4, <2>2, <2>4 DEF st
<1>6. CASE ~(root = None \/ root = parent)
  <2>1. Len(st.scopes) = 2 /\ st.scopes[1] = bottom /\ st.scopes[2] = below
    BY SMTT(60), <1>2, <1>6
  <2>2. \A i \in 1 .. 2 : i = 1 \/ i = 2
    OBVIOUS
  <2>3. WellFormed(st)
    BY ZenonT(60), <1>1, <1>6, <2>1, <2>2 DEF WellFormed
  <2>4. Owned(st) /\ \A u \in OnStack(st) : u = parent \/ u = root
    BY SMTT(60), <1>1, <1>2, <2>1, <2>2 DEF Owned, OnStack
  <2> QED BY ZenonT(60), <1>2, <1>3, <1>4, <1>6, <2>3, <2>4 DEF st
<1> QED BY ZenonT(60), <1>5, <1>6
-----------------------------------------------------------------------------
\* u is seen once t has left task_scope_push.
Released(t, u) ==
    u \in Scope =>
        /\ u \in minted
        /\ \A v \in Thread \ {t} : call[v].pc = "push-write" => call[v].uuid # u

\* A uuid that was seen, or that its own call is about to push, is known to the thread.
LEMMA SeenReleased ==
    ASSUME TypeOK, OpenInv, NEW t \in Thread
    PROVE  /\ \A u : Seen(u) => Released(t, u)
           /\ call[t].pc = "push-write" => Released(t, call[t].uuid)
BY ZenonT(60) DEF Seen, Released, OpenInv, MintedInv

\* A step that gives one stack and one call a new value, and leaves what the
\* other threads see alone.
LEMMA StepOpen ==
    ASSUME TypeOK, OpenInv, NEW t \in Thread, NEW s \in Stack,
           NEW W \in StackType, NEW c \in CallType,
           W.scopes # <<>>, WellFormed(W), Owned(W),
           \A u \in OnStack(W) : Released(t, u),
           W.root # None => Released(t, W.root),
           c.pc # "push-write", CallOk(c),
           c.parent # None => Released(t, c.parent),
           c.pc \notin {"idle", "push"} /\ c.uuid # None => Released(t, c.uuid),
           stacks' = [stacks EXCEPT ![s] = W], call' = [call EXCEPT ![t] = c],
           visible' = visible, minted' = minted
    PROVE  OpenInv' /\ stacks' \in [Stack -> StackType] /\ call' \in [Thread -> CallType]
<1>1. /\ stacks \in [Stack -> StackType] /\ call \in [Thread -> CallType]
      /\ visible \in [Thread -> Stack]
  BY SMTT(60) DEF TypeOK
<1>2. /\ stacks' \in [Stack -> StackType] /\ call' \in [Thread -> CallType]
      /\ stacks'[s] = W /\ \A v \in Stack \ {s} : stacks'[v] = stacks[v]
      /\ call'[t] = c /\ \A v \in Thread \ {t} : call'[v] = call[v]
  BY ZenonT(60), <1>1
<1> DEFINE SeenNext(u) ==
             u \in Scope =>
                 /\ u \in minted'
                 /\ \A v \in Thread : call'[v].pc = "push-write" => call'[v].uuid # u
<1>3. \A u : Released(t, u) => SeenNext(u)
  BY ZenonT(60), <1>2 DEF Released
<1>4. \A u : Seen(u) => SeenNext(u)
  BY ZenonT(60), <1>3, SeenReleased
<1>5. MintedInv'
  BY ZenonT(60), <1>2 DEF OpenInv, MintedInv
<1>6. SeenInv'
  <2> HIDE DEF SeenNext
  <2>1. ASSUME NEW v \in Stack PROVE \A u \in OnStack(stacks'[v]) : SeenNext(u)
    BY ZenonT(60), <1>2, <1>3, <1>4 DEF OpenInv, SeenInv
  <2>2. ASSUME NEW v \in Stack, stacks'[v].root # None PROVE SeenNext(stacks'[v].root)
    BY ZenonT(60), <1>2, <1>3, <1>4, <2>2 DEF OpenInv, SeenInv
  <2>3. ASSUME NEW v \in Thread, call'[v].parent # None PROVE SeenNext(call'[v].parent)
    BY ZenonT(60), <1>2, <1>3, <1>4, <2>3 DEF OpenInv, SeenInv
  <2>4. ASSUME NEW v \in Thread, call'[v].pc \notin {"idle", "push", "push-write"},
               call'[v].uuid # None
        PROVE  SeenNext(call'[v].uuid)
    BY ZenonT(60), <1>2, <1>3, <1>4, <2>4 DEF OpenInv, SeenInv
  <2> QED BY <2>1, <2>2, <2>3, <2>4, ZenonT(60) DEF SeenInv, OnStack, Seen, SeenNext
<1>7. CallInv'
  BY SMTT(60), <1>2 DEF OpenInv, CallInv, Created
<1>8. OpenScopesOwn'
  <2>1. ASSUME NEW v \in Stack, stacks'[v].scopes # <<>>
        PROVE  WellFormed(stacks'[v]) /\ Owned(stacks'[v])
    BY ZenonT(60), <1>2, <2>1 DEF OpenInv, OpenScopesOwn, Created
  <2> QED BY ZenonT(60), <2>1 DEF OpenScopesOwn, Created, WellFormed, Owned, OnStack
<1> QED BY ZenonT(60), <1>2, <1>5, <1>6, <1>7, <1>8 DEF OpenInv
\* What is known of the stack a thread sees.
LEMMA VisibleOk ==
    ASSUME TypeOK, OpenInv, NEW t \in Thread
    PROVE  /\ visible[t] \in Stack /\ Visible(t) \in StackType /\ Visible(t).scopes # <<>>
           /\ WellFormed(Visible(t)) /\ Owned(Visible(t))
           /\ \A u \in OnStack(Visible(t)) : u \in Uuid /\ Seen(u)
           /\ Visible(t).root # None => Seen(Visible(t).root)
           /\ Top(Visible(t)).uuid \in Uuid /\ Seen(Top(Visible(t)).uuid)
<1>1. /\ visible[t] \in Stack /\ Visible(t) \in StackType /\ Visible(t).scopes # <<>>
      /\ stacks[visible[t]] = Visible(t)
  BY SMTT(60) DEF TypeOK, OpenInv, CallInv, Created, Visible
<1>2. WellFormed(Visible(t)) /\ Owned(Visible(t))
  BY SMTT(60), <1>1 DEF OpenInv, OpenScopesOwn, Created
<1>3. /\ \A u \in OnStack(Visible(t)) : Seen(u)
      /\ Visible(t).root # None => Seen(Visible(t).root)
  BY ZenonT(60), <1>1 DEF OpenInv, SeenInv
<1>4. OnStack(Visible(t)) \subseteq Uuid /\ Top(Visible(t)).uuid \in OnStack(Visible(t))
  BY <1>1, StackFields
<1> QED BY ZenonT(60), <1>1, <1>2, <1>3, <1>4

\* A step that only moves the call of t on.
LEMMA CallOpen ==
    ASSUME TypeOK, OpenInv, NEW t \in Thread, NEW c \in CallType,
           c.pc # "push-write", CallOk(c),
           c.parent # None => Seen(c.parent),
           c.pc \notin {"idle", "push"} /\ c.uuid # None => Seen(c.uuid),
           call' = [call EXCEPT ![t] = c],
           stacks' = stacks, visible' = visible, minted' = minted
    PROVE  OpenInv' /\ stacks' \in [Stack -> StackType] /\ call' \in [Thread -> CallType]
<1>1. /\ visible[t] \in Stack /\ Visible(t) \in StackType /\ Visible(t).scopes # <<>>
      /\ WellFormed(Visible(t)) /\ Owned(Visible(t))
      /\ \A u \in OnStack(Visible(t)) : Released(t, u)
      /\ Visible(t).root # None => Released(t, Visible(t).root)
  BY ZenonT(60), VisibleOk, SeenReleased
<1>2. stacks' = [stacks EXCEPT ![visible[t]] = Visible(t)]
  BY ZenonT(60), <1>1 DEF TypeOK, Visible
<1>3. /\ c.parent # None => Released(t, c.parent)
      /\ c.pc \notin {"idle", "push"} /\ c.uuid # None => Released(t, c.uuid)
  BY ZenonT(60), SeenReleased
<1> QED BY ZenonT(40), <1>1, <1>2, <1>3, StepOpen

\* A step after which the thread of the call is idle.
LEMMA IdleOk == Idle \in CallType /\ CallOk(Idle) /\ Idle.pc = "idle" /\ Idle.parent = None
BY DEF Idle, CallType, Pcs, CallOk

\* The snapshots hold registrations.
LEMMA LocalOk ==
    ASSUME NEW st \in StackType, NEW f
    PROVE  Local(st, f) \in SUBSET Entry
BY DEF Local, StackType
-----------------------------------------------------------------------------
\* push_scope, llm_call, a compaction mark: the parent was seen.
LEMMA ParentSeen ==
    ASSUME TypeOK, OpenInv, NEW t \in Thread, NEW implicit \in BOOLEAN, NEW p \in Uuid,
           ParentChoice(t, implicit, p)
    PROVE  Seen(p) /\ p # None
<1>1. p # None
  BY UuidAssumption
<1>2. CASE implicit
  BY ZenonT(60), <1>1, <1>2, VisibleOk DEF ParentChoice
<1>3. CASE ~implicit
  <2>1. p \in minted \ Unseen \/ p \in OwnStack
    BY ZenonT(60), <1>3 DEF ParentChoice, Known
  <2>2. CASE p \in OwnStack
    BY ZenonT(60), <1>1, <2>2, UuidAssumption DEF Seen
  <2>3. CASE p \in minted \ Unseen
    BY ZenonT(60), <1>1, <2>3 DEF Seen, Unseen
  <2> QED BY ZenonT(60), <2>1, <2>2, <2>3
<1> QED BY <1>2, <1>3

\* push_scope, an LLM start, a compaction or a capture begins: only the call moves.
LEMMA BeginOpen ==
    ASSUME TypeOK, OpenInv, NEW t \in Thread, NEW implicit \in BOOLEAN, NEW p \in Uuid,
           \/ \E agent \in Agents : Push(t, agent, implicit, p)
           \/ LlmStart(t, implicit, p)
           \/ Compaction(t, implicit, p)
           \/ Capture(t, p)
    PROVE  TypeOK' /\ OpenInv'
<1>1. Seen(p) /\ p # None
  <2>1. CASE ParentChoice(t, implicit, p)
    BY ZenonT(60), <2>1, ParentSeen
  <2>2. CASE Capture(t, p)
    <3>1. CASE p = Top(Visible(t)).uuid
      BY ZenonT(60), <3>1, VisibleOk, UuidAssumption
    <3>2. CASE p \in Managed
      BY ZenonT(60), <3>2, UuidAssumption DEF Seen
    <3> QED BY ZenonT(60), <2>2, <3>1, <3>2 DEF Capture
  <2> QED BY Zenon, <2>1, <2>2 DEF Push, LlmStart, Compaction
<1>2. PICK c \in CallType :
        /\ call' = [call EXCEPT ![t] = c]
        /\ c.pc \in {"push", "llm", "compaction", "capture"}
        /\ c.parent = p /\ c.uuid = None
  <2>1. ASSUME NEW agent \in Agents, Push(t, agent, implicit, p)
        PROVE  \E c \in CallType :
                 /\ call' = [call EXCEPT ![t] = c]
                 /\ c.pc \in {"push", "llm", "compaction", "capture"}
                 /\ c.parent = p /\ c.uuid = None
    <3> DEFINE c == [Idle EXCEPT !.pc = "push", !.agent = agent, !.implicit = implicit, !.parent = p]
    <3>1. agent \in BOOLEAN
      BY ZenonT(60), StackAssumption
    <3>2. c \in CallType /\ c.pc = "push" /\ c.parent = p /\ c.uuid = None
      BY ZenonT(40), <3>1, IdleOk DEF Idle, CallType, Pcs
    <3>3. call' = [call EXCEPT ![t] = c]
      BY Zenon, <2>1 DEF Push
    <3> HIDE DEF c
    <3> QED BY Zenon, <3>2, <3>3
  <2>2. ASSUME LlmStart(t, implicit, p)
        PROVE  \E c \in CallType :
                 /\ call' = [call EXCEPT ![t] = c]
                 /\ c.pc \in {"push", "llm", "compaction", "capture"}
                 /\ c.parent = p /\ c.uuid = None
    <3> DEFINE c == [Idle EXCEPT !.pc = "llm", !.parent = p]
    <3>1. c \in CallType /\ c.pc = "llm" /\ c.parent = p /\ c.uuid = None
      BY Zenon, IdleOk DEF Idle, CallType, Pcs
    <3>2. call' = [call EXCEPT ![t] = c]
      BY <2>2 DEF LlmStart
    <3> HIDE DEF c
    <3> QED BY Zenon, <3>1, <3>2
  <2>3. ASSUME Compaction(t, implicit, p)
        PROVE  \E c \in CallType :
                 /\ call' = [call EXCEPT ![t] = c]
                 /\ c.pc \in {"push", "llm", "compaction", "capture"}
                 /\ c.parent = p /\ c.uuid = None
    <3> DEFINE c == [Idle EXCEPT !.pc = "compaction", !.parent = p]
    <3>1. c \in CallType /\ c.pc = "compaction" /\ c.parent = p /\ c.uuid = None
      BY Zenon, IdleOk DEF Idle, CallType, Pcs
    <3>2. call' = [call EXCEPT ![t] = c]
      BY ZenonT(60), <2>3 DEF Compaction
    <3> HIDE DEF c
    <3> QED BY Zenon, <3>1, <3>2
  <2>4. ASSUME Capture(t, p)
        PROVE  \E c \in CallType :
                 /\ call' = [call EXCEPT ![t] = c]
                 /\ c.pc \in {"push", "llm", "compaction", "capture"}
                 /\ c.parent = p /\ c.uuid = None
    <3> DEFINE c == [Idle EXCEPT !.pc = "capture", !.parent = p]
    <3>1. c \in CallType /\ c.pc = "capture" /\ c.parent = p /\ c.uuid = None
      BY ZenonT(40), IdleOk DEF Idle, CallType, Pcs
    <3>2. call' = [call EXCEPT ![t] = c]
      BY <2>4 DEF Capture
    <3> HIDE DEF c
    <3> QED BY Zenon, <3>1, <3>2
  <2> QED BY ZenonT(60), <2>1, <2>2, <2>3, <2>4
<1>3. UNCHANGED <<stacks, visible, minted, starts, ends, rootOf, owed, charged>>
  BY Zenon DEF Push, LlmStart, Compaction, Capture
<1>4. c.pc # "push-write" /\ CallOk(c)
  BY <1>1, <1>2 DEF CallOk
<1>5. OpenInv' /\ stacks' \in [Stack -> StackType] /\ call' \in [Thread -> CallType]
  BY ZenonT(60), <1>1, <1>2, <1>3, <1>4, CallOpen
<1> QED BY <1>3, <1>5 DEF TypeOK

\* The steps of push_scope and pop_scope that only read the stack.
LEMMA ReadOpen ==
    ASSUME TypeOK, OpenInv, NEW t \in Thread,
           PushSanitizers(t) \/ PopSanitizers(t) \/ PopSnapshot(t)
    PROVE  TypeOK' /\ OpenInv'
<1>1. call[t] \in CallType /\ Visible(t) \in StackType /\ Visible(t).scopes # <<>>
  BY ZenonT(60), VisibleOk DEF TypeOK
<1>2. /\ Local(Visible(t), "sanitizer") \in SUBSET Entry
      /\ EventRoot(Visible(t)) \in Uuid \cup {None}
  BY ZenonT(60), <1>1, LocalOk, EventRootOk
<1>3. PICK c \in CallType :
        /\ call' = [call EXCEPT ![t] = c]
        /\ c.uuid = call[t].uuid /\ c.parent = call[t].parent
        /\ \/ c.pc = "push-queue" /\ call[t].pc = "push-sanitizers"
           \/ c.pc = "pop-snapshot" /\ call[t].pc = "pop-sanitizers"
           \/ c.pc = "pop-remove" /\ call[t].pc = "pop-snapshot"
  <2>1. ASSUME PushSanitizers(t)
        PROVE  \E c \in CallType :
                 /\ call' = [call EXCEPT ![t] = c]
                 /\ c.uuid = call[t].uuid /\ c.parent = call[t].parent
                 /\ \/ c.pc = "push-queue" /\ call[t].pc = "push-sanitizers"
                    \/ c.pc = "pop-snapshot" /\ call[t].pc = "pop-sanitizers"
                    \/ c.pc = "pop-remove" /\ call[t].pc = "pop-snapshot"
    <3> DEFINE c == [call[t] EXCEPT !.pc = "push-queue", !.sanitizers = Local(Visible(t), "sanitizer")]
    <3>1. c \in CallType /\ c.pc = "push-queue" /\ c.uuid = call[t].uuid /\ c.parent = call[t].parent
      BY Zenon, <1>1, <1>2 DEF CallType, Pcs
    <3>2. call' = [call EXCEPT ![t] = c]
      BY Zenon, <2>1 DEF PushSanitizers, TypeOK
    <3> HIDE DEF c
    <3> QED BY Zenon, <2>1, <3>1, <3>2 DEF PushSanitizers
  <2>2. ASSUME PopSanitizers(t)
        PROVE  \E c \in CallType :
                 /\ call' = [call EXCEPT ![t] = c]
                 /\ c.uuid = call[t].uuid /\ c.parent = call[t].parent
                 /\ \/ c.pc = "push-queue" /\ call[t].pc = "push-sanitizers"
                    \/ c.pc = "pop-snapshot" /\ call[t].pc = "pop-sanitizers"
                    \/ c.pc = "pop-remove" /\ call[t].pc = "pop-snapshot"
    <3> DEFINE c == [call[t] EXCEPT !.pc = "pop-snapshot", !.sanitizers = Local(Visible(t), "sanitizer")]
    <3>1. c \in CallType /\ c.pc = "pop-snapshot" /\ c.uuid = call[t].uuid /\ c.parent = call[t].parent
      BY Zenon, <1>1, <1>2 DEF CallType, Pcs
    <3>2. call' = [call EXCEPT ![t] = c]
      BY Zenon, <2>2 DEF PopSanitizers, TypeOK
    <3> HIDE DEF c
    <3> QED BY Zenon, <2>2, <3>1, <3>2 DEF PopSanitizers
  <2>3. ASSUME PopSnapshot(t)
        PROVE  \E c \in CallType :
                 /\ call' = [call EXCEPT ![t] = c]
                 /\ c.uuid = call[t].uuid /\ c.parent = call[t].parent
                 /\ \/ c.pc = "push-queue" /\ call[t].pc = "push-sanitizers"
                    \/ c.pc = "pop-snapshot" /\ call[t].pc = "pop-sanitizers"
                    \/ c.pc = "pop-remove" /\ call[t].pc = "pop-snapshot"
    <3> DEFINE c == [call[t] EXCEPT !.pc = "pop-remove", !.root = EventRoot(Visible(t))]
    <3>1. c \in CallType /\ c.pc = "pop-remove" /\ c.uuid = call[t].uuid /\ c.parent = call[t].parent
      BY Zenon, <1>1, <1>2 DEF CallType, Pcs
    <3>2. call' = [call EXCEPT ![t] = c]
      BY Zenon, <2>3 DEF PopSnapshot, TypeOK
    <3> HIDE DEF c
    <3> QED BY Zenon, <2>3, <3>1, <3>2 DEF PopSnapshot
  <2> QED BY ZenonT(60), <2>1, <2>2, <2>3
<1>4. UNCHANGED <<stacks, visible, minted, starts, ends, rootOf, owed, charged>>
  BY ZenonT(60) DEF PushSanitizers, PopSanitizers, PopSnapshot
<1>5. /\ c.pc # "push-write" /\ CallOk(c)
      /\ c.parent # None => Seen(c.parent)
      /\ c.pc \notin {"idle", "push"} /\ c.uuid # None => Seen(c.uuid)
  BY ZenonT(60), <1>3 DEF OpenInv, CallInv, CallOk, SeenInv
<1>6. OpenInv' /\ stacks' \in [Stack -> StackType] /\ call' \in [Thread -> CallType]
  BY ZenonT(40), <1>3, <1>4, <1>5, CallOpen
<1> QED BY ZenonT(60), <1>4, <1>6 DEF TypeOK

\* The steps that end a call and leave the stack alone.
LEMMA EndOpen ==
    ASSUME TypeOK, OpenInv, NEW t \in Thread,
           PushQueue(t) \/ PopQueue(t) \/ PopRefused(t)
    PROVE  TypeOK' /\ OpenInv'
<1>1. Visible(t) \in StackType /\ Visible(t).scopes # <<>>
  BY VisibleOk
<1>2. EventRoot(Visible(t)) \in Uuid \cup {None} /\ Queues(t) \in Nat
  BY ZenonT(60), <1>1, EventRootOk DEF Queues
<1>3. /\ call' = [call EXCEPT ![t] = Idle]
      /\ stacks' = stacks /\ visible' = visible /\ minted' = minted /\ charged' = charged
  BY ZenonT(60) DEF PushQueue, PopQueue, PopRefused
<1>4. OpenInv' /\ stacks' \in [Stack -> StackType] /\ call' \in [Thread -> CallType]
  BY ZenonT(60), <1>3, IdleOk, CallOpen
<1>5. starts' \in [Uuid -> Nat] /\ ends' \in [Uuid -> Nat]
  BY <1>2 DEF PushQueue, PopQueue, PopRefused, TypeOK
<1>6. rootOf' \in [Uuid -> Uuid \cup {None}]
  BY ZenonT(60), <1>2 DEF PushQueue, PopQueue, PopRefused, TypeOK
<1>7. owed' \in [Thread -> SUBSET Entry]
  BY ZenonT(60) DEF PushQueue, PopQueue, PopRefused, TypeOK
<1> QED BY ZenonT(60), <1>3, <1>4, <1>5, <1>6, <1>7 DEF TypeOK

\* pop_scope begins with the subscribers of the visible stack.
LEMMA PopOpen ==
    ASSUME TypeOK, OpenInv, NEW t \in Thread, NEW u \in Uuid, Pop(t, u)
    PROVE  TypeOK' /\ OpenInv'
<1> DEFINE c == [Idle EXCEPT !.pc = "pop-sanitizers", !.uuid = u,
                             !.subscribers = Local(Visible(t), "subscriber")]
<1>1. Visible(t) \in StackType /\ Seen(u) /\ u # None
  BY VisibleOk, UuidAssumption DEF Pop
<1>2. Local(Visible(t), "subscriber") \in SUBSET Entry
  BY <1>1, LocalOk
<1>3. c \in CallType /\ c.pc = "pop-sanitizers" /\ c.uuid = u /\ c.parent = None
  BY Zenon, <1>2, IdleOk DEF Idle, CallType, Pcs
<1>4. /\ call' = [call EXCEPT ![t] = c]
      /\ UNCHANGED <<stacks, visible, minted, starts, ends, rootOf, charged>>
      /\ owed' = [owed EXCEPT ![t] = {r \in Visible(t).registries : r.scope = u}]
  BY DEF Pop
<1> HIDE DEF c
<1>5. CallOk(c)
  BY <1>1, <1>3 DEF CallOk
<1>6. OpenInv' /\ stacks' \in [Stack -> StackType] /\ call' \in [Thread -> CallType]
  BY ZenonT(60), <1>1, <1>3, <1>4, <1>5, CallOpen
<1>7. owed' \in [Thread -> SUBSET Entry]
  <2>1. {r \in Visible(t).registries : r.scope = u} \in SUBSET Entry
    BY <1>1 DEF StackType
  <2> QED BY ZenonT(60), <1>4, <2>1 DEF TypeOK
<1> QED BY <1>4, <1>6, <1>7 DEF TypeOK

\* push_scope: the new uuid is on no stack and named by no call.
LEMMA CreateHandleOpen ==
    ASSUME TypeOK, OpenInv, NEW t \in Thread, NEW u \in Scope, CreateHandle(t, u)
    PROVE  TypeOK' /\ OpenInv'
<1> DEFINE c == [call[t] EXCEPT !.pc = "push-write", !.uuid = u,
                                !.onTop = Top(Visible(t)).uuid,
                                !.subscribers = Local(Visible(t), "subscriber")]
<1>1. /\ call[t] \in CallType /\ call[t].pc = "push" /\ u \notin minted
      /\ minted' = minted \cup {u}
      /\ UNCHANGED <<stacks, visible, starts, ends, rootOf, owed, charged>>
  BY ZenonT(60) DEF TypeOK, CreateHandle
<1>2. /\ Local(Visible(t), "subscriber") \in SUBSET Entry
      /\ Top(Visible(t)).uuid \in Uuid /\ u \in Uuid
  BY ZenonT(60), VisibleOk, LocalOk DEF Uuid
<1>3. c \in CallType /\ c.pc = "push-write" /\ c.uuid = u /\ c.parent = call[t].parent
  BY Zenon, <1>1, <1>2 DEF CallType, Pcs
<1>4. call' = [call EXCEPT ![t] = c]
  BY ZenonT(40) DEF CreateHandle, TypeOK
<1> HIDE DEF c
<1>5. /\ call' \in [Thread -> CallType]
      /\ call'[t] = c /\ \A v \in Thread \ {t} : call'[v] = call[v]
  BY <1>3, <1>4 DEF TypeOK
<1>6. TypeOK'
  BY ZenonT(60), <1>1, <1>5 DEF TypeOK
<1>7. MintedInv'
  BY SMTT(60), <1>1, <1>3, <1>5 DEF OpenInv, MintedInv
<1> DEFINE SeenNext(x) ==
             x \in Scope =>
                 /\ x \in minted'
                 /\ \A v \in Thread : call'[v].pc = "push-write" => call'[v].uuid # x
<1>8. \A x : Seen(x) => SeenNext(x)
  BY ZenonT(60), <1>1, <1>3, <1>5 DEF Seen
<1>9. SeenInv'
  <2> HIDE DEF SeenNext
  <2>1. ASSUME NEW v \in Stack PROVE \A x \in OnStack(stacks'[v]) : SeenNext(x)
    BY ZenonT(60), <1>1, <1>8 DEF OpenInv, SeenInv
  <2>2. ASSUME NEW v \in Stack, stacks'[v].root # None PROVE SeenNext(stacks'[v].root)
    BY ZenonT(60), <1>1, <1>8, <2>2 DEF OpenInv, SeenInv
  <2>3. ASSUME NEW v \in Thread, call'[v].parent # None PROVE SeenNext(call'[v].parent)
    BY ZenonT(60), <1>3, <1>5, <1>8, <2>3 DEF OpenInv, SeenInv
  <2>4. ASSUME NEW v \in Thread, call'[v].pc \notin {"idle", "push", "push-write"},
               call'[v].uuid # None
        PROVE  SeenNext(call'[v].uuid)
    BY ZenonT(60), <1>3, <1>5, <1>8, <2>4 DEF OpenInv, SeenInv
  <2> QED BY <2>1, <2>2, <2>3, <2>4, ZenonT(60) DEF SeenInv, OnStack, Seen, SeenNext
<1>10. CallInv'
  BY ZenonT(60), <1>1, <1>3, <1>5 DEF OpenInv, CallInv, CallOk, Created
<1>11. OpenScopesOwn'
  BY <1>1 DEF OpenInv, OpenScopesOwn, Created
<1> QED BY ZenonT(60), <1>6, <1>7, <1>9, <1>10, <1>11 DEF OpenInv

\* task_scope_push: the new scope is on top of the visible stack.
LEMMA PushWriteOpen ==
    ASSUME TypeOK, OpenInv, NEW t \in Thread, PushWrite(t)
    PROVE  TypeOK' /\ OpenInv'
<1> DEFINE h == [uuid |-> call[t].uuid, agent |-> call[t].agent]
           W == Pushed(Visible(t), h)
           c == [call[t] EXCEPT !.pc = "push-sanitizers"]
<1>1. /\ visible[t] \in Stack /\ Visible(t) \in StackType /\ Visible(t).scopes # <<>>
      /\ WellFormed(Visible(t)) /\ Owned(Visible(t))
      /\ \A u \in OnStack(Visible(t)) : Seen(u)
      /\ Visible(t).root # None => Seen(Visible(t).root)
  BY VisibleOk
<1>2. /\ call[t] \in CallType /\ call[t].pc = "push-write" /\ call[t].uuid \in Scope
      /\ ~Seen(call[t].uuid) /\ Released(t, call[t].uuid)
  BY ZenonT(60), SeenReleased DEF PushWrite, TypeOK, OpenInv, CallInv, CallOk, Seen
<1>3. h \in Handle /\ h.uuid = call[t].uuid
  BY ZenonT(60), <1>2 DEF Handle, Uuid, CallType
<1> HIDE DEF h
<1>4. /\ W \in StackType /\ W.scopes # <<>> /\ WellFormed(W) /\ Owned(W)
      /\ W.root = Visible(t).root /\ OnStack(W) = OnStack(Visible(t)) \cup {h.uuid}
  BY ZenonT(60), <1>1, <1>2, <1>3, PushedOk, PushedOpen
<1> HIDE DEF W
<1>5. /\ \A u \in OnStack(W) : Released(t, u)
      /\ W.root # None => Released(t, W.root)
  BY ZenonT(60), <1>1, <1>2, <1>3, <1>4, SeenReleased
<1>6. c \in CallType /\ c.pc = "push-sanitizers" /\ c.uuid = call[t].uuid /\ c.parent = call[t].parent
  BY <1>2 DEF CallType, Pcs
<1>7. call' = [call EXCEPT ![t] = c]
  BY DEF PushWrite, TypeOK
<1>8. stacks' = [stacks EXCEPT ![visible[t]] = W]
  BY DEF PushWrite, W, h, Visible
<1>9. /\ visible' = visible /\ minted' = minted
      /\ UNCHANGED <<starts, ends, rootOf, owed>>
      /\ charged' \in [Uuid -> Nat]
  BY ZenonT(40) DEF PushWrite, TypeOK
<1> HIDE DEF c
<1>10. /\ CallOk(c)
       /\ c.parent # None => Released(t, c.parent)
       /\ Released(t, c.uuid)
  BY ZenonT(60), <1>2, <1>6, SeenReleased DEF CallOk, OpenInv, SeenInv, CallInv
<1>11. OpenInv' /\ stacks' \in [Stack -> StackType] /\ call' \in [Thread -> CallType]
  BY ZenonT(60), <1>1, <1>4, <1>5, <1>6, <1>7, <1>8, <1>9, <1>10, StepOpen
<1> QED BY ZenonT(60), <1>9, <1>11 DEF TypeOK

\* task_scope_remove: the popped scope is off the visible stack.
LEMMA PopRemoveOpen ==
    ASSUME TypeOK, OpenInv, NEW t \in Thread, PopRemove(t)
    PROVE  TypeOK' /\ OpenInv'
<1> DEFINE W == Removed(Visible(t), call[t].uuid)
           c == [call[t] EXCEPT !.pc = "pop-queue"]
<1>1. /\ visible[t] \in Stack /\ Visible(t) \in StackType /\ Visible(t).scopes # <<>>
      /\ WellFormed(Visible(t)) /\ Owned(Visible(t))
      /\ \A u \in OnStack(Visible(t)) : Released(t, u)
      /\ Visible(t).root # None => Released(t, Visible(t).root)
  BY ZenonT(60), VisibleOk, SeenReleased
<1>2. /\ call[t] \in CallType /\ call[t].pc = "pop-remove"
      /\ Removable(Visible(t), call[t].uuid)
  BY DEF PopRemove, TypeOK
<1>3. /\ W \in StackType /\ W.scopes # <<>> /\ WellFormed(W) /\ Owned(W)
      /\ W.root = Visible(t).root /\ OnStack(W) \subseteq OnStack(Visible(t))
  BY Zenon, <1>1, <1>2, RemovedOk, RemovedOpen
<1> HIDE DEF W
<1>4. c \in CallType /\ c.pc = "pop-queue" /\ c.uuid = call[t].uuid /\ c.parent = call[t].parent
  BY ZenonT(60), <1>2 DEF CallType, Pcs
<1>5. call' = [call EXCEPT ![t] = c]
  BY DEF PopRemove, TypeOK
<1>6. stacks' = [stacks EXCEPT ![visible[t]] = W]
  BY DEF PopRemove, W, Visible
<1>7. /\ visible' = visible /\ minted' = minted
      /\ UNCHANGED <<starts, ends, rootOf, owed, charged>>
  BY ZenonT(60) DEF PopRemove
<1> HIDE DEF c
<1>8. /\ CallOk(c)
      /\ c.parent # None => Released(t, c.parent)
      /\ c.uuid # None => Released(t, c.uuid)
  BY ZenonT(60), <1>2, <1>4, SeenReleased DEF CallOk, OpenInv, CallInv, SeenInv
<1>9. OpenInv' /\ stacks' \in [Stack -> StackType] /\ call' \in [Thread -> CallType]
  BY Zenon, <1>1, <1>3, <1>4, <1>5, <1>6, <1>7, <1>8, StepOpen
<1> QED BY ZenonT(60), <1>7, <1>9 DEF TypeOK
\* A step that gives one stack a new value between calls, or ends the call.
LEMMA StackOpen ==
    ASSUME TypeOK, OpenInv, NEW t \in Thread, NEW s \in Stack, NEW W \in StackType,
           W.scopes # <<>>, WellFormed(W), Owned(W),
           \A u \in OnStack(W) : Seen(u),
           W.root # None => Seen(W.root),
           stacks' = [stacks EXCEPT ![s] = W],
           call' = [call EXCEPT ![t] = Idle],
           visible' = visible, minted' = minted
    PROVE  OpenInv' /\ stacks' \in [Stack -> StackType] /\ call' \in [Thread -> CallType]
<1>1. /\ \A u \in OnStack(W) : Released(t, u)
      /\ W.root # None => Released(t, W.root)
  BY SeenReleased
<1>2. Idle \in CallType /\ CallOk(Idle) /\ Idle.pc = "idle" /\ Idle.parent = None
  BY ZenonT(60), IdleOk
<1> QED BY ZenonT(60), <1>1, <1>2, StepOpen

\* scope_register and scope_deregister change registrations of open scopes only.
LEMMA RegistryOpen ==
    ASSUME TypeOK, OpenInv, NEW t \in Thread, NEW u \in Uuid, NEW f \in Field, NEW n \in Name,
           ScopeRegister(t, u, f, n) \/ ScopeDeregister(t, u, f, n)
    PROVE  TypeOK' /\ OpenInv'
<1> DEFINE r == [scope |-> u, field |-> f, name |-> n]
<1>1. /\ visible[t] \in Stack /\ Visible(t) \in StackType /\ Visible(t).scopes # <<>>
      /\ WellFormed(Visible(t)) /\ Owned(Visible(t))
      /\ \A x \in OnStack(Visible(t)) : Seen(x)
      /\ Visible(t).root # None => Seen(Visible(t).root)
  BY ZenonT(60), VisibleOk
<1>2. r \in Entry /\ r.scope = u /\ u \in OnStack(Visible(t))
  BY ZenonT(60) DEF Entry, ScopeRegister, ScopeDeregister
<1>3. PICK R \in SUBSET Entry :
        /\ stacks' = [stacks EXCEPT ![visible[t]] = [Visible(t) EXCEPT !.registries = R]]
        /\ R \subseteq Visible(t).registries \cup {r}
  <2>1. CASE ScopeRegister(t, u, f, n)
    <3> DEFINE R == Visible(t).registries \cup {r}
    <3>1. R \in SUBSET Entry
      BY ZenonT(60), <1>1, <1>2 DEF StackType
    <3>2. stacks' = [stacks EXCEPT ![visible[t]] = [Visible(t) EXCEPT !.registries = R]]
      BY ZenonT(60), <2>1 DEF ScopeRegister, Visible, TypeOK
    <3> QED BY ZenonT(40), <3>1, <3>2
  <2>2. CASE ScopeDeregister(t, u, f, n)
    <3> DEFINE R == Visible(t).registries \ {r}
    <3>1. R \in SUBSET Entry
      BY ZenonT(60), <1>1 DEF StackType
    <3>2. stacks' = [stacks EXCEPT ![visible[t]] = [Visible(t) EXCEPT !.registries = R]]
      BY ZenonT(60), <2>2 DEF ScopeDeregister, Visible, TypeOK
    <3> QED BY ZenonT(40), <3>1, <3>2
  <2> QED BY Zenon, <2>1, <2>2
<1> DEFINE W == [Visible(t) EXCEPT !.registries = R]
<1>4. /\ W \in StackType /\ W.scopes = Visible(t).scopes /\ W.registries = R
      /\ W.fresh = Visible(t).fresh /\ W.root = Visible(t).root
  BY ZenonT(60), <1>1 DEF StackType
<1> HIDE DEF W, r
<1>5. OnStack(W) = OnStack(Visible(t))
  BY ZenonT(60), <1>4 DEF OnStack
<1>6. WellFormed(W)
  BY ZenonT(60), <1>1, <1>4 DEF WellFormed
<1>7. Owned(W)
  <2>1. \A e \in R : e.scope \in OnStack(W)
    BY ZenonT(60), <1>1, <1>2, <1>3, <1>5 DEF Owned
  <2> QED BY ZenonT(60), <1>1, <1>4, <2>1 DEF Owned
<1>8. /\ call' = [call EXCEPT ![t] = Idle]
      /\ visible' = visible /\ minted' = minted
      /\ UNCHANGED <<starts, ends, rootOf, charged>>
      /\ owed' \in [Thread -> SUBSET Entry]
  <2>1. call' = call /\ call[t] = Idle
    BY DEF ScopeRegister, ScopeDeregister
  <2>2. call' = [call EXCEPT ![t] = Idle]
    BY <2>1 DEF TypeOK
  <2>3. owed' \in [Thread -> SUBSET Entry]
    BY DEF ScopeRegister, ScopeDeregister, TypeOK
  <2> QED BY ZenonT(60), <2>2, <2>3 DEF ScopeRegister, ScopeDeregister
<1>9. stacks' = [stacks EXCEPT ![visible[t]] = W]
  BY <1>3 DEF W
<1>10. OpenInv' /\ stacks' \in [Stack -> StackType] /\ call' \in [Thread -> CallType]
  BY ZenonT(60), <1>1, <1>4, <1>5, <1>6, <1>7, <1>8, <1>9, StackOpen
<1> QED BY ZenonT(60), <1>8, <1>10 DEF TypeOK

\* take_agent_freshness and the compaction mark change the fresh agents only.
LEMMA FreshnessOpen ==
    ASSUME TypeOK, OpenInv, NEW t \in Thread, TakeFreshness(t) \/ MarkFresh(t)
    PROVE  TypeOK' /\ OpenInv'
<1> DEFINE a == OwningAgent(Visible(t), call[t].parent)
<1>1. /\ visible[t] \in Stack /\ Visible(t) \in StackType /\ Visible(t).scopes # <<>>
      /\ WellFormed(Visible(t)) /\ Owned(Visible(t))
      /\ \A x \in OnStack(Visible(t)) : Seen(x)
      /\ Visible(t).root # None => Seen(Visible(t).root)
  BY ZenonT(60), VisibleOk
<1>2. \E i \in 1 .. Len(Visible(t).scopes) :
        Visible(t).scopes[i].uuid = a /\ Visible(t).scopes[i].agent
  BY ZenonT(60), <1>1, OwningAgentOk
<1>3. a \in Uuid
  BY Zenon, <1>1, <1>2, StackFields
<1>4. PICK F \in SUBSET Uuid :
        /\ stacks' = [stacks EXCEPT ![visible[t]] = [Visible(t) EXCEPT !.fresh = F]]
        /\ F \subseteq Visible(t).fresh \cup {a}
  <2> HIDE DEF a
  <2>1. CASE TakeFreshness(t)
    <3> DEFINE F == Visible(t).fresh \ {a}
    <3>1. F \in SUBSET Uuid
      BY ZenonT(60), <1>1 DEF StackType
    <3>2. stacks' = [stacks EXCEPT ![visible[t]] = [Visible(t) EXCEPT !.fresh = F]]
      BY ZenonT(60), <2>1 DEF TakeFreshness, Taken, Visible, a
    <3> QED BY ZenonT(60), <3>1, <3>2
  <2>2. CASE MarkFresh(t)
    <3> DEFINE F == Visible(t).fresh \cup {a}
    <3>1. F \in SUBSET Uuid
      BY ZenonT(60), <1>1, <1>3 DEF StackType
    <3>2. stacks' = [stacks EXCEPT ![visible[t]] = [Visible(t) EXCEPT !.fresh = F]]
      BY ZenonT(60), <2>2 DEF MarkFresh, Visible, TypeOK, a
    <3> QED BY Zenon, <3>1, <3>2
  <2> QED BY Zenon, <2>1, <2>2
<1> DEFINE W == [Visible(t) EXCEPT !.fresh = F]
<1>5. /\ W \in StackType /\ W.scopes = Visible(t).scopes /\ W.fresh = F
      /\ W.registries = Visible(t).registries /\ W.root = Visible(t).root
  BY ZenonT(60), <1>1 DEF StackType
<1>6. /\ call' = [call EXCEPT ![t] = Idle]
      /\ visible' = visible /\ minted' = minted
      /\ UNCHANGED <<starts, ends, rootOf, owed>>
      /\ charged' \in [Uuid -> Nat]
  BY DEF TakeFreshness, MarkFresh, TypeOK
<1> HIDE DEF W, a
<1>7. OnStack(W) = OnStack(Visible(t))
  BY ZenonT(60), <1>5 DEF OnStack
<1>8. WellFormed(W)
  BY ZenonT(60), <1>1, <1>5 DEF WellFormed
<1>9. Owned(W)
  <2>1. \A x \in F : \E i \in 1 .. Len(Visible(t).scopes) :
          Visible(t).scopes[i].uuid = x /\ Visible(t).scopes[i].agent
    BY ZenonT(60), <1>1, <1>2, <1>4 DEF Owned
  <2>2. \A e \in W.registries : e.scope \in OnStack(W)
    BY ZenonT(60), <1>1, <1>5, <1>7 DEF Owned
  <2> QED BY ZenonT(60), <1>5, <2>1, <2>2 DEF Owned
<1>10. stacks' = [stacks EXCEPT ![visible[t]] = W]
  BY ZenonT(60), <1>4 DEF W
<1>11. OpenInv' /\ stacks' \in [Stack -> StackType] /\ call' \in [Thread -> CallType]
  BY ZenonT(60), <1>1, <1>5, <1>6, <1>7, <1>8, <1>9, <1>10, StackOpen
<1> QED BY ZenonT(60), <1>6, <1>11 DEF TypeOK

\* A stack made from a propagated root and parent is well formed.
LEMMA ImportOpen ==
    ASSUME TypeOK, OpenInv, NEW t \in Thread, NEW s \in ForkStack, NEW rootless \in BOOLEAN,
           Import(t, s, rootless)
    PROVE  TypeOK' /\ OpenInv'
<1> DEFINE root == IF rootless THEN None ELSE EventRoot(Visible(t))
           p == call[t].parent
           W == FromPropagation(root, p)
<1>1. /\ Visible(t) \in StackType /\ Visible(t).scopes # <<>>
      /\ \A x \in OnStack(Visible(t)) : Seen(x)
      /\ Visible(t).root # None => Seen(Visible(t).root)
  BY ZenonT(60), VisibleOk
<1>2. /\ EventRoot(Visible(t)) \in Uuid \cup {None}
      /\ \/ EventRoot(Visible(t)) \in OnStack(Visible(t))
         \/ EventRoot(Visible(t)) = Visible(t).root
         \/ EventRoot(Visible(t)) = None
  BY ZenonT(60), <1>1, EventRootOk
<1>3. root \in Uuid \cup {None} /\ (root # None => Seen(root))
  BY ZenonT(60), <1>1, <1>2
<1>4. call[t].pc = "capture"
  BY ZenonT(60) DEF Import
<1>5. p \in Uuid /\ Seen(p)
  BY ZenonT(60), <1>4 DEF TypeOK, CallType, OpenInv, CallInv, CallOk, SeenInv
<1>6. /\ stacks' = [stacks EXCEPT ![s] = W] /\ call' = [call EXCEPT ![t] = Idle]
      /\ visible' = visible /\ minted' = minted /\ s \in Stack
      /\ UNCHANGED <<starts, ends, rootOf, owed, charged>>
  BY ZenonT(60) DEF Import, Stack
<1> HIDE DEF root, p
<1>7. /\ W \in StackType /\ W.scopes # <<>> /\ W.root = root
      /\ \A u \in OnStack(W) : u = p \/ (u = root /\ root # None)
      /\ WellFormed(W) /\ Owned(W)
  BY ZenonT(60), <1>3, <1>5, FromPropagationOpen
<1> HIDE DEF W
<1>8. /\ \A u \in OnStack(W) : Seen(u)
      /\ W.root # None => Seen(W.root)
  BY ZenonT(60), <1>3, <1>5, <1>7
<1>9. OpenInv' /\ stacks' \in [Stack -> StackType] /\ call' \in [Thread -> CallType]
  BY ZenonT(60), <1>6, <1>7, <1>8, StackOpen
<1> QED BY ZenonT(60), <1>6, <1>9 DEF TypeOK

\* An isolated copy of a stack is as well formed as the stack.
LEMMA IsolateOpen ==
    ASSUME TypeOK, OpenInv, NEW t \in Thread, NEW s \in CopyStack, Isolate(t, s)
    PROVE  TypeOK' /\ OpenInv'
<1>1. /\ Visible(t) \in StackType /\ Visible(t).scopes # <<>>
      /\ WellFormed(Visible(t)) /\ Owned(Visible(t))
      /\ \A x \in OnStack(Visible(t)) : Seen(x)
      /\ Visible(t).root # None => Seen(Visible(t).root)
  BY VisibleOk
<1>2. /\ stacks' = [stacks EXCEPT ![s] = Visible(t)] /\ s \in Stack
      /\ visible' = visible /\ minted' = minted /\ call' = call /\ call[t] = Idle
      /\ UNCHANGED <<starts, ends, rootOf, owed, charged>>
  BY DEF Isolate, Stack
<1>3. call' = [call EXCEPT ![t] = Idle]
  BY <1>2 DEF TypeOK
<1>4. OpenInv' /\ stacks' \in [Stack -> StackType] /\ call' \in [Thread -> CallType]
  BY ZenonT(40), <1>1, <1>2, <1>3, StackOpen
<1> QED BY ZenonT(60), <1>2, <1>4 DEF TypeOK

\* A thread can be bound to any stack that was created.
LEMMA BindOpen ==
    ASSUME TypeOK, OpenInv, NEW t \in Thread, NEW s \in Stack, Bind(t, s)
    PROVE  TypeOK' /\ OpenInv'
<1>1. /\ visible' = [visible EXCEPT ![t] = s] /\ stacks[s].scopes # <<>>
      /\ stacks' = stacks /\ call' = call /\ minted' = minted
      /\ UNCHANGED <<starts, ends, rootOf, owed, charged>>
  BY ZenonT(60) DEF Bind, Created
<1>2. TypeOK'
  BY ZenonT(60), <1>1 DEF TypeOK
<1>3. MintedInv' /\ OpenScopesOwn'
  BY ZenonT(60), <1>1 DEF OpenInv, MintedInv, OpenScopesOwn, Created
<1>4. SeenInv'
  BY ZenonT(60), <1>1 DEF OpenInv, SeenInv, Seen
<1>5. CallInv'
  BY Zenon, <1>1 DEF OpenInv, CallInv, Created, TypeOK
<1> QED BY ZenonT(60), <1>2, <1>3, <1>4, <1>5 DEF OpenInv
-----------------------------------------------------------------------------
\* The stacks start with their roots, and no call runs.
LEMMA InitOpen == Init => TypeOK /\ OpenInv
<1> SUFFICES ASSUME Init PROVE TypeOK /\ OpenInv
  OBVIOUS
<1>1. \A t \in Thread : call[t] = Idle /\ visible[t] \in OwnStack
  BY Zenon, StackAssumption DEF Init
<1>2. Idle \in CallType /\ CallOk(Idle) /\ Idle.pc = "idle" /\ Idle.parent = None
  BY ZenonT(60), IdleOk
<1>3. \A s \in OwnStack : stacks[s] = New(s)
  BY DEF Init, Stack
<1>4. \A s \in Stack \ OwnStack : stacks[s] = NoStack
  BY ZenonT(60) DEF Init
<1>5. NoStack \in StackType /\ NoStack.scopes = <<>> /\ NoStack.root = None
  <2>1. <<>> \in Seq(Handle) /\ {} \in SUBSET Entry /\ {} \in SUBSET Uuid
    BY SMTT(60)
  <2> QED
    BY ZenonT(60), <2>1 DEF NoStack, StackType
<1>6. \A s \in Stack : stacks[s] \in StackType
  BY ZenonT(60), <1>3, <1>4, <1>5, NewOpen
<1>7. TypeOK
  <2>1. stacks \in [Stack -> StackType]
    <3>1. stacks = [s \in Stack |-> stacks[s]]
      BY ZenonT(60) DEF Init
    <3> QED BY <1>6, <3>1
  <2>2. visible \in [Thread -> Stack]
    BY StackAssumption DEF Init, Stack
  <2>3. call \in [Thread -> CallType]
    BY <1>2 DEF Init
  <2> QED BY ZenonT(60), <2>1, <2>2, <2>3 DEF TypeOK, Init
<1>8. MintedInv
  BY ZenonT(60), <1>1, <1>2 DEF MintedInv
<1>9. SeenInv
  <2>1. \A s \in OwnStack : Seen(s)
    BY UuidAssumption DEF Seen
  <2>2. ASSUME NEW s \in Stack PROVE \A u \in OnStack(stacks[s]) : Seen(u)
    <3>1. CASE s \in OwnStack
      BY ZenonT(60), <1>3, <2>1, <3>1, NewOpen
    <3>2. CASE s \notin OwnStack
      <4>1. stacks[s].scopes = <<>>
        BY SMTT(60), <1>4, <1>5, <3>2
      <4>2. Len(<<>>) = 0
        OBVIOUS
      <4> QED BY SMTT(60), <4>1, <4>2 DEF OnStack
    <3> QED BY SMTT(60), <3>1, <3>2
  <2>3. \A s \in Stack : stacks[s].root = None
    BY ZenonT(60), <1>3, <1>4, <1>5, NewOpen
  <2> QED BY ZenonT(60), <1>1, <1>2, <2>2, <2>3 DEF SeenInv
<1>10. CallInv
  BY ZenonT(60), <1>1, <1>2, <1>3, NewOpen DEF CallInv, Created
<1>11. OpenScopesOwn
  BY ZenonT(60), <1>3, <1>4, <1>5, NewOpen DEF OpenScopesOwn, Created
<1> QED BY ZenonT(60), <1>7, <1>8, <1>9, <1>10, <1>11 DEF OpenInv

\* Every step keeps the stacks well formed.
LEMMA NextOpen == TypeOK /\ OpenInv /\ [Next]_vars => TypeOK' /\ OpenInv'
<1> SUFFICES ASSUME TypeOK, OpenInv, [Next]_vars PROVE TypeOK' /\ OpenInv'
  OBVIOUS
<1>1. CASE UNCHANGED vars
  <2>1. /\ stacks' = stacks /\ visible' = visible /\ call' = call /\ minted' = minted
        /\ starts' = starts /\ ends' = ends /\ rootOf' = rootOf /\ owed' = owed
        /\ charged' = charged
    BY <1>1 DEF vars
  <2>2. TypeOK'
    BY ZenonT(60), <2>1 DEF TypeOK
  <2>3. MintedInv' /\ OpenScopesOwn' /\ CallInv'
    BY ZenonT(60), <2>1 DEF OpenInv, MintedInv, OpenScopesOwn, CallInv, Created
  <2>4. SeenInv'
    BY ZenonT(60), <2>1 DEF OpenInv, SeenInv, Seen
  <2> QED BY ZenonT(60), <2>2, <2>3, <2>4 DEF OpenInv
<1>2. CASE Next
  <2>1. PICK t \in Thread : Step(t)
    BY SMTT(60), <1>2 DEF Next
  <2>2. CASE \E agent \in Agents, implicit \in BOOLEAN, p \in Uuid : Push(t, agent, implicit, p)
    BY <2>2, BeginOpen
  <2>3. CASE \E implicit \in BOOLEAN, p \in Uuid :
               LlmStart(t, implicit, p) \/ Compaction(t, implicit, p) \/ Capture(t, p)
    BY <2>3, BeginOpen
  <2>4. CASE \E u \in Scope : CreateHandle(t, u)
    BY ZenonT(60), <2>4, CreateHandleOpen
  <2>5. CASE PushWrite(t)
    BY <2>5, PushWriteOpen
  <2>6. CASE PushSanitizers(t) \/ PopSanitizers(t) \/ PopSnapshot(t)
    BY ZenonT(60), <2>6, ReadOpen
  <2>7. CASE PushQueue(t) \/ PopQueue(t) \/ PopRefused(t)
    BY ZenonT(60), <2>7, EndOpen
  <2>8. CASE \E u \in Uuid : Pop(t, u)
    BY <2>8, PopOpen
  <2>9. CASE PopRemove(t)
    BY <2>9, PopRemoveOpen
  <2>10. CASE \E u \in Uuid, f \in Field, n \in Name :
                ScopeRegister(t, u, f, n) \/ ScopeDeregister(t, u, f, n)
    BY <2>10, RegistryOpen
  <2>11. CASE TakeFreshness(t) \/ MarkFresh(t)
    BY ZenonT(60), <2>11, FreshnessOpen
  <2>12. CASE \E s \in ForkStack, rootless \in BOOLEAN : Import(t, s, rootless)
    BY ZenonT(60), <2>12, ImportOpen
  <2>13. CASE \E s \in CopyStack : Isolate(t, s)
    BY <2>13, IsolateOpen
  <2>14. CASE \E s \in Stack : Bind(t, s)
    BY <2>14, BindOpen
  <2>15. TRUE \in BOOLEAN
    OBVIOUS
  <2> QED BY ZenonT(60), <2>1, <2>2, <2>3, <2>4, <2>5, <2>6, <2>7, <2>8, <2>9, <2>10, <2>11, <2>12,
             <2>13, <2>14, <2>15, Zenon DEF Step
<1> QED BY <1>1, <1>2

\* The stacks are well formed throughout.
LEMMA OpenAlways == Spec => [](TypeOK /\ OpenInv)
BY InitOpen, NextOpen, PTL DEF Spec

\* Type correctness: whatever threads share a stack, fork it or copy it, the
\* stacks and the calls of push_scope, pop_scope and the others keep their type.
THEOREM TypeCorrect == Spec => []TypeOK
BY OpenAlways, PTL

\* Only an open scope owns middleware and freshness, no scope is open twice, and
\* owning_agent_uuid always finds an agent: for any number of threads, scopes,
\* forks and copies.
THEOREM ScopesOwn == Spec => []OpenScopesOwn
<1>1. TypeOK /\ OpenInv => OpenScopesOwn
  BY ZenonT(60) DEF OpenInv
<1> QED BY <1>1, OpenAlways, PTL
-----------------------------------------------------------------------------
\* A step of any thread opens one scope, closes the last one, or neither.
LEMMA NextOrder ==
    ASSUME TypeOK, OpenInv, Next, NEW s \in Stack, stacks[s].scopes # <<>>
    PROVE  StackOrder(s)
<1>1. stacks[s] \in StackType
  BY ZenonT(60) DEF TypeOK
<1>2. Len(stacks[s].scopes) \in Nat /\ Len(stacks[s].scopes) >= 1
  BY ZenonT(60), <1>1, StackFields
<1>3. CASE stacks'[s].scopes = stacks[s].scopes
  BY <1>2, <1>3 DEF StackOrder
<1>4. PICK t \in Thread : Step(t)
  BY DEF Next
<1>5. CASE stacks' = stacks
  BY <1>3, <1>5
<1>6. CASE PushWrite(t)
  <2> DEFINE h == [uuid |-> call[t].uuid, agent |-> call[t].agent]
  <2>1. h \in Handle
    BY ZenonT(60), <1>6 DEF PushWrite, TypeOK, OpenInv, CallInv, CallOk, CallType, Handle, Uuid
  <2>2. stacks' = [stacks EXCEPT ![visible[t]] = Pushed(stacks[visible[t]], h)]
    BY <1>6 DEF PushWrite
  <2> HIDE DEF h
  <2>3. CASE s = visible[t]
    <3>1. stacks'[s] = Pushed(stacks[s], h)
      BY ZenonT(60), <2>2, <2>3 DEF TypeOK
    <3> DEFINE W == Pushed(stacks[s], h)
    <3>2. /\ Len(W.scopes) = Len(stacks[s].scopes) + 1
          /\ \A i \in 1 .. Len(stacks[s].scopes) : W.scopes[i] = stacks[s].scopes[i]
      BY ZenonT(60), <1>1, <2>1, PushedOk
    <3> HIDE DEF W
    <3>3. stacks'[s] = W
      BY ZenonT(60), <3>1 DEF W
    <3> QED BY SMTT(60), <1>2, <3>2, <3>3 DEF StackOrder
  <2>4. CASE s # visible[t]
    BY ZenonT(60), <1>3, <2>2, <2>4 DEF TypeOK
  <2> QED BY ZenonT(60), <2>3, <2>4
<1>7. CASE PopRemove(t)
  <2>1. /\ stacks' = [stacks EXCEPT ![visible[t]] = Removed(stacks[visible[t]], call[t].uuid)]
        /\ Removable(stacks[visible[t]], call[t].uuid)
    BY <1>7 DEF PopRemove, Visible
  <2>2. CASE s = visible[t]
    <3>1. stacks'[s] = Removed(stacks[s], call[t].uuid) /\ Removable(stacks[s], call[t].uuid)
      BY ZenonT(60), <2>1, <2>2 DEF TypeOK
    <3>2. /\ Len(stacks[s].scopes) > 1
          /\ Len(stacks'[s].scopes) = Len(stacks[s].scopes) - 1
          /\ \A i \in 1 .. Len(stacks[s].scopes) - 1 : stacks'[s].scopes[i] = stacks[s].scopes[i]
      BY SMTT(60), <1>1, <3>1, RemovedOk
    <3> DEFINE old == stacks[s].scopes  new == stacks'[s].scopes
    <3>3. /\ Len(old) \in Nat /\ Len(old) > 1 /\ Len(new) = Len(old) - 1
          /\ \A i \in 1 .. Len(old) - 1 : new[i] = old[i]
      BY <1>2, <3>2
    <3> HIDE DEF old, new
    <3>4. /\ Len(new) >= 1 /\ Len(new) <= Len(old) + 1 /\ Len(old) <= Len(new) + 1
          /\ \A i \in 1 .. Len(new) : i <= Len(old) => new[i] = old[i]
      BY SMTT(60), <3>3
    <3> QED BY ZenonT(60), <3>4 DEF StackOrder, old, new
  <2>3. CASE s # visible[t]
    BY ZenonT(60), <1>3, <2>1, <2>3 DEF TypeOK
  <2> QED BY SMTT(60), <2>2, <2>3
<1>8. CASE \E u \in Uuid, f \in Field, n \in Name :
             ScopeRegister(t, u, f, n) \/ ScopeDeregister(t, u, f, n)
  <2>1. stacks'[s].scopes = stacks[s].scopes
    <3>1. PICK R : stacks' = [stacks EXCEPT ![visible[t]].registries = R]
      BY Zenon, <1>8 DEF ScopeRegister, ScopeDeregister
    <3> QED BY <1>1, <3>1 DEF TypeOK, StackType
  <2> QED BY ZenonT(60), <1>3, <2>1
<1>9. CASE TakeFreshness(t) \/ MarkFresh(t)
  <2>1. stacks'[s].scopes = stacks[s].scopes
    <3>1. PICK F : stacks' = [stacks EXCEPT ![visible[t]].fresh = F]
      BY ZenonT(40), <1>9 DEF TakeFreshness, MarkFresh, Taken
    <3> QED BY ZenonT(60), <1>1, <3>1 DEF TypeOK, StackType
  <2> QED BY <1>3, <2>1
<1>10. CASE \E f \in ForkStack, rootless \in BOOLEAN : Import(t, f, rootless)
  <2>1. stacks'[s].scopes = stacks[s].scopes
    BY ZenonT(60), <1>10 DEF Import, TypeOK, Created
  <2> QED BY <1>3, <2>1
<1>11. CASE \E c \in CopyStack : Isolate(t, c)
  <2>1. stacks'[s].scopes = stacks[s].scopes
    BY <1>11 DEF Isolate, TypeOK, Created
  <2> QED BY <1>3, <2>1
<1>12. \/ stacks' = stacks
       \/ PushWrite(t)
       \/ PopRemove(t)
       \/ \E u \in Uuid, f \in Field, n \in Name :
             ScopeRegister(t, u, f, n) \/ ScopeDeregister(t, u, f, n)
       \/ TakeFreshness(t) \/ MarkFresh(t)
       \/ \E f \in ForkStack, rootless \in BOOLEAN : Import(t, f, rootless)
       \/ \E c \in CopyStack : Isolate(t, c)
  BY <1>4, Zenon DEF Step, Push, CreateHandle, PushSanitizers, PushQueue, Pop, PopSanitizers,
         PopSnapshot, PopRefused, PopQueue, LlmStart, Compaction, Capture, Bind
<1> QED BY ZenonT(60), <1>5, <1>6, <1>7, <1>8, <1>9, <1>10, <1>11, <1>12

\* The scopes of a stack change at the top only, and the root stays: for any
\* number of threads that share it.
THEOREM Discipline == Spec => StackDiscipline
<1>1. TypeOK /\ OpenInv /\ [Next]_vars => [\A s \in Stack : Created(s) => StackOrder(s)]_vars
  BY NextOrder DEF Created
<1> QED BY <1>1, OpenAlways, PTL DEF Spec, StackDiscipline

-----------------------------------------------------------------------------
\* What another thread does to the stack does not cost the pop of v anything.
LEMMA CarryOther ==
    ASSUME NEW v \in Thread, CarryOk(v), call'[v] = call[v], owed'[v] \subseteq owed[v],
           call[v].uuid \in OnStack(Visible(v)') =>
              /\ call[v].uuid \in OnStack(Visible(v))
              /\ \A r \in owed'[v] : r.scope = call[v].uuid /\ r \in Visible(v).registries
                                      => r \in Visible(v)'.registries
    PROVE  CarryOk(v)'
<1>1. ASSUME NEW F, Held(v, F)
      PROVE  \A r \in owed'[v] :
               /\ r.scope = call[v].uuid
               /\ \/ r \in call[v].subscribers \cup call[v].sanitizers
                  \/ r.field \in F /\ r \in Visible(v).registries
  BY ZenonT(60), <1>1 DEF Held
<1>2. Held(v, {}) => Held(v, {})'
  BY SMTT(60), <1>1 DEF Held
<1>3. Held(v, {"sanitizer"}) =>
        Held(v, {"sanitizer"})' \/ call[v].uuid \notin OnStack(Visible(v)')
  BY SMTT(60), <1>1 DEF Held
<1>4. call[v].uuid \notin OnStack(Visible(v)) => call[v].uuid \notin OnStack(Visible(v)')
  BY SMTT(60)
<1> QED BY ZenonT(60), <1>2, <1>3, <1>4 DEF CarryOk
\* A call that is not about to close a scope owes nothing.
LEMMA CarryIdle ==
    ASSUME NEW v \in Thread,
           call'[v].pc \notin {"pop-sanitizers", "pop-snapshot", "pop-remove", "pop-queue"}
    PROVE  CarryOk(v)'
BY ZenonT(60) DEF CarryOk

\* A pop begins with the subscribers that are registered.
LEMMA CarryPop ==
    ASSUME TypeOK, OpenInv, NEW t \in Thread, NEW u \in Uuid, Pop(t, u)
    PROVE  CarryOk(t)'
<1>1. Visible(t) \in StackType /\ Visible(t).scopes # <<>>
  BY ZenonT(60), VisibleOk
<1>2. /\ call'[t].pc = "pop-sanitizers" /\ call'[t].uuid = u /\ call'[t].sanitizers = {}
      /\ call'[t].subscribers = Local(Visible(t), "subscriber")
      /\ owed'[t] = {r \in Visible(t).registries : r.scope = u}
      /\ stacks' = stacks /\ visible' = visible
  BY DEF Pop, TypeOK, Idle
<1>3. u \in OnStack(Visible(t))
  BY ZenonT(60), <1>1, StackFields DEF Pop
<1>4. Visible(t)' = Visible(t)
  BY <1>2 DEF Visible
<1>5. ASSUME NEW r \in owed'[t]
      PROVE  /\ r.scope = u
             /\ r \in call'[t].subscribers \/ (r.field = "sanitizer" /\ r \in Visible(t)'.registries)
  <2>1. r \in Visible(t).registries /\ r.scope = u
    BY ZenonT(60), <1>2
  <2>2. r.field \in {"sanitizer", "subscriber"}
    BY <1>1, <2>1 DEF StackType, Entry, Field
  <2> QED BY ZenonT(60), <1>2, <1>3, <1>4, <2>1, <2>2 DEF Local
<1> QED BY ZenonT(60), <1>2, <1>5 DEF CarryOk, Held

\* A pop reads the sanitizers while its scope is still open.
LEMMA CarryPopSanitizers ==
    ASSUME TypeOK, OpenInv, NEW t \in Thread, CarryOk(t), PopSanitizers(t)
    PROVE  CarryOk(t)'
<1>1. /\ call[t].pc = "pop-sanitizers" /\ call'[t].pc = "pop-snapshot"
      /\ call'[t].uuid = call[t].uuid /\ call'[t].subscribers = call[t].subscribers
      /\ call'[t].sanitizers = Local(Visible(t), "sanitizer")
      /\ owed' = owed /\ stacks' = stacks /\ visible' = visible
  BY DEF PopSanitizers, TypeOK, CallType
<1>2. Visible(t)' = Visible(t)
  BY <1>1 DEF Visible
<1>3. CASE call[t].uuid \notin OnStack(Visible(t))
  BY Zenon, <1>1, <1>2, <1>3 DEF CarryOk
<1>4. CASE call[t].uuid \in OnStack(Visible(t))
  <2>1. call[t].sanitizers = {} /\ Held(t, {"sanitizer"})
    BY ZenonT(60), <1>1, <1>4 DEF CarryOk
  <2>2. ASSUME NEW r \in owed[t]
        PROVE  r.scope = call[t].uuid /\ r \in call'[t].subscribers \cup call'[t].sanitizers
    BY ZenonT(60), <1>1, <1>4, <2>1 DEF Held, Local
  <2> QED BY Zenon, <1>1, <2>2 DEF CarryOk, Held
<1> QED BY <1>3, <1>4

\* What a pop has read stays with it until its event is queued.
LEMMA CarryPopRest ==
    ASSUME TypeOK, OpenInv, NEW t \in Thread, CarryOk(t), PopSnapshot(t) \/ PopRemove(t)
    PROVE  CarryOk(t)'
<1>1. /\ call'[t].uuid = call[t].uuid /\ call'[t].subscribers = call[t].subscribers
      /\ call'[t].sanitizers = call[t].sanitizers
      /\ owed' = owed /\ visible' = visible
  BY SMTT(60) DEF PopSnapshot, PopRemove, TypeOK, CallType
<1>2. Held(t, {}) => Held(t, {})'
  BY ZenonT(60), <1>1 DEF Held
<1>3. CASE PopSnapshot(t)
  <2>1. call[t].pc = "pop-snapshot" /\ call'[t].pc = "pop-remove" /\ stacks' = stacks
    BY ZenonT(60), <1>3 DEF PopSnapshot, TypeOK, CallType
  <2>2. Visible(t)' = Visible(t)
    BY ZenonT(60), <1>1, <2>1 DEF Visible
  <2> QED BY ZenonT(60), <1>1, <1>2, <2>1, <2>2 DEF CarryOk
<1>4. CASE PopRemove(t)
  <2>1. /\ call[t].pc = "pop-remove" /\ call'[t].pc = "pop-queue"
        /\ Top(Visible(t)).uuid = call[t].uuid
    BY ZenonT(60), <1>4 DEF PopRemove, TypeOK, CallType, Removable
  <2>2. call[t].uuid \in OnStack(Visible(t))
    BY ZenonT(60), <2>1, VisibleOk, StackFields
  <2> QED BY ZenonT(60), <1>1, <1>2, <2>1, <2>2 DEF CarryOk
<1> QED BY <1>3, <1>4

\* A step of one thread leaves the call and the stack of another alone.
LEMMA OthersKeep ==
    ASSUME TypeOK, NEW t \in Thread, Step(t), NEW v \in Thread, v # t
    PROVE  call'[v] = call[v] /\ visible'[v] = visible[v]
<1>1. \/ call' = call
      \/ \E c : call' = [call EXCEPT ![t] = c]
      \/ PushWrite(t) \/ PushSanitizers(t) \/ PopSanitizers(t) \/ PopSnapshot(t)
      \/ PopRemove(t) \/ \E u \in Scope : CreateHandle(t, u)
  BY Zenon DEF Step, Push, PushQueue, Pop, PopRefused, PopQueue, ScopeRegister,
         ScopeDeregister, LlmStart, TakeFreshness, Compaction, MarkFresh, Capture,
         Import, Isolate, Bind
<1>2. call'[v] = call[v]
  BY Zenon, <1>1 DEF TypeOK, PushWrite, PushSanitizers, PopSanitizers, PopSnapshot, PopRemove,
              CreateHandle
<1>3. visible' = visible \/ \E s \in Stack : Bind(t, s)
  BY Zenon DEF Step, Push, CreateHandle, PushWrite, PushSanitizers, PushQueue, Pop,
         PopSanitizers, PopSnapshot, PopRemove, PopRefused, PopQueue, ScopeRegister,
         ScopeDeregister, LlmStart, TakeFreshness, Compaction, MarkFresh, Capture,
         Import, Isolate
<1>4. visible'[v] = visible[v]
  BY ZenonT(60), <1>3 DEF Bind, TypeOK
<1> QED BY <1>2, <1>4

\* A step of another thread takes nothing from the registrations a pop is to carry.
LEMMA CarryOthers ==
    ASSUME TypeOK, OpenInv, NEW t \in Thread, Step(t), NEW v \in Thread, v # t, CarryOk(v)
    PROVE  CarryOk(v)'
<1>1. call'[v] = call[v] /\ visible'[v] = visible[v]
  BY Zenon, OthersKeep
<1>2. owed'[v] \subseteq owed[v]
  <2>1. \/ owed' = owed
        \/ \E S : owed' = [owed EXCEPT ![t] = S]
        \/ \E u \in Uuid, f \in Field, n \in Name : ScopeDeregister(t, u, f, n)
    BY ZenonT(60) DEF Step, Push, CreateHandle, PushWrite, PushSanitizers, PushQueue, Pop,
           PopSanitizers, PopSnapshot, PopRemove, PopRefused, PopQueue, ScopeRegister,
           LlmStart, TakeFreshness, Compaction, MarkFresh, Capture, Import, Isolate, Bind
  <2>2. owed \in [Thread -> SUBSET Entry]
    BY DEF TypeOK
  <2>3. CASE \E u \in Uuid, f \in Field, n \in Name : ScopeDeregister(t, u, f, n)
    <3>1. PICK e : owed' = [w \in Thread |->
                      IF visible[w] = visible[t] THEN owed[w] \ {e} ELSE owed[w]]
      BY <2>3, Zenon DEF ScopeDeregister
    <3> QED BY <3>1
  <2> QED BY <2>1, <2>2, <2>3
<1>3. CASE call[v].pc \notin {"pop-sanitizers", "pop-snapshot", "pop-remove", "pop-queue"}
  BY <1>1, <1>3, CarryIdle
<1>4. CASE call[v].pc \in {"pop-sanitizers", "pop-snapshot", "pop-remove", "pop-queue"}
  <2> SUFFICES call[v].uuid \in OnStack(Visible(v)') =>
                 /\ call[v].uuid \in OnStack(Visible(v))
                 /\ \A r \in owed'[v] : r.scope = call[v].uuid /\ r \in Visible(v).registries
                                         => r \in Visible(v)'.registries
    BY ZenonT(60), <1>1, <1>2, CarryOther
  <2>1. call[v].uuid # None /\ Seen(call[v].uuid)
    BY ZenonT(60), <1>4 DEF OpenInv, CallInv, CallOk, SeenInv
  <2>2. /\ visible[v] \in Stack /\ stacks[visible[v]].scopes # <<>>
        /\ Visible(v) = stacks[visible[v]] /\ Visible(v)' = stacks'[visible[v]]
        /\ Visible(v) \in StackType /\ Visible(v).scopes # <<>>
    BY <1>1, VisibleOk DEF Visible
  <2>3. CASE stacks'[visible[v]] = stacks[visible[v]]
    BY Zenon, <2>2, <2>3
  <2>4. CASE PushWrite(t)
    <3> DEFINE h == [uuid |-> call[t].uuid, agent |-> call[t].agent]
    <3>1. h \in Handle /\ h.uuid = call[t].uuid
      BY ZenonT(60), <2>4 DEF PushWrite, TypeOK, OpenInv, CallInv, CallOk, CallType, Handle, Uuid
    <3>2. stacks' = [stacks EXCEPT ![visible[t]] = Pushed(stacks[visible[t]], h)]
      BY <2>4 DEF PushWrite
    <3> HIDE DEF h
    <3>3. call[v].uuid # call[t].uuid
      BY ZenonT(60), <2>1, <2>4 DEF PushWrite, Seen, OpenInv, CallInv, CallOk
    <3>4. CASE visible[v] = visible[t]
      <4>1. stacks'[visible[v]] = Pushed(stacks[visible[v]], h)
        BY ZenonT(60), <2>2, <3>2, <3>4 DEF TypeOK
      <4> DEFINE W == Pushed(Visible(v), h)
      <4>2. OnStack(W) = OnStack(Visible(v)) \cup {h.uuid}
        BY ZenonT(60), <2>2, <3>1, PushedOpen
      <4>3. W.registries = Visible(v).registries
        BY ZenonT(40), <2>2, <3>1, PushedOk
      <4> HIDE DEF W
      <4>4. Visible(v)' = W
        BY <2>2, <4>1 DEF W
      <4> QED BY ZenonT(60), <3>1, <3>3, <4>2, <4>3, <4>4
    <3>5. CASE visible[v] # visible[t]
      BY ZenonT(60), <2>2, <2>3, <3>2, <3>5 DEF TypeOK
    <3> QED BY ZenonT(60), <3>4, <3>5
  <2>5. CASE PopRemove(t)
    <3>1. /\ stacks' = [stacks EXCEPT ![visible[t]] = Removed(stacks[visible[t]], call[t].uuid)]
          /\ Removable(stacks[visible[t]], call[t].uuid)
      BY ZenonT(60), <2>5 DEF PopRemove, Visible
    <3>2. CASE visible[v] = visible[t]
      <4> DEFINE W == Removed(Visible(v), call[t].uuid)
      <4>1. Removable(Visible(v), call[t].uuid) /\ Visible(v)' = W
        BY ZenonT(60), <2>2, <3>1, <3>2 DEF TypeOK
      <4>2. /\ OnStack(W) \subseteq OnStack(Visible(v))
            /\ call[t].uuid \notin OnStack(W)
            /\ W.registries = {r \in Visible(v).registries : r.scope # call[t].uuid}
        BY Zenon, <2>2, <4>1, VisibleOk, RemovedOk, RemovedOpen
      <4> HIDE DEF W
      <4> QED BY <4>1, <4>2
    <3>3. CASE visible[v] # visible[t]
      BY ZenonT(60), <2>2, <2>3, <3>1, <3>3 DEF TypeOK
    <3> QED BY ZenonT(60), <3>2, <3>3
  <2>6. ASSUME NEW u \in Uuid, NEW f \in Field, NEW n \in Name,
               ScopeRegister(t, u, f, n) \/ ScopeDeregister(t, u, f, n)
        PROVE  /\ OnStack(Visible(v)') = OnStack(Visible(v))
               /\ \A r \in owed'[v] : r \in Visible(v).registries => r \in Visible(v)'.registries
    <3> DEFINE e == [scope |-> u, field |-> f, name |-> n]
    <3>1. CASE ScopeRegister(t, u, f, n)
      <4>1. stacks' = [stacks EXCEPT ![visible[t]].registries = @ \cup {e}]
        BY <3>1 DEF ScopeRegister
      <4> HIDE DEF e
      <4>2. /\ stacks'[visible[v]].scopes = stacks[visible[v]].scopes
            /\ stacks[visible[v]].registries \subseteq stacks'[visible[v]].registries
        BY ZenonT(60), <2>2, <4>1 DEF TypeOK, StackType
      <4> QED BY ZenonT(60), <2>2, <4>2 DEF OnStack
    <3>2. CASE ScopeDeregister(t, u, f, n)
      <4>1. /\ stacks' = [stacks EXCEPT ![visible[t]].registries = @ \ {e}]
            /\ owed' = [w \in Thread |-> IF visible[w] = visible[t] THEN owed[w] \ {e} ELSE owed[w]]
        BY <3>2 DEF ScopeDeregister
      <4> HIDE DEF e
      <4>2. /\ stacks'[visible[v]].scopes = stacks[visible[v]].scopes
            /\ visible[v] # visible[t] =>
                  stacks'[visible[v]].registries = stacks[visible[v]].registries
            /\ visible[v] = visible[t] =>
                  stacks'[visible[v]].registries = stacks[visible[v]].registries \ {e}
        BY ZenonT(60), <2>2, <4>1 DEF TypeOK, StackType
      <4>3. visible[v] = visible[t] => e \notin owed'[v]
        BY SMTT(60), <4>1
      <4> QED BY ZenonT(60), <2>2, <4>2, <4>3 DEF OnStack
    <3> QED BY Zenon, <2>6, <3>1, <3>2
  <2>7. CASE TakeFreshness(t) \/ MarkFresh(t)
    <3>1. PICK F : stacks' = [stacks EXCEPT ![visible[t]].fresh = F]
      BY Zenon, <2>7 DEF TakeFreshness, MarkFresh, Taken
    <3>2. /\ stacks'[visible[v]].scopes = stacks[visible[v]].scopes
          /\ stacks'[visible[v]].registries = stacks[visible[v]].registries
      BY ZenonT(60), <2>2, <3>1 DEF TypeOK, StackType
    <3> QED BY Zenon, <2>2, <3>2 DEF OnStack
  <2>8. CASE \E f \in ForkStack, rootless \in BOOLEAN : Import(t, f, rootless)
    BY ZenonT(60), <2>2, <2>3, <2>8 DEF Import, TypeOK, Created
  <2>9. CASE \E c \in CopyStack : Isolate(t, c)
    BY ZenonT(60), <2>2, <2>3, <2>9 DEF Isolate, TypeOK, Created
  <2>10. \/ stacks' = stacks
         \/ PushWrite(t)
         \/ PopRemove(t)
         \/ \E u \in Uuid, f \in Field, n \in Name :
               ScopeRegister(t, u, f, n) \/ ScopeDeregister(t, u, f, n)
         \/ TakeFreshness(t) \/ MarkFresh(t)
         \/ \E f \in ForkStack, rootless \in BOOLEAN : Import(t, f, rootless)
         \/ \E c \in CopyStack : Isolate(t, c)
    BY Zenon DEF Step, Push, CreateHandle, PushSanitizers, PushQueue, Pop, PopSanitizers,
           PopSnapshot, PopRefused, PopQueue, LlmStart, Compaction, Capture, Bind
  <2> QED BY ZenonT(60), <2>3, <2>4, <2>5, <2>6, <2>7, <2>8, <2>9, <2>10
<1> QED BY ZenonT(60), <1>3, <1>4

\* Every step keeps what the pops under way are to carry.
LEMMA NextCarry == TypeOK /\ OpenInv /\ CarryInv /\ [Next]_vars => CarryInv'
<1> SUFFICES ASSUME TypeOK, OpenInv, CarryInv, [Next]_vars PROVE CarryInv'
  OBVIOUS
<1>1. CASE UNCHANGED vars
  BY Zenon, <1>1 DEF vars, CarryInv, CarryOk, Held, Visible
<1>2. CASE Next
  <2>1. PICK t \in Thread : Step(t)
    BY <1>2 DEF Next
  <2>2. \A v \in Thread : v # t => CarryOk(v)'
    BY <2>1, CarryOthers DEF CarryInv
  <2>3. CarryOk(t)
    BY DEF CarryInv
  <2>4. CarryOk(t)'
    <3>1. CASE \E u \in Uuid : Pop(t, u)
      BY SMTT(60), <3>1, CarryPop
    <3>2. CASE PopSanitizers(t)
      BY <2>3, <3>2, CarryPopSanitizers
    <3>3. CASE PopSnapshot(t) \/ PopRemove(t)
      BY ZenonT(60), <2>3, <3>3, CarryPopRest
    <3>4. CASE PushWrite(t) \/ PushSanitizers(t) \/ \E u \in Scope : CreateHandle(t, u)
      <4>1. call'[t].pc \in {"push-sanitizers", "push-queue", "push-write"}
        <5>1. CASE PushWrite(t)
          BY ZenonT(60), <5>1 DEF PushWrite, TypeOK, CallType
        <5>2. CASE PushSanitizers(t)
          BY ZenonT(60), <5>2 DEF PushSanitizers, TypeOK, CallType
        <5>3. ASSUME NEW u \in Scope, CreateHandle(t, u) PROVE call'[t].pc = "push-write"
          BY ZenonT(60), <5>3 DEF CreateHandle, TypeOK, CallType
        <5> QED BY ZenonT(60), <3>4, <5>1, <5>2, <5>3
      <4> QED BY ZenonT(60), <4>1, CarryIdle
    <3>5. CASE call' = [call EXCEPT ![t] = Idle] \/ (call' = call /\ call[t] = Idle)
      <4>1. call'[t].pc = "idle"
        BY ZenonT(60), <3>5, IdleOk DEF TypeOK
      <4> QED BY SMTT(60), <4>1, CarryIdle
    <3>6. CASE \E agent \in Agents, implicit \in BOOLEAN, p \in Uuid :
                 Push(t, agent, implicit, p)
      <4>1. call'[t].pc = "push"
        BY <3>6 DEF Push, TypeOK, Idle
      <4> QED BY <4>1, CarryIdle
    <3>7. CASE \E implicit \in BOOLEAN, p \in Uuid :
                 LlmStart(t, implicit, p) \/ Compaction(t, implicit, p)
      <4>1. call'[t].pc \in {"llm", "compaction"}
        BY ZenonT(40), <3>7 DEF LlmStart, Compaction, TypeOK, Idle
      <4> QED BY <4>1, CarryIdle
    <3>8. CASE \E p \in Uuid : Capture(t, p)
      <4>1. call'[t].pc = "capture"
        BY <3>8 DEF Capture, TypeOK, Idle
      <4> QED BY SMTT(60), <4>1, CarryIdle
    <3> QED BY <2>1, <3>1, <3>2, <3>3, <3>4, <3>5, <3>6, <3>7, <3>8, ZenonT(60)
            DEF Step, PushQueue, PopRefused, PopQueue, ScopeRegister, ScopeDeregister,
                TakeFreshness, MarkFresh, Import, Isolate, Bind
  <2> QED BY <2>2, <2>4 DEF CarryInv
<1> QED BY <1>1, <1>2

\* pop_scope: the end event carries the middleware the scope owned when it was
\* called and still owned when it was removed, however many threads register,
\* deregister, open and close on the same stack in between.
THEOREM EndCarries == Spec => []EndCarriesMiddleware
<1>1. Init => CarryInv
  BY Zenon, IdleOk DEF Init, CarryInv, CarryOk
<1>2. Spec => []CarryInv
  BY <1>1, NextCarry, OpenAlways, PTL DEF Spec
<1>3. CarryInv => EndCarriesMiddleware
  BY DEF CarryInv, CarryOk, Held, EndCarriesMiddleware
<1> QED BY <1>2, <1>3, PTL

-----------------------------------------------------------------------------
\* A step that neither opens nor closes a scope, nor queues its event.
Quiet(t) ==
    /\ minted' = minted /\ starts' = starts /\ ends' = ends /\ rootOf' = rootOf
    /\ \A s \in Stack : /\ stacks'[s].scopes = stacks[s].scopes
                        /\ stacks'[s].root = stacks[s].root
                        /\ stacks'[s].parent = stacks[s].parent
                        /\ stacks'[s].rootless = stacks[s].rootless
    /\ Opens(call[t]) => visible'[t] = visible[t]
    /\ call[t].pc \notin {"push-write", "pop-queue"}
    /\ call'[t].pc \notin {"push-write", "pop-queue"}
    /\ Opens(call'[t]) <=> Opens(call[t])
    /\ Opens(call[t]) => call'[t].uuid = call[t].uuid

\* What the calls of t outside task_scope_push, task_scope_remove and the
\* queueing of events move.
LEMMA QuietCalls ==
    ASSUME TypeOK, NEW t \in Thread,
           \/ \E agent \in Agents, implicit \in BOOLEAN, p \in Uuid : Push(t, agent, implicit, p)
           \/ \E u \in Uuid : Pop(t, u)
           \/ \E implicit \in BOOLEAN, p \in Uuid :
                 LlmStart(t, implicit, p) \/ Compaction(t, implicit, p) \/ Capture(t, p)
           \/ PushSanitizers(t) \/ PopSanitizers(t) \/ PopSnapshot(t) \/ PopRefused(t)
    PROVE  Quiet(t)
<1>1. call[t] \in CallType /\ call \in [Thread -> CallType]
  BY ZenonT(60) DEF TypeOK
<1>2. /\ minted' = minted /\ starts' = starts /\ ends' = ends /\ stacks' = stacks
      /\ rootOf' = rootOf /\ visible' = visible
  BY Zenon DEF Push, Pop, LlmStart, Compaction, Capture, PushSanitizers, PopSanitizers,
               PopSnapshot, PopRefused
<1>3. CASE \/ \E agent \in Agents, implicit \in BOOLEAN, p \in Uuid : Push(t, agent, implicit, p)
           \/ \E u \in Uuid : Pop(t, u)
           \/ \E implicit \in BOOLEAN, p \in Uuid :
                 LlmStart(t, implicit, p) \/ Compaction(t, implicit, p) \/ Capture(t, p)
  <2>1. call[t].pc = "idle"
    BY Zenon, <1>3, IdleOk DEF Push, Pop, LlmStart, Compaction, Capture
  <2>2. call'[t].pc \in {"push", "pop-sanitizers", "llm", "compaction", "capture"}
    <3>1. ASSUME NEW agent \in Agents, NEW implicit \in BOOLEAN, NEW p \in Uuid,
                 Push(t, agent, implicit, p)
          PROVE  call'[t].pc = "push"
      BY ZenonT(60), <1>1, <3>1 DEF Push, Idle
    <3>2. ASSUME NEW u \in Uuid, Pop(t, u) PROVE call'[t].pc = "pop-sanitizers"
      BY ZenonT(60), <1>1, <3>2 DEF Pop, Idle
    <3>3. ASSUME NEW implicit \in BOOLEAN, NEW p \in Uuid, LlmStart(t, implicit, p)
          PROVE  call'[t].pc = "llm"
      BY ZenonT(60), <1>1, <3>3 DEF LlmStart, Idle
    <3>4. ASSUME NEW implicit \in BOOLEAN, NEW p \in Uuid, Compaction(t, implicit, p)
          PROVE  call'[t].pc = "compaction"
      BY ZenonT(60), <1>1, <3>4 DEF Compaction, Idle
    <3>5. ASSUME NEW p \in Uuid, Capture(t, p) PROVE call'[t].pc = "capture"
      BY ZenonT(60), <1>1, <3>5 DEF Capture, Idle
    <3> QED BY ZenonT(60), <1>3, <3>1, <3>2, <3>3, <3>4, <3>5
  <2> QED BY <1>2, <2>1, <2>2 DEF Quiet, Opens
<1>4. CASE PushSanitizers(t)
  <2>1. call[t].pc = "push-sanitizers" /\ call'[t].pc = "push-queue" /\ call'[t].uuid = call[t].uuid
    BY ZenonT(60), <1>1, <1>4 DEF PushSanitizers, CallType
  <2> QED BY <1>2, <2>1 DEF Quiet, Opens
<1>5. CASE PopSanitizers(t) \/ PopSnapshot(t)
  <2>1. call[t].pc \in {"pop-sanitizers", "pop-snapshot"}
    BY Zenon, <1>5 DEF PopSanitizers, PopSnapshot
  <2>2. call'[t].pc \in {"pop-snapshot", "pop-remove"}
    <3>1. CASE PopSanitizers(t)
      BY ZenonT(60), <1>1, <3>1 DEF PopSanitizers, CallType
    <3>2. CASE PopSnapshot(t)
      BY ZenonT(60), <1>1, <3>2 DEF PopSnapshot, CallType
    <3> QED BY Zenon, <1>5, <3>1, <3>2
  <2> QED BY <1>2, <2>1, <2>2 DEF Quiet, Opens
<1>6. CASE PopRefused(t)
  <2>1. call[t].pc = "pop-remove" /\ call'[t].pc = "idle"
    BY ZenonT(60), <1>1, <1>6, IdleOk DEF PopRefused
  <2> QED BY <1>2, <2>1 DEF Quiet, Opens
<1> QED BY Zenon, <1>3, <1>4, <1>5, <1>6

\* The registries, the freshness and the binding are none of its business.
LEMMA QuietStacks ==
    ASSUME TypeOK, NEW t \in Thread,
           \/ \E u \in Uuid, f \in Field, n \in Name :
                 ScopeRegister(t, u, f, n) \/ ScopeDeregister(t, u, f, n)
           \/ TakeFreshness(t) \/ MarkFresh(t)
           \/ \E s \in Stack : Bind(t, s)
    PROVE  Quiet(t)
<1>1. stacks \in [Stack -> StackType] /\ call \in [Thread -> CallType]
  BY ZenonT(60) DEF TypeOK
<1>2. minted' = minted /\ starts' = starts /\ ends' = ends /\ rootOf' = rootOf
  BY Zenon DEF ScopeRegister, ScopeDeregister, TakeFreshness, MarkFresh, Bind
<1>3. ASSUME NEW s \in Stack
      PROVE  /\ stacks'[s].scopes = stacks[s].scopes /\ stacks'[s].root = stacks[s].root
             /\ stacks'[s].parent = stacks[s].parent /\ stacks'[s].rootless = stacks[s].rootless
  <2>1. stacks[s] \in StackType
    BY <1>1
  <2>2. CASE \E u \in Uuid, f \in Field, n \in Name :
               ScopeRegister(t, u, f, n) \/ ScopeDeregister(t, u, f, n)
    <3>1. PICK R : stacks' = [stacks EXCEPT ![visible[t]].registries = R]
      BY Zenon, <2>2 DEF ScopeRegister, ScopeDeregister
    <3> QED BY <1>1, <2>1, <3>1 DEF StackType
  <2>3. CASE TakeFreshness(t) \/ MarkFresh(t)
    <3>1. PICK F : stacks' = [stacks EXCEPT ![visible[t]].fresh = F]
      BY ZenonT(40), <2>3 DEF TakeFreshness, MarkFresh, Taken
    <3> QED BY ZenonT(60), <1>1, <2>1, <3>1 DEF StackType
  <2>4. CASE \E w \in Stack : Bind(t, w)
    BY Zenon, <2>4 DEF Bind
  <2> QED BY Zenon, <2>2, <2>3, <2>4
<1>4. call[t].pc \in {"idle", "llm", "compaction"} /\ call'[t].pc = "idle"
  BY ZenonT(60), <1>1, IdleOk DEF ScopeRegister, ScopeDeregister, TakeFreshness, MarkFresh, Bind
<1> QED BY <1>2, <1>3, <1>4 DEF Quiet, Opens

\* The kinds of steps there are.
LEMMA Kinds ==
    ASSUME TypeOK, NEW t \in Thread, Step(t)
    PROVE  \/ \E u \in Scope : CreateHandle(t, u)
           \/ PushWrite(t) \/ PushQueue(t) \/ PopRemove(t) \/ PopQueue(t)
           \/ \E s \in ForkStack, rootless \in BOOLEAN : Import(t, s, rootless)
           \/ \E s \in CopyStack : Isolate(t, s)
           \/ Quiet(t)
<1>1. \/ \E u \in Scope : CreateHandle(t, u)
      \/ PushWrite(t) \/ PushQueue(t) \/ PopRemove(t) \/ PopQueue(t)
      \/ \E agent \in Agents, implicit \in BOOLEAN, p \in Uuid : Push(t, agent, implicit, p)
      \/ \E u \in Uuid : Pop(t, u)
      \/ \E implicit \in BOOLEAN, p \in Uuid : LlmStart(t, implicit, p)
      \/ \E implicit \in BOOLEAN, p \in Uuid : Compaction(t, implicit, p)
      \/ \E p \in Uuid : Capture(t, p)
      \/ PushSanitizers(t) \/ PopSanitizers(t) \/ PopSnapshot(t) \/ PopRefused(t)
      \/ \E u \in Uuid, f \in Field, n \in Name :
            ScopeRegister(t, u, f, n) \/ ScopeDeregister(t, u, f, n)
      \/ TakeFreshness(t) \/ MarkFresh(t)
      \/ \E s \in ForkStack, rootless \in BOOLEAN : Import(t, s, rootless)
      \/ \E s \in CopyStack : Isolate(t, s)
      \/ \E s \in Stack : Bind(t, s)
  BY ZenonT(60) DEF Step
<1>2. TRUE \in BOOLEAN
  OBVIOUS
<1> QED BY ZenonT(60), <1>1, <1>2, QuietCalls, QuietStacks

\* Where nothing is forked or copied, six of them are left.
LEMMA Moves ==
    ASSUME TypeOK, ForkStack = {}, CopyStack = {}, NEW t \in Thread, Step(t)
    PROVE  \/ \E u \in Scope : CreateHandle(t, u)
           \/ PushWrite(t) \/ PushQueue(t) \/ PopRemove(t) \/ PopQueue(t)
           \/ Quiet(t)
BY ZenonT(60), Kinds

\* task_scope_push puts a scope that was on no stack on top of one.
LEMMA PushMoves ==
    ASSUME TypeOK, OpenInv, NEW t \in Thread, PushWrite(t)
    PROVE  /\ call[t].pc = "push-write" /\ call'[t].pc = "push-sanitizers"
           /\ call'[t].uuid = call[t].uuid
           /\ call[t].uuid \in Scope /\ call[t].uuid \in minted
           /\ \A s \in Stack : call[t].uuid \notin OnStack(stacks[s])
           /\ \A v \in Thread : call[v].pc = "pop-queue" => call[v].uuid # call[t].uuid
           /\ visible[t] \in Stack
           /\ OnStack(stacks'[visible[t]]) = OnStack(stacks[visible[t]]) \cup {call[t].uuid}
           /\ stacks'[visible[t]].scopes[1] = stacks[visible[t]].scopes[1]
           /\ stacks'[visible[t]].fresh \subseteq stacks[visible[t]].fresh \cup {call[t].uuid}
           /\ \A s \in Stack : s # visible[t] => stacks'[s] = stacks[s]
           /\ minted' = minted /\ starts' = starts /\ ends' = ends
<1> DEFINE h == [uuid |-> call[t].uuid, agent |-> call[t].agent]
           st == stacks[visible[t]]
<1>1. /\ visible[t] \in Stack /\ st \in StackType /\ st.scopes # <<>>
      /\ Len(st.scopes) \in Nat /\ Len(st.scopes) >= 1
  BY ZenonT(60), VisibleOk, StackFields DEF Visible
<1>2. /\ call[t] \in CallType /\ call[t].pc = "push-write" /\ call[t].uuid \in Scope
      /\ call[t].uuid \in minted /\ ~Seen(call[t].uuid)
  BY ZenonT(60) DEF PushWrite, TypeOK, OpenInv, CallInv, CallOk, Seen, MintedInv
<1>3. h \in Handle /\ h.uuid = call[t].uuid
  BY ZenonT(60), <1>2 DEF Handle, Uuid, CallType
<1>4. stacks' = [stacks EXCEPT ![visible[t]] = Pushed(st, h)]
  BY Zenon DEF PushWrite
<1> HIDE DEF h
<1>5. stacks'[visible[t]] = Pushed(st, h) /\ \A s \in Stack : s # visible[t] => stacks'[s] = stacks[s]
  BY ZenonT(60), <1>1, <1>4 DEF TypeOK
<1>6. call'[t].pc = "push-sanitizers" /\ call'[t].uuid = call[t].uuid
  BY ZenonT(60), <1>2 DEF PushWrite, TypeOK, CallType
<1>7. minted' = minted /\ starts' = starts /\ ends' = ends
  BY Zenon DEF PushWrite
<1>8. \A s \in Stack : call[t].uuid \notin OnStack(stacks[s])
  BY ZenonT(60), <1>2 DEF OpenInv, SeenInv
<1>11. \A v \in Thread : call[v].pc = "pop-queue" => call[v].uuid # call[t].uuid
  BY ZenonT(60), <1>2 DEF OpenInv, SeenInv, CallInv, CallOk
<1> HIDE DEF st
<1>9. /\ OnStack(Pushed(st, h)) = OnStack(st) \cup {call[t].uuid}
      /\ \A i \in 1 .. Len(st.scopes) : Pushed(st, h).scopes[i] = st.scopes[i]
      /\ Pushed(st, h).fresh \subseteq st.fresh \cup {call[t].uuid}
  BY ZenonT(60), <1>1, <1>3, PushedOpen, PushedOk
<1>10. Pushed(st, h).scopes[1] = st.scopes[1]
  BY <1>1, <1>9
<1> QED BY ZenonT(60), <1>1, <1>2, <1>5, <1>6, <1>7, <1>8, <1>9, <1>10, <1>11 DEF st

\* task_scope_remove takes the scope the call names, and no other, off the stack.
LEMMA PopMoves ==
    ASSUME TypeOK, OpenInv, NEW t \in Thread, PopRemove(t)
    PROVE  /\ call[t].pc = "pop-remove" /\ call'[t].pc = "pop-queue"
           /\ call'[t].uuid = call[t].uuid /\ call[t].uuid \in Uuid
           /\ visible[t] \in Stack /\ call[t].uuid \in OnStack(stacks[visible[t]])
           /\ OnStack(stacks'[visible[t]]) = OnStack(stacks[visible[t]]) \ {call[t].uuid}
           /\ stacks'[visible[t]].scopes[1] = stacks[visible[t]].scopes[1]
           /\ call[t].uuid # stacks[visible[t]].scopes[1].uuid
           /\ stacks'[visible[t]].fresh \subseteq stacks[visible[t]].fresh
           /\ \A s \in Stack : s # visible[t] => stacks'[s] = stacks[s]
           /\ minted' = minted /\ starts' = starts /\ ends' = ends
<1> DEFINE st == stacks[visible[t]]
           u == call[t].uuid
<1>1. /\ visible[t] \in Stack /\ st \in StackType /\ st.scopes # <<>>
      /\ WellFormed(st) /\ OnStack(st) \subseteq Uuid
  BY ZenonT(60), VisibleOk, StackFields DEF Visible
<1>2. /\ call[t] \in CallType /\ call[t].pc = "pop-remove" /\ Removable(st, u)
      /\ stacks' = [stacks EXCEPT ![visible[t]] = Removed(st, u)]
      /\ minted' = minted /\ starts' = starts /\ ends' = ends
  BY ZenonT(60) DEF PopRemove, TypeOK, Visible
<1>3. call'[t].pc = "pop-queue" /\ call'[t].uuid = u
  BY ZenonT(60), <1>2 DEF PopRemove, TypeOK, CallType
<1>4. stacks'[visible[t]] = Removed(st, u) /\ \A s \in Stack : s # visible[t] => stacks'[s] = stacks[s]
  BY ZenonT(60), <1>1, <1>2 DEF TypeOK
<1> HIDE DEF st, u
<1> DEFINE n == Len(st.scopes)
           new == Removed(st, u)
<1>5. /\ n \in Nat /\ n > 1 /\ st.scopes[n].uuid = u /\ Len(new.scopes) = n - 1
      /\ \A i \in 1 .. n - 1 : new.scopes[i] = st.scopes[i]
  <2>1. n \in Nat /\ n > 1 /\ st.scopes[n].uuid = u /\ Len(new.scopes) = n - 1
    BY ZenonT(60), <1>1, <1>2, RemovedOk, StackFields
  <2>2. \A i \in 1 .. n - 1 : new.scopes[i] = st.scopes[i]
    BY SMTT(60), <1>1, <1>2, RemovedOk
  <2> QED BY Zenon, <2>1, <2>2
<1>6. OnStack(new) \subseteq OnStack(st) /\ u \notin OnStack(new) /\ new.fresh \subseteq st.fresh
  <2>1. new.fresh = st.fresh \ {u}
    BY Zenon, <1>1, <1>2, RemovedOk
  <2>2. OnStack(new) \subseteq OnStack(st) /\ u \notin OnStack(new)
    BY Zenon, <1>1, <1>2, RemovedOpen
  <2> QED BY Zenon, <2>1, <2>2
<1> HIDE DEF n, new
<1>7. u \in OnStack(st) /\ new.scopes[1] = st.scopes[1]
  BY <1>5 DEF OnStack, n
<1>8. u # st.scopes[1].uuid
  BY <1>1, <1>5 DEF WellFormed, n
<1>9. ASSUME NEW x \in OnStack(st), x # u PROVE x \in OnStack(new)
  BY <1>5, <1>9 DEF OnStack, n
<1>10. OnStack(new) = OnStack(st) \ {u}
  BY Zenon, <1>6, <1>9
<1> QED BY ZenonT(60), <1>1, <1>2, <1>3, <1>4, <1>6, <1>7, <1>8, <1>10 DEF st, u, new

\* The events: what queueing one changes.
LEMMA QueueMoves ==
    ASSUME TypeOK, OpenInv, NEW t \in Thread, PushQueue(t) \/ PopQueue(t)
    PROVE  /\ call'[t].pc = "idle" /\ stacks' = stacks /\ minted' = minted
           /\ Queues(t) \in {0, 1} /\ (Global => Queues(t) = 1)
           /\ call[t].uuid # None => call[t].uuid \in Uuid
           /\ PushQueue(t) => /\ call[t].pc = "push-queue" /\ ends' = ends /\ call[t].uuid \in Uuid
                              /\ starts'[call[t].uuid] = starts[call[t].uuid] + Queues(t)
                              /\ \A u \in Uuid : u # call[t].uuid => starts'[u] = starts[u]
           /\ PopQueue(t) => /\ call[t].pc = "pop-queue" /\ starts' = starts /\ call[t].uuid \in Uuid
                             /\ ends'[call[t].uuid] = ends[call[t].uuid] + Queues(t)
                             /\ \A u \in Uuid : u # call[t].uuid => ends'[u] = ends[u]
<1>1. call \in [Thread -> CallType] /\ starts \in [Uuid -> Nat] /\ ends \in [Uuid -> Nat]
  BY Zenon DEF TypeOK
<1>2. call'[t].pc = "idle" /\ stacks' = stacks /\ minted' = minted
  BY ZenonT(60), <1>1, IdleOk DEF PushQueue, PopQueue
<1>3. Queues(t) \in {0, 1} /\ (Global => Queues(t) = 1)
  BY DEF Queues
<1>4. call[t].uuid # None => call[t].uuid \in Uuid
  BY ZenonT(60), <1>1 DEF CallType
<1>5. call[t].pc \in {"push-queue", "pop-queue"} => call[t].uuid \in Uuid
  BY ZenonT(60), <1>4 DEF OpenInv, CallInv, CallOk, Uuid
<1>6. CASE PushQueue(t)
  <2>1. call[t].pc = "push-queue" /\ call[t].uuid \in Uuid /\ ends' = ends
    BY ZenonT(60), <1>5, <1>6 DEF PushQueue
  <2>2. starts' = [starts EXCEPT ![call[t].uuid] = @ + Queues(t)]
    BY Zenon, <1>6 DEF PushQueue
  <2>3. ~PopQueue(t)
    BY <2>1 DEF PopQueue
  <2> QED BY ZenonT(60), <1>1, <1>2, <1>3, <1>4, <2>1, <2>2, <2>3
<1>7. CASE PopQueue(t)
  <2>1. call[t].pc = "pop-queue" /\ call[t].uuid \in Uuid /\ starts' = starts
    BY ZenonT(60), <1>5, <1>7 DEF PopQueue
  <2>2. ends' = [ends EXCEPT ![call[t].uuid] = @ + Queues(t)]
    BY Zenon, <1>7 DEF PopQueue
  <2>3. ~PushQueue(t)
    BY <2>1 DEF PushQueue
  <2> QED BY ZenonT(60), <1>1, <1>2, <1>3, <1>4, <2>1, <2>2, <2>3
<1> QED BY Zenon, <1>6, <1>7

\* A uuid is minted: it was given to nothing before.
LEMMA MintMoves ==
    ASSUME TypeOK, OpenInv, NEW t \in Thread, NEW u \in Scope, CreateHandle(t, u)
    PROVE  /\ call[t].pc = "push" /\ call'[t].pc = "push-write" /\ call'[t].uuid = u
           /\ u \notin minted /\ minted' = minted \cup {u} /\ u \in Uuid
           /\ stacks' = stacks /\ starts' = starts /\ ends' = ends
<1>1. call'[t].pc = "push-write" /\ call'[t].uuid = u
  BY ZenonT(60) DEF CreateHandle, TypeOK, CallType
<1> QED BY ZenonT(60), <1>1 DEF CreateHandle, Uuid

-----------------------------------------------------------------------------
\* Every step keeps the account of the start events.
LEMMA StartStep ==
    ASSUME TypeOK, OpenInv, StartInv, NEW t \in Thread, Step(t)
    PROVE  StartInv'
<1>1. \A v \in Thread : v # t => call'[v] = call[v]
  BY Zenon, OthersKeep
<1>2. /\ minted \subseteq Uuid /\ starts \in [Uuid -> Nat]
  BY ZenonT(60) DEF TypeOK, Uuid
<1>11. \A u \in Uuid : starts[u] <= 1 /\ (u \notin minted => starts[u] = 0)
  BY Zenon DEF StartInv
<1>12. \A v \in Thread : Opens(call[v]) => call[v].uuid \in minted /\ starts[call[v].uuid] = 0
  BY Zenon DEF StartInv
<1>13. \A v, w \in Thread :
         Opens(call[v]) /\ Opens(call[w]) /\ call[v].uuid = call[w].uuid => v = w
  BY Zenon DEF StartInv
<1>14. Global => \A u \in minted :
         starts[u] = 1 \/ \E v \in Thread : Opens(call[v]) /\ call[v].uuid = u
  BY Zenon DEF StartInv
<1>3. ASSUME NEW u \in Scope, CreateHandle(t, u) PROVE StartInv'
  <2>1. /\ Opens(call'[t]) /\ ~Opens(call[t]) /\ call'[t].uuid = u
        /\ u \notin minted /\ minted' = minted \cup {u} /\ u \in Uuid /\ starts' = starts
    BY <1>3, MintMoves DEF Opens
  <2>2. starts[u] = 0
    BY Zenon, <2>1, <1>11
  <2>3. \A x \in Uuid : starts'[x] <= 1 /\ (x \notin minted' => starts'[x] = 0)
    BY Zenon, <2>1, <1>11
  <2>4. \A v \in Thread : Opens(call'[v]) => call'[v].uuid \in minted' /\ starts'[call'[v].uuid] = 0
    BY Zenon, <1>1, <2>1, <2>2, <1>12
  <2>5. \A v, w \in Thread :
          Opens(call'[v]) /\ Opens(call'[w]) /\ call'[v].uuid = call'[w].uuid => v = w
    BY ZenonT(60), <1>1, <2>1, <1>12, <1>13
  <2>6. Global => \A x \in minted' :
          starts'[x] = 1 \/ \E v \in Thread : Opens(call'[v]) /\ call'[v].uuid = x
    <3> SUFFICES ASSUME Global, NEW x \in minted'
                 PROVE  starts'[x] = 1 \/ \E v \in Thread : Opens(call'[v]) /\ call'[v].uuid = x
      OBVIOUS
    <3>1. CASE x = u
      BY Zenon, <2>1, <3>1
    <3>2. CASE x # u
      <4>1. starts[x] = 1 \/ \E v \in Thread : Opens(call[v]) /\ call[v].uuid = x
        BY Zenon, <2>1, <3>2, <1>14
      <4>2. \A v \in Thread : Opens(call[v]) => call'[v] = call[v]
        BY Zenon, <1>1, <2>1
      <4> QED BY Zenon, <2>1, <4>1, <4>2
    <3> QED BY Zenon, <3>1, <3>2
  <2> QED BY ZenonT(60), <2>3, <2>4, <2>5, <2>6 DEF StartInv, Opens
<1>4. CASE PushQueue(t)
  <2> DEFINE u == call[t].uuid
  <2>1. /\ Opens(call[t]) /\ ~Opens(call'[t]) /\ minted' = minted /\ u \in Uuid
        /\ Queues(t) \in {0, 1} /\ (Global => Queues(t) = 1)
        /\ starts'[u] = starts[u] + Queues(t)
        /\ \A x \in Uuid : x # u => starts'[x] = starts[x]
    BY <1>4, QueueMoves DEF Opens
  <2>2. u \in minted /\ starts[u] = 0
    BY Zenon, <2>1, <1>12
  <2>3. starts'[u] <= 1 /\ (Global => starts'[u] = 1)
    BY <2>1, <2>2
  <2> HIDE DEF u
  <2>4. \A x \in Uuid : starts'[x] <= 1 /\ (x \notin minted' => starts'[x] = 0)
    BY Zenon, <2>1, <2>2, <2>3, <1>11
  <2>5. \A v \in Thread : Opens(call[v]) /\ v # t => call[v].uuid # u
    BY Zenon, <2>1, <1>13 DEF u
  <2>6. \A v \in Thread : Opens(call'[v]) => call'[v].uuid \in minted' /\ starts'[call'[v].uuid] = 0
    BY ZenonT(60), <1>1, <1>2, <2>1, <2>5, <1>12
  <2>7. \A v, w \in Thread :
          Opens(call'[v]) /\ Opens(call'[w]) /\ call'[v].uuid = call'[w].uuid => v = w
    BY ZenonT(60), <1>1, <2>1, <1>12, <1>13
  <2>8. ASSUME Global, NEW x \in minted'
        PROVE  starts'[x] = 1 \/ \E v \in Thread : Opens(call'[v]) /\ call'[v].uuid = x
    <3>1. CASE x = u
      BY Zenon, <2>3, <2>8, <3>1
    <3>2. CASE x # u
      <4>1. x \in minted /\ x \in Uuid
        BY Zenon, <1>2, <2>1
      <4>2. starts[x] = 1 \/ \E v \in Thread : Opens(call[v]) /\ call[v].uuid = x
        BY Zenon, <2>8, <4>1, <1>14
      <4> QED BY ZenonT(60), <1>1, <2>1, <3>2, <4>1, <4>2 DEF u
    <3> QED BY Zenon, <3>1, <3>2
  <2> QED BY ZenonT(60), <2>4, <2>6, <2>7, <2>8 DEF StartInv, Opens
<1>5. ASSUME minted' = minted, starts' = starts, Opens(call'[t]) <=> Opens(call[t]),
             Opens(call[t]) => call'[t].uuid = call[t].uuid
      PROVE  StartInv'
  <2>1. \A v \in Thread : /\ Opens(call'[v]) <=> Opens(call[v])
                          /\ Opens(call[v]) => call'[v].uuid = call[v].uuid
    BY Zenon, <1>1, <1>5
  <2>2. \A v \in Thread : Opens(call'[v]) => call'[v].uuid \in minted' /\ starts'[call'[v].uuid] = 0
    BY Zenon, <1>5, <2>1, <1>12
  <2>3. \A v, w \in Thread :
          Opens(call'[v]) /\ Opens(call'[w]) /\ call'[v].uuid = call'[w].uuid => v = w
    BY ZenonT(60), <2>1, <1>12, <1>13
  <2>4. Global => \A x \in minted' :
          starts'[x] = 1 \/ \E v \in Thread : Opens(call'[v]) /\ call'[v].uuid = x
    BY ZenonT(60), <1>5, <2>1, <1>14
  <2>5. \A x \in Uuid : starts'[x] <= 1 /\ (x \notin minted' => starts'[x] = 0)
    BY Zenon, <1>5, <1>11
  <2> QED BY ZenonT(60), <2>2, <2>3, <2>4, <2>5 DEF StartInv, Opens
<1>6. CASE PushWrite(t)
  <2>1. Opens(call'[t]) /\ Opens(call[t])
    BY <1>6, PushMoves DEF Opens
  <2> QED BY Zenon, <1>5, <1>6, <2>1, PushMoves
<1>7. CASE PopRemove(t)
  <2>1. ~Opens(call'[t]) /\ ~Opens(call[t])
    BY <1>7, PopMoves DEF Opens
  <2> QED BY Zenon, <1>5, <1>7, <2>1, PopMoves
<1>8. CASE PopQueue(t)
  <2>1. ~Opens(call'[t]) /\ ~Opens(call[t])
    BY <1>8, QueueMoves DEF Opens
  <2> QED BY Zenon, <1>5, <1>8, <2>1, QueueMoves
<1>9. CASE Quiet(t)
  BY Zenon, <1>5, <1>9 DEF Quiet
<1>10. CASE \/ \E s \in ForkStack, rootless \in BOOLEAN : Import(t, s, rootless)
            \/ \E s \in CopyStack : Isolate(t, s)
  <2>1. /\ minted' = minted /\ starts' = starts
        /\ call[t].pc \in {"idle", "capture"} /\ call'[t].pc = "idle"
    BY ZenonT(60), <1>10, IdleOk DEF Import, Isolate, TypeOK
  <2>2. ~Opens(call'[t]) /\ ~Opens(call[t])
    BY <2>1 DEF Opens
  <2> QED BY Zenon, <1>5, <2>1, <2>2
<1> QED BY ZenonT(60), <1>3, <1>4, <1>6, <1>7, <1>8, <1>9, <1>10, Kinds

\* Every step leaves an open scope on one stack, and each root on its own.
LEMMA SingleStep ==
    ASSUME TypeOK, OpenInv, SingleInv, ForkStack = {}, CopyStack = {}, NEW t \in Thread, Step(t)
    PROVE  SingleInv'
<1>1. OwnStack \subseteq Stack
  BY Zenon DEF Stack
<1>2. CASE PushWrite(t)
  <2> DEFINE u == call[t].uuid
  <2>1. /\ visible[t] \in Stack /\ u \in minted /\ minted' = minted
        /\ \A s \in Stack : u \notin OnStack(stacks[s])
        /\ OnStack(stacks'[visible[t]]) = OnStack(stacks[visible[t]]) \cup {u}
        /\ stacks'[visible[t]].scopes[1] = stacks[visible[t]].scopes[1]
        /\ \A s \in Stack : s # visible[t] => stacks'[s] = stacks[s]
    BY Zenon, <1>2, PushMoves
  <2> HIDE DEF u
  <2>2. \A s \in OwnStack : stacks'[s].scopes[1].uuid = s /\ s \in OnStack(stacks'[s])
    BY ZenonT(60), <1>1, <2>1 DEF SingleInv
  <2>3. \A s \in Stack : OnStack(stacks'[s]) \subseteq minted' \cup OwnStack
    BY ZenonT(60), <2>1 DEF SingleInv
  <2>4. ASSUME NEW s \in Stack, NEW w \in Stack, NEW x \in Uuid,
               x \in OnStack(stacks'[s]), x \in OnStack(stacks'[w])
        PROVE  s = w
    <3>1. \A y \in Stack : x \in OnStack(stacks'[y]) =>
             x \in OnStack(stacks[y]) \/ (y = visible[t] /\ x = u)
      BY ZenonT(60), <2>1
    <3>2. \A y \in Stack : \A z \in Stack :
            x \in OnStack(stacks[y]) /\ x \in OnStack(stacks[z]) => y = z
      BY Zenon DEF SingleInv
    <3>3. CASE x = u
      <4>1. s = visible[t] /\ w = visible[t]
        BY Zenon, <2>1, <2>4, <3>1, <3>3
      <4> QED BY Zenon, <4>1
    <3>4. CASE x # u
      <4>1. x \in OnStack(stacks[s]) /\ x \in OnStack(stacks[w])
        BY Zenon, <2>4, <3>1, <3>4
      <4> QED BY Zenon, <3>2, <4>1
    <3> QED BY Zenon, <3>3, <3>4
  <2> QED BY ZenonT(60), <2>2, <2>3, <2>4 DEF SingleInv, OnStack
<1>3. CASE PopRemove(t)
  <2> DEFINE u == call[t].uuid
  <2>1. /\ visible[t] \in Stack /\ minted' = minted
        /\ OnStack(stacks'[visible[t]]) = OnStack(stacks[visible[t]]) \ {u}
        /\ stacks'[visible[t]].scopes[1] = stacks[visible[t]].scopes[1]
        /\ u # stacks[visible[t]].scopes[1].uuid
        /\ \A s \in Stack : s # visible[t] => stacks'[s] = stacks[s]
    BY Zenon, <1>3, PopMoves
  <2> HIDE DEF u
  <2>2. \A s \in OwnStack : stacks'[s].scopes[1].uuid = s /\ s \in OnStack(stacks'[s])
    BY ZenonT(60), <1>1, <2>1 DEF SingleInv
  <2>3. \A y \in Stack : OnStack(stacks'[y]) \subseteq OnStack(stacks[y])
    BY ZenonT(60), <2>1
  <2>4. \A s \in Stack : OnStack(stacks'[s]) \subseteq minted' \cup OwnStack
    BY ZenonT(60), <2>1, <2>3 DEF SingleInv
  <2>5. \A s, w \in Stack, x \in Uuid :
          x \in OnStack(stacks'[s]) /\ x \in OnStack(stacks'[w]) => s = w
    BY ZenonT(60), <2>3 DEF SingleInv
  <2> QED BY ZenonT(60), <2>2, <2>4, <2>5 DEF SingleInv, OnStack
<1>4. ASSUME minted \subseteq minted', \A s \in Stack : stacks'[s].scopes = stacks[s].scopes
      PROVE  SingleInv'
  <2>1. \A s \in Stack : OnStack(stacks'[s]) = OnStack(stacks[s])
    BY Zenon, <1>4 DEF OnStack
  <2>2. \A s \in OwnStack : stacks'[s].scopes[1].uuid = s /\ s \in OnStack(stacks'[s])
    BY ZenonT(60), <1>1, <1>4, <2>1 DEF SingleInv
  <2>3. \A s \in Stack : OnStack(stacks'[s]) \subseteq minted' \cup OwnStack
    BY ZenonT(60), <1>4, <2>1 DEF SingleInv
  <2>4. \A s, w \in Stack, x \in Uuid :
          x \in OnStack(stacks'[s]) /\ x \in OnStack(stacks'[w]) => s = w
    BY ZenonT(60), <2>1 DEF SingleInv
  <2> QED BY ZenonT(60), <2>2, <2>3, <2>4 DEF SingleInv, OnStack
<1>5. ASSUME NEW u \in Scope, CreateHandle(t, u) PROVE SingleInv'
  <2>1. minted' = minted \cup {u} /\ stacks' = stacks
    BY Zenon, <1>5, MintMoves
  <2> QED BY Zenon, <1>4, <2>1
<1>6. CASE PushQueue(t) \/ PopQueue(t)
  <2>1. minted' = minted /\ stacks' = stacks
    BY Zenon, <1>6, QueueMoves
  <2> QED BY Zenon, <1>4, <2>1
<1>7. CASE Quiet(t)
  BY Zenon, <1>4, <1>7 DEF Quiet
<1> QED BY Zenon, <1>2, <1>3, <1>5, <1>6, <1>7, Moves

\* Every step keeps the account of the end events.
LEMMA EndStep ==
    ASSUME TypeOK, OpenInv, SingleInv, EndInv, ForkStack = {}, CopyStack = {},
           NEW t \in Thread, Step(t)
    PROVE  EndInv'
<1>1. \A v \in Thread : v # t => call'[v] = call[v]
  BY Zenon, OthersKeep
<1>2. minted \subseteq Uuid /\ minted \subseteq Scope /\ \A s \in Stack : OnStack(stacks[s]) \subseteq Uuid
  BY ZenonT(60), StackFields DEF TypeOK, Uuid
<1>11. \A x \in Uuid : ends[x] <= 1 /\ (x \notin minted => ends[x] = 0)
  BY Zenon DEF EndInv
<1>12. \A s \in Stack : \A x \in OnStack(stacks[s]) : ends[x] = 0
  BY Zenon DEF EndInv
<1>13. \A v \in Thread : call[v].pc = "push-write" => ends[call[v].uuid] = 0
  BY Zenon DEF EndInv
<1>14. \A v \in Thread : call[v].pc = "pop-queue" =>
         /\ call[v].uuid \in minted /\ ends[call[v].uuid] = 0
         /\ \A s \in Stack : call[v].uuid \notin OnStack(stacks[s])
  BY Zenon DEF EndInv
<1>15. \A v, w \in Thread :
         call[v].pc = "pop-queue" /\ call[w].pc = "pop-queue"
         /\ call[v].uuid = call[w].uuid => v = w
  BY Zenon DEF EndInv
<1>16. Global => \A x \in minted :
         \/ ends[x] = 1
         \/ \E s \in Stack : x \in OnStack(stacks[s])
         \/ \E v \in Thread : call[v].pc \in {"push-write", "pop-queue"} /\ call[v].uuid = x
  BY Zenon DEF EndInv
<1> DEFINE On(x) == \E s \in Stack : x \in OnStack(stacks'[s])
           Due(x) == \E v \in Thread :
                        call'[v].pc \in {"push-write", "pop-queue"} /\ call'[v].uuid = x
<1>3. ASSUME \A x \in Uuid : ends'[x] <= 1 /\ (x \notin minted' => ends'[x] = 0),
             \A s \in Stack : \A x \in OnStack(stacks'[s]) : ends'[x] = 0,
             \A v \in Thread : call'[v].pc = "push-write" => ends'[call'[v].uuid] = 0,
             \A v \in Thread : call'[v].pc = "pop-queue" =>
                 /\ call'[v].uuid \in minted' /\ ends'[call'[v].uuid] = 0
                 /\ \A s \in Stack : call'[v].uuid \notin OnStack(stacks'[s]),
             \A v, w \in Thread :
                 call'[v].pc = "pop-queue" /\ call'[w].pc = "pop-queue"
                 /\ call'[v].uuid = call'[w].uuid => v = w,
             Global => \A x \in minted' : ends'[x] = 1 \/ On(x) \/ Due(x)
      PROVE  EndInv'
  BY ZenonT(60), <1>3 DEF EndInv, OnStack
<1>4. ASSUME NEW u \in Scope, CreateHandle(t, u) PROVE EndInv'
  <2>1. /\ call[t].pc = "push" /\ call'[t].pc = "push-write" /\ call'[t].uuid = u
        /\ u \notin minted /\ minted' = minted \cup {u} /\ u \in Uuid
        /\ stacks' = stacks /\ ends' = ends
    BY Zenon, <1>4, MintMoves
  <2>2. call[t].pc # "push-write" /\ call[t].pc # "pop-queue" /\ call'[t].pc # "pop-queue"
    BY <2>1
  <2>3. ends[u] = 0
    BY Zenon, <2>1, <1>11, <1>12, <1>13
  <2>4. \A x \in Uuid : ends'[x] <= 1 /\ (x \notin minted' => ends'[x] = 0)
    BY Zenon, <2>1, <1>11
  <2>5. \A v \in Thread : call'[v].pc = "push-write" => ends'[call'[v].uuid] = 0
    BY Zenon, <1>1, <2>1, <2>3, <1>13
  <2>6. \A v \in Thread : call'[v].pc = "pop-queue" => v # t /\ call'[v] = call[v]
    BY Zenon, <1>1, <2>2
  <2>7. \A v \in Thread : call'[v].pc = "pop-queue" =>
          /\ call'[v].uuid \in minted' /\ ends'[call'[v].uuid] = 0
          /\ \A s \in Stack : call'[v].uuid \notin OnStack(stacks'[s])
    BY ZenonT(60), <2>1, <2>6, <1>14
  <2>8. \A v, w \in Thread :
          call'[v].pc = "pop-queue" /\ call'[w].pc = "pop-queue"
          /\ call'[v].uuid = call'[w].uuid => v = w
    BY ZenonT(60), <2>6, <1>15
  <2>9. ASSUME Global, NEW x \in minted' PROVE ends'[x] = 1 \/ On(x) \/ Due(x)
    <3>1. CASE x = u
      BY Zenon, <2>1, <3>1
    <3>2. CASE x # u
      <4>1. \/ ends[x] = 1
            \/ \E s \in Stack : x \in OnStack(stacks[s])
            \/ \E v \in Thread : call[v].pc \in {"push-write", "pop-queue"} /\ call[v].uuid = x
        BY Zenon, <2>1, <2>9, <3>2, <1>16
      <4>2. \A v \in Thread : call[v].pc \in {"push-write", "pop-queue"} => call'[v] = call[v]
        BY Zenon, <1>1, <2>2
      <4> QED BY Zenon, <2>1, <4>1, <4>2
    <3> QED BY Zenon, <3>1, <3>2
  <2>10. \A s \in Stack : \A x \in OnStack(stacks'[s]) : ends'[x] = 0
    BY Zenon, <2>1, <1>12
  <2> HIDE DEF On, Due
  <2> QED BY Zenon, <1>3, <2>4, <2>5, <2>7, <2>8, <2>9, <2>10
<1>5. CASE PushWrite(t)
  <2> DEFINE u == call[t].uuid
  <2>1. /\ call[t].pc = "push-write" /\ call'[t].pc = "push-sanitizers" /\ visible[t] \in Stack
        /\ \A v \in Thread : call[v].pc = "pop-queue" => call[v].uuid # u
        /\ OnStack(stacks'[visible[t]]) = OnStack(stacks[visible[t]]) \cup {u}
        /\ \A s \in Stack : s # visible[t] => stacks'[s] = stacks[s]
        /\ minted' = minted /\ ends' = ends
    BY Zenon, <1>5, PushMoves
  <2>2. call'[t].pc # "push-write" /\ call[t].pc # "pop-queue" /\ call'[t].pc # "pop-queue"
    BY <2>1
  <2>3. ends[u] = 0
    BY Zenon, <2>1, <1>11, <1>12, <1>13
  <2> HIDE DEF u
  <2>4. \A s \in Stack : \A x \in OnStack(stacks'[s]) : x \in OnStack(stacks[s]) \/ x = u
    BY ZenonT(60), <2>1
  <2>5. \A s \in Stack : \A x \in OnStack(stacks'[s]) : ends'[x] = 0
    BY ZenonT(60), <2>1, <2>3, <2>4, <1>12
  <2>6. \A v \in Thread : call'[v].pc = "push-write" \/ call'[v].pc = "pop-queue" =>
          v # t /\ call'[v] = call[v]
    BY ZenonT(60), <1>1, <2>2
  <2>7. \A v \in Thread : call'[v].pc = "push-write" => ends'[call'[v].uuid] = 0
    BY ZenonT(60), <2>1, <2>6, <1>13
  <2>8. \A v \in Thread : call'[v].pc = "pop-queue" =>
          /\ call'[v].uuid \in minted' /\ ends'[call'[v].uuid] = 0
          /\ \A s \in Stack : call'[v].uuid \notin OnStack(stacks'[s])
    <3> SUFFICES ASSUME NEW v \in Thread, call'[v].pc = "pop-queue"
                 PROVE  /\ call'[v].uuid \in minted' /\ ends'[call'[v].uuid] = 0
                        /\ \A s \in Stack : call'[v].uuid \notin OnStack(stacks'[s])
      OBVIOUS
    <3>1. call'[v] = call[v] /\ call[v].pc = "pop-queue"
      BY Zenon, <2>6
    <3>2. /\ call[v].uuid \in minted /\ ends[call[v].uuid] = 0 /\ call[v].uuid # u
          /\ \A s \in Stack : call[v].uuid \notin OnStack(stacks[s])
      BY Zenon, <2>1, <3>1, <1>14
    <3>3. \A s \in Stack : call[v].uuid \notin OnStack(stacks'[s])
      BY Zenon, <2>4, <3>2
    <3> QED BY Zenon, <2>1, <3>1, <3>2, <3>3
  <2>9. \A v, w \in Thread :
          call'[v].pc = "pop-queue" /\ call'[w].pc = "pop-queue"
          /\ call'[v].uuid = call'[w].uuid => v = w
    BY ZenonT(60), <2>6, <1>15
  <2>10. ASSUME Global, NEW x \in minted' PROVE ends'[x] = 1 \/ On(x) \/ Due(x)
    <3>1. CASE x = u
      BY Zenon, <2>1, <3>1
    <3>2. CASE x # u
      <4>1. \/ ends[x] = 1
            \/ \E s \in Stack : x \in OnStack(stacks[s])
            \/ \E v \in Thread : call[v].pc \in {"push-write", "pop-queue"} /\ call[v].uuid = x
        BY Zenon, <2>1, <2>10, <1>16
      <4>2. \A s \in Stack : x \in OnStack(stacks[s]) => x \in OnStack(stacks'[s])
        BY Zenon, <2>1
      <4> QED BY ZenonT(60), <1>1, <2>1, <3>2, <4>1, <4>2 DEF u
    <3> QED BY Zenon, <3>1, <3>2
  <2>11. \A x \in Uuid : ends'[x] <= 1 /\ (x \notin minted' => ends'[x] = 0)
    BY Zenon, <2>1, <1>11
  <2> HIDE DEF On, Due
  <2> QED BY Zenon, <1>3, <2>5, <2>7, <2>8, <2>9, <2>10, <2>11
<1>6. CASE PopRemove(t)
  <2> DEFINE u == call[t].uuid
  <2>1. /\ call[t].pc = "pop-remove" /\ call'[t].pc = "pop-queue" /\ call'[t].uuid = u
        /\ visible[t] \in Stack /\ u \in OnStack(stacks[visible[t]]) /\ u \in Uuid
        /\ OnStack(stacks'[visible[t]]) = OnStack(stacks[visible[t]]) \ {u}
        /\ u # stacks[visible[t]].scopes[1].uuid
        /\ \A s \in Stack : s # visible[t] => stacks'[s] = stacks[s]
        /\ minted' = minted /\ ends' = ends
    BY Zenon, <1>6, PopMoves
  <2>2. call'[t].pc # "push-write" /\ call[t].pc # "pop-queue" /\ call[t].pc # "push-write"
    BY <2>1
  <2> HIDE DEF u
  <2>3. ends[u] = 0
    BY Zenon, <2>1, <1>11, <1>12, <1>13
  <2>4. \A s \in Stack : u \in OnStack(stacks[s]) => s = visible[t]
    BY ZenonT(60), <2>1 DEF SingleInv
  <2>5. u \in minted
    <3>1. u \notin OwnStack
      BY ZenonT(60), <2>1, <2>4 DEF SingleInv, Stack
    <3>2. \A s \in Stack : OnStack(stacks[s]) \subseteq minted \cup OwnStack
      BY Zenon DEF SingleInv
    <3> QED BY Zenon, <2>1, <3>1, <3>2
  <2>6. \A s \in Stack : OnStack(stacks'[s]) = OnStack(stacks[s]) \ {u}
    BY ZenonT(60), <2>1, <2>4
  <2>7. \A v \in Thread : call[v].pc = "pop-queue" => call[v].uuid # u
    BY Zenon, <2>1, <1>14
  <2>8. \A s \in Stack : \A x \in OnStack(stacks'[s]) : ends'[x] = 0
    BY Zenon, <2>1, <2>6, <1>12
  <2>9. \A v \in Thread : call'[v].pc = "push-write" => ends'[call'[v].uuid] = 0
    BY ZenonT(60), <1>1, <2>1, <2>2, <1>13
  <2>10. \A v \in Thread : call'[v].pc = "pop-queue" =>
          /\ call'[v].uuid \in minted' /\ ends'[call'[v].uuid] = 0
          /\ \A s \in Stack : call'[v].uuid \notin OnStack(stacks'[s])
    <3> SUFFICES ASSUME NEW v \in Thread, call'[v].pc = "pop-queue"
                 PROVE  /\ call'[v].uuid \in minted' /\ ends'[call'[v].uuid] = 0
                        /\ \A s \in Stack : call'[v].uuid \notin OnStack(stacks'[s])
      OBVIOUS
    <3>1. CASE v = t
      <4>1. call'[v].uuid = u
        BY Zenon, <2>1, <3>1
      <4> QED BY Zenon, <2>1, <2>3, <2>5, <2>6, <4>1
    <3>2. CASE v # t
      <4>1. call'[v] = call[v]
        BY Zenon, <1>1, <3>2
      <4>2. /\ call[v].uuid \in minted /\ ends[call[v].uuid] = 0
            /\ \A s \in Stack : call[v].uuid \notin OnStack(stacks[s])
        BY Zenon, <4>1, <1>14
      <4> QED BY Zenon, <2>1, <2>6, <4>1, <4>2
    <3> QED BY Zenon, <3>1, <3>2
  <2>11. \A v, w \in Thread :
          call'[v].pc = "pop-queue" /\ call'[w].pc = "pop-queue"
          /\ call'[v].uuid = call'[w].uuid => v = w
    <3>1. \A v \in Thread : v # t /\ call'[v].pc = "pop-queue" =>
            call[v].pc = "pop-queue" /\ call'[v].uuid = call[v].uuid /\ call'[v].uuid # u
      BY Zenon, <1>1, <2>7
    <3>2. call'[t].uuid = u
      BY Zenon, <2>1
    <3> QED BY ZenonT(60), <3>1, <3>2, <1>15
  <2>12. ASSUME Global, NEW x \in minted' PROVE ends'[x] = 1 \/ On(x) \/ Due(x)
    <3>1. CASE x = u
      BY Zenon, <2>1, <3>1
    <3>2. CASE x # u
      <4>1. \/ ends[x] = 1
            \/ \E s \in Stack : x \in OnStack(stacks[s])
            \/ \E v \in Thread : call[v].pc \in {"push-write", "pop-queue"} /\ call[v].uuid = x
        BY Zenon, <2>1, <2>12, <1>16
      <4>2. \A s \in Stack : x \in OnStack(stacks[s]) => x \in OnStack(stacks'[s])
        BY Zenon, <2>6, <3>2
      <4> QED BY ZenonT(60), <1>1, <2>1, <2>2, <4>1, <4>2
    <3> QED BY Zenon, <3>1, <3>2
  <2>13. \A x \in Uuid : ends'[x] <= 1 /\ (x \notin minted' => ends'[x] = 0)
    BY Zenon, <2>1, <1>11
  <2> HIDE DEF On, Due
  <2> QED BY Zenon, <1>3, <2>8, <2>9, <2>10, <2>11, <2>12, <2>13
<1>7. CASE PopQueue(t)
  <2> DEFINE u == call[t].uuid
  <2>1. /\ call[t].pc = "pop-queue" /\ call'[t].pc = "idle" /\ u \in Uuid
        /\ stacks' = stacks /\ minted' = minted
        /\ Queues(t) \in {0, 1} /\ (Global => Queues(t) = 1)
        /\ ends'[u] = ends[u] + Queues(t)
        /\ \A x \in Uuid : x # u => ends'[x] = ends[x]
    BY Zenon, <1>7, QueueMoves
  <2>2. call'[t].pc # "push-write" /\ call[t].pc # "push-write" /\ call'[t].pc # "pop-queue"
    BY <2>1
  <2>3. u \in minted /\ ends[u] = 0 /\ \A s \in Stack : u \notin OnStack(stacks[s])
    BY Zenon, <2>1, <1>14
  <2>4. ends'[u] <= 1 /\ (Global => ends'[u] = 1)
    BY <2>1, <2>3
  <2>5. \A v \in Thread : v # t /\ call[v].pc = "pop-queue" => call[v].uuid # u
    BY Zenon, <2>1, <1>15
  <2>6. \A v \in Thread : call[v].pc = "push-write" => call[v].uuid # u /\ call[v].uuid \in Uuid
    <3>1. Seen(u)
      <4>1. call[t].pc \notin {"idle", "push", "push-write"} /\ call[t].uuid # None
        BY <2>1, UuidAssumption
      <4> QED BY Zenon, <4>1 DEF OpenInv, SeenInv
    <3>2. \A v \in Thread : call[v].pc = "push-write" => call[v].uuid # u
      BY Zenon, <1>2, <2>3, <3>1 DEF Seen
    <3>3. \A v \in Thread : call[v].pc = "push-write" => call[v].uuid \in Uuid
      BY Zenon, <1>2 DEF OpenInv, MintedInv
    <3> QED BY Zenon, <3>2, <3>3
  <2> HIDE DEF u
  <2>7. \A v \in Thread : call'[v].pc = "push-write" \/ call'[v].pc = "pop-queue" =>
          v # t /\ call'[v] = call[v]
    BY ZenonT(60), <1>1, <2>2
  <2>8. \A x \in Uuid : ends'[x] <= 1 /\ (x \notin minted' => ends'[x] = 0)
    BY Zenon, <2>1, <2>3, <2>4, <1>11
  <2>9. \A s \in Stack : \A x \in OnStack(stacks'[s]) : ends'[x] = 0
    BY ZenonT(60), <1>2, <2>1, <2>3, <1>12
  <2>10. \A v \in Thread : call'[v].pc = "push-write" => ends'[call'[v].uuid] = 0
    BY ZenonT(60), <2>1, <2>6, <2>7, <1>13
  <2>11. \A v \in Thread : call'[v].pc = "pop-queue" =>
          /\ call'[v].uuid \in minted' /\ ends'[call'[v].uuid] = 0
          /\ \A s \in Stack : call'[v].uuid \notin OnStack(stacks'[s])
    <3> SUFFICES ASSUME NEW v \in Thread, call'[v].pc = "pop-queue"
                 PROVE  /\ call'[v].uuid \in minted' /\ ends'[call'[v].uuid] = 0
                        /\ \A s \in Stack : call'[v].uuid \notin OnStack(stacks'[s])
      OBVIOUS
    <3>1. v # t /\ call'[v] = call[v]
      BY Zenon, <2>7
    <3>2. /\ call[v].uuid \in minted /\ ends[call[v].uuid] = 0 /\ call[v].uuid # u
          /\ \A s \in Stack : call[v].uuid \notin OnStack(stacks[s])
      BY Zenon, <2>5, <3>1, <1>14
    <3>3. ends'[call[v].uuid] = 0
      BY Zenon, <1>2, <2>1, <3>2
    <3> QED BY Zenon, <2>1, <3>1, <3>2, <3>3
  <2>12. \A v, w \in Thread :
          call'[v].pc = "pop-queue" /\ call'[w].pc = "pop-queue"
          /\ call'[v].uuid = call'[w].uuid => v = w
    BY ZenonT(60), <2>7, <1>15
  <2>13. ASSUME Global, NEW x \in minted' PROVE ends'[x] = 1 \/ On(x) \/ Due(x)
    <3>1. CASE x = u
      BY Zenon, <2>4, <2>13, <3>1
    <3>2. CASE x # u
      <4>1. \/ ends[x] = 1
            \/ \E s \in Stack : x \in OnStack(stacks[s])
            \/ \E v \in Thread : call[v].pc \in {"push-write", "pop-queue"} /\ call[v].uuid = x
        BY Zenon, <2>1, <2>13, <1>16
      <4>2. x \in Uuid /\ ends'[x] = ends[x]
        BY Zenon, <1>2, <2>1, <3>2
      <4> QED BY ZenonT(60), <1>1, <2>1, <3>2, <4>1, <4>2 DEF u
    <3> QED BY Zenon, <3>1, <3>2
  <2> HIDE DEF On, Due
  <2> QED BY Zenon, <1>3, <2>8, <2>9, <2>10, <2>11, <2>12, <2>13
<1>8. ASSUME minted' = minted, ends' = ends,
             \A s \in Stack : stacks'[s].scopes = stacks[s].scopes,
             call[t].pc \notin {"push-write", "pop-queue"},
             call'[t].pc \notin {"push-write", "pop-queue"}
      PROVE  EndInv'
  <2>1. \A s \in Stack : OnStack(stacks'[s]) = OnStack(stacks[s])
    BY Zenon, <1>8 DEF OnStack
  <2>2. \A v \in Thread : call'[v].pc = "push-write" \/ call'[v].pc = "pop-queue" =>
          v # t /\ call'[v] = call[v]
    BY ZenonT(60), <1>1, <1>8
  <2>3. \A s \in Stack : \A x \in OnStack(stacks'[s]) : ends'[x] = 0
    BY Zenon, <1>8, <2>1, <1>12
  <2>4. \A v \in Thread : call'[v].pc = "push-write" => ends'[call'[v].uuid] = 0
    BY ZenonT(60), <1>8, <2>2, <1>13
  <2>5. \A v \in Thread : call'[v].pc = "pop-queue" =>
          /\ call'[v].uuid \in minted' /\ ends'[call'[v].uuid] = 0
          /\ \A s \in Stack : call'[v].uuid \notin OnStack(stacks'[s])
    BY ZenonT(60), <1>8, <2>1, <2>2, <1>14
  <2>6. \A v, w \in Thread :
          call'[v].pc = "pop-queue" /\ call'[w].pc = "pop-queue"
          /\ call'[v].uuid = call'[w].uuid => v = w
    BY ZenonT(60), <2>2, <1>15
  <2>7. ASSUME Global, NEW x \in minted' PROVE ends'[x] = 1 \/ On(x) \/ Due(x)
    <3>1. \/ ends[x] = 1
          \/ \E s \in Stack : x \in OnStack(stacks[s])
          \/ \E v \in Thread : call[v].pc \in {"push-write", "pop-queue"} /\ call[v].uuid = x
      BY Zenon, <1>8, <2>7, <1>16
    <3> QED BY ZenonT(60), <1>1, <1>8, <2>1, <3>1
  <2>8. \A x \in Uuid : ends'[x] <= 1 /\ (x \notin minted' => ends'[x] = 0)
    BY Zenon, <1>8, <1>11
  <2> HIDE DEF On, Due
  <2> QED BY Zenon, <1>3, <2>3, <2>4, <2>5, <2>6, <2>7, <2>8
<1>9. CASE PushQueue(t)
  <2>1. call[t].pc = "push-queue" /\ call'[t].pc = "idle" /\ stacks' = stacks
        /\ minted' = minted /\ ends' = ends
    BY Zenon, <1>9, QueueMoves
  <2>2. call[t].pc \notin {"push-write", "pop-queue"} /\ call'[t].pc \notin {"push-write", "pop-queue"}
    BY <2>1
  <2> QED BY Zenon, <1>8, <2>1, <2>2
<1>10. CASE Quiet(t)
  BY Zenon, <1>8, <1>10 DEF Quiet
<1> QED BY Zenon, <1>4, <1>5, <1>6, <1>7, <1>9, <1>10, Moves

\* Where nothing is forked or copied, PairInv is an invariant.
LEMMA PairAlways ==
    ASSUME ForkStack = {}, CopyStack = {}
    PROVE  Spec => []PairInv
<1>1. Init => PairInv
  <2> SUFFICES ASSUME Init PROVE PairInv
    OBVIOUS
  <2>1. /\ minted = {} /\ \A u \in Uuid : starts[u] = 0 /\ ends[u] = 0
        /\ \A t \in Thread : call[t] = Idle
    BY ZenonT(60) DEF Init
  <2>2. Stack = OwnStack /\ OwnStack \subseteq Uuid
    BY Zenon DEF Stack, Uuid
  <2>3. ASSUME NEW s \in OwnStack
        PROVE  stacks[s].scopes = <<[uuid |-> s, agent |-> TRUE]>>
    BY ZenonT(60), <2>2 DEF Init, New
  <2>4. ASSUME NEW s \in OwnStack
        PROVE  stacks[s].scopes[1].uuid = s /\ OnStack(stacks[s]) = {s}
    <3> DEFINE sc == <<[uuid |-> s, agent |-> TRUE]>>
    <3>1. Len(sc) = 1 /\ sc[1].uuid = s
      OBVIOUS
    <3> HIDE DEF sc
    <3>2. stacks[s].scopes = sc
      BY Zenon, <2>3 DEF sc
    <3>3. \A i \in 1 .. Len(sc) : sc[i].uuid = s
      BY <3>1
    <3>4. 1 \in 1 .. Len(sc)
      BY <3>1
    <3> QED BY Zenon, <3>1, <3>2, <3>3, <3>4 DEF OnStack
  <2>5. SingleInv
    <3>1. \A s \in OwnStack : stacks[s].scopes[1].uuid = s /\ s \in OnStack(stacks[s])
      BY Zenon, <2>4
    <3>2. ASSUME NEW s \in Stack PROVE OnStack(stacks[s]) \subseteq minted \cup OwnStack
      <4>1. s \in OwnStack /\ OnStack(stacks[s]) = {s}
        BY Zenon, <2>2, <2>4
      <4> QED BY <4>1
    <3>3. ASSUME NEW s \in Stack, NEW w \in Stack, NEW x \in Uuid,
                 x \in OnStack(stacks[s]), x \in OnStack(stacks[w])
          PROVE  s = w
      <4>1. x = s /\ x = w
        BY Zenon, <2>2, <2>4, <3>3
      <4> QED BY Zenon, <4>1
    <3> QED BY Zenon, <3>1, <3>2, <3>3 DEF SingleInv
  <2>6. \A t \in Thread : call[t].pc = "idle"
    BY Zenon, <2>1, IdleOk
  <2>7. StartInv
    BY <2>1, <2>6 DEF StartInv, Opens
  <2>8. EndInv
    BY <2>1, <2>2, <2>4, <2>6 DEF EndInv
  <2> QED BY Zenon, <2>5, <2>7, <2>8 DEF PairInv
<1>2. TypeOK /\ OpenInv /\ PairInv /\ [Next]_vars => PairInv'
  <2> SUFFICES ASSUME TypeOK, OpenInv, PairInv, [Next]_vars PROVE PairInv'
    OBVIOUS
  <2>1. CASE UNCHANGED vars
    <3>1. stacks' = stacks /\ call' = call /\ minted' = minted /\ starts' = starts /\ ends' = ends
      BY Zenon, <2>1 DEF vars
    <3>2. \A s \in Stack : OnStack(stacks[s])' = OnStack(stacks[s])
      BY Zenon, <3>1 DEF OnStack
    <3>3. SingleInv /\ StartInv /\ EndInv
      BY Zenon DEF PairInv
    <3>4. SingleInv'
      BY <3>1, <3>2, <3>3 DEF SingleInv
    <3>5. StartInv'
      BY <3>1, <3>3 DEF StartInv, Opens
    <3>6. EndInv'
      BY <3>1, <3>2, <3>3 DEF EndInv
    <3> QED BY Zenon, <3>4, <3>5, <3>6 DEF PairInv
  <2>2. CASE Next
    BY Zenon, <2>2, SingleStep, StartStep, EndStep DEF Next, PairInv
  <2> QED BY Zenon, <2>1, <2>2
<1> QED BY <1>1, <1>2, OpenAlways, PTL DEF Spec

\* Threads that share stacks, as long as no stack is forked or copied: the start
\* and the end event of a scope are queued at most once each by push_scope and
\* pop_scope, and none is missing when no call runs.
THEOREM EventsPair ==
    ASSUME ForkStack = {}, CopyStack = {}
    PROVE  Spec => []EventsPaired
<1>1. PairInv => EventsPaired
  <2> SUFFICES ASSUME PairInv PROVE EventsPaired
    OBVIOUS
  <2>1. \A u \in Uuid : starts[u] <= 1 /\ ends[u] <= 1
    BY Zenon DEF PairInv, StartInv, EndInv
  <2>2. ASSUME Global, \A t \in Thread : call[t] = Idle, NEW u \in minted
        PROVE  starts[u] = 1 /\ (ends[u] = 1 <=> \A s \in Stack : u \notin OnStack(stacks[s]))
    <3>1. \A t \in Thread : ~Opens(call[t]) /\ call[t].pc \notin {"push-write", "pop-queue"}
      BY ZenonT(60), <2>2, IdleOk DEF Opens
    <3>2. starts[u] = 1
      BY Zenon, <2>2, <3>1 DEF PairInv, StartInv
    <3>3. ends[u] = 1 \/ \E s \in Stack : u \in OnStack(stacks[s])
      BY Zenon, <2>2, <3>1 DEF PairInv, EndInv
    <3>4. \A s \in Stack : u \in OnStack(stacks[s]) => ends[u] = 0
      BY Zenon DEF PairInv, EndInv
    <3>5. 0 # 1
      OBVIOUS
    <3> QED BY Zenon, <3>2, <3>3, <3>4, <3>5
  <2> QED BY Zenon, <2>1, <2>2 DEF EventsPaired
<1> QED BY <1>1, PairAlways, PTL

-----------------------------------------------------------------------------
\* Where nothing is forked or copied, an agent is fresh on one stack only.
LEMMA FreshAlone ==
    ASSUME TypeOK, OpenInv, SingleInv, ForkStack = {}, CopyStack = {},
           NEW s \in Stack, NEW w \in Stack, NEW a, a \in stacks[s].fresh, a \in stacks[w].fresh
    PROVE  s = w
<1>1. ASSUME NEW y \in Stack PROVE stacks[y].fresh \subseteq OnStack(stacks[y])
  <2>1. y \in OnStack(stacks[y])
    BY Zenon DEF SingleInv, Stack
  <2>2. stacks[y].scopes # <<>>
    BY <2>1 DEF OnStack
  <2>3. Owned(stacks[y])
    BY Zenon, <2>2 DEF OpenInv, OpenScopesOwn, Created
  <2> QED BY Zenon, <2>3 DEF Owned, OnStack
<1>2. a \in OnStack(stacks[s]) /\ a \in OnStack(stacks[w])
  BY Zenon, <1>1
<1>3. a \in Uuid
  BY Zenon DEF TypeOK, StackType
<1> QED BY Zenon, <1>2, <1>3 DEF SingleInv

\* owning_agent_uuid names an agent of the stack.
LEMMA OwnerKnown ==
    ASSUME TypeOK, OpenInv, NEW t \in Thread, NEW p
    PROVE  OwningAgent(Visible(t), p) \in Uuid
<1>1. Visible(t) \in StackType /\ Visible(t).scopes # <<>> /\ WellFormed(Visible(t))
  BY Zenon, VisibleOk
<1>2. \E i \in 1 .. Len(Visible(t).scopes) : Visible(t).scopes[i].uuid = OwningAgent(Visible(t), p)
  BY Zenon, <1>1, OwningAgentOk
<1> QED BY Zenon, <1>1, <1>2, StackFields

\* Every step keeps the account of the full-history LLM starts.
LEMMA FreshStep ==
    ASSUME TypeOK, OpenInv, SingleInv, FreshInv, ForkStack = {}, CopyStack = {},
           NEW t \in Thread, Step(t)
    PROVE  FreshInv'
<1>1. charged \in [Uuid -> Nat] /\ stacks \in [Stack -> StackType]
  BY Zenon DEF TypeOK
<1>2. \A s \in Stack : stacks[s].fresh \subseteq Uuid
  BY Zenon, <1>1 DEF StackType
<1>3. CASE TakeFreshness(t)
  <2> DEFINE a == OwningAgent(Visible(t), call[t].parent)
             st == stacks[visible[t]]
  <2>1. visible[t] \in Stack /\ st \in StackType /\ a \in Uuid
    BY Zenon, VisibleOk, OwnerKnown DEF Visible
  <2>2. /\ charged' = [charged EXCEPT ![a] = IF a \in st.fresh THEN @ + 1 ELSE @]
        /\ stacks' = [stacks EXCEPT ![visible[t]] = Taken(st, a)]
    BY Zenon, <1>3 DEF TakeFreshness, Visible
  <2> HIDE DEF a, st
  <2>3. Taken(st, a).fresh = st.fresh \ {a}
    BY <2>1 DEF Taken, StackType
  <2>4. /\ stacks'[visible[t]].fresh = st.fresh \ {a}
        /\ \A s \in Stack : s # visible[t] => stacks'[s] = stacks[s]
    BY ZenonT(60), <1>1, <2>1, <2>2, <2>3
  <2>5. \A x \in Uuid : x # a => charged'[x] = charged[x]
    BY Zenon, <1>1, <2>1, <2>2
  <2>6. charged'[a] = IF a \in st.fresh THEN charged[a] + 1 ELSE charged[a]
    BY Zenon, <1>1, <2>1, <2>2
  <2>7. a \in st.fresh => charged[a] = 0
    BY Zenon, <2>1 DEF FreshInv, st
  <2>8. charged'[a] <= 1
    <3>1. CASE a \in st.fresh
      BY <2>6, <2>7, <3>1
    <3>2. CASE a \notin st.fresh
      BY Zenon, <2>1, <2>6, <3>2 DEF FreshInv
    <3> QED BY Zenon, <3>1, <3>2
  <2>9. ASSUME NEW s \in Stack, NEW x \in stacks'[s].fresh PROVE charged'[x] = 0
    <3>1. x \in stacks[s].fresh
      BY Zenon, <2>4 DEF st
    <3>2. x # a \/ a \notin st.fresh
      BY ZenonT(60), <2>1, <2>4, <3>1, FreshAlone DEF st
    <3>3. charged[x] = 0 /\ x \in Uuid
      BY Zenon, <1>2, <3>1 DEF FreshInv
    <3> QED BY Zenon, <2>5, <2>6, <3>2, <3>3
  <2>10. \A x \in Uuid : charged'[x] <= 1
    BY Zenon, <2>5, <2>8 DEF FreshInv
  <2> QED BY Zenon, <2>9, <2>10 DEF FreshInv
<1>4. CASE MarkFresh(t)
  <2> DEFINE a == OwningAgent(Visible(t), call[t].parent)
             st == stacks[visible[t]]
  <2>1. visible[t] \in Stack /\ st \in StackType /\ a \in Uuid
    BY Zenon, VisibleOk, OwnerKnown DEF Visible
  <2>2. /\ charged' = [charged EXCEPT ![a] = 0]
        /\ stacks' = [stacks EXCEPT ![visible[t]].fresh = @ \cup {a}]
    BY Zenon, <1>4 DEF MarkFresh
  <2> HIDE DEF a, st
  <2>3. /\ stacks'[visible[t]].fresh = st.fresh \cup {a}
        /\ \A s \in Stack : s # visible[t] => stacks'[s] = stacks[s]
    BY ZenonT(60), <1>1, <2>1, <2>2 DEF st, StackType
  <2>4. charged'[a] = 0 /\ \A x \in Uuid : x # a => charged'[x] = charged[x]
    BY Zenon, <1>1, <2>1, <2>2
  <2>5. \A s \in Stack : \A x \in stacks'[s].fresh : x = a \/ x \in stacks[s].fresh
    BY ZenonT(60), <2>3 DEF st
  <2>6. \A s \in Stack : \A x \in stacks'[s].fresh : charged'[x] = 0
    BY ZenonT(60), <1>2, <2>4, <2>5 DEF FreshInv
  <2>7. 0 <= 1
    OBVIOUS
  <2>8. \A x \in Uuid : charged'[x] <= 1
    BY Zenon, <2>4, <2>7 DEF FreshInv
  <2> QED BY Zenon, <2>6, <2>8 DEF FreshInv
<1>5. CASE PushWrite(t)
  <2> DEFINE u == call[t].uuid
  <2>1. /\ u \in Uuid /\ charged' = [charged EXCEPT ![u] = 0]
    BY ZenonT(60), <1>5, PushMoves DEF PushWrite, Uuid
  <2>2. \A s \in Stack : \A x \in stacks'[s].fresh : x = u \/ x \in stacks[s].fresh
    BY ZenonT(60), <1>5, PushMoves
  <2> HIDE DEF u
  <2>3. charged'[u] = 0 /\ \A x \in Uuid : x # u => charged'[x] = charged[x]
    BY Zenon, <1>1, <2>1
  <2>4. \A s \in Stack : \A x \in stacks'[s].fresh : charged'[x] = 0
    BY ZenonT(60), <1>2, <2>2, <2>3 DEF FreshInv
  <2>5. 0 <= 1
    OBVIOUS
  <2>6. \A x \in Uuid : charged'[x] <= 1
    BY Zenon, <2>3, <2>5 DEF FreshInv
  <2> QED BY Zenon, <2>4, <2>6 DEF FreshInv
<1>6. CASE PopRemove(t)
  <2>1. charged' = charged
    BY Zenon, <1>6 DEF PopRemove
  <2>2. \A s \in Stack : stacks'[s].fresh \subseteq stacks[s].fresh
    BY ZenonT(60), <1>6, PopMoves
  <2> QED BY Zenon, <2>1, <2>2 DEF FreshInv
<1>7. CASE charged' = charged /\ stacks' = stacks
  BY Zenon, <1>7 DEF FreshInv
<1>8. CASE \E u \in Uuid, f \in Field, n \in Name :
             ScopeRegister(t, u, f, n) \/ ScopeDeregister(t, u, f, n)
  <2>1. charged' = charged
    BY Zenon, <1>8 DEF ScopeRegister, ScopeDeregister
  <2>2. PICK R : stacks' = [stacks EXCEPT ![visible[t]].registries = R]
    BY Zenon, <1>8 DEF ScopeRegister, ScopeDeregister
  <2>3. \A s \in Stack : stacks'[s].fresh = stacks[s].fresh
    BY <1>1, <2>2 DEF StackType
  <2> QED BY Zenon, <2>1, <2>3 DEF FreshInv
<1>9. \/ TakeFreshness(t) \/ MarkFresh(t) \/ PushWrite(t) \/ PopRemove(t)
      \/ \E u \in Uuid, f \in Field, n \in Name :
            ScopeRegister(t, u, f, n) \/ ScopeDeregister(t, u, f, n)
      \/ charged' = charged /\ stacks' = stacks
  BY Zenon DEF Step, Push, CreateHandle, PushSanitizers, PushQueue, Pop, PopSanitizers,
         PopSnapshot, PopRefused, PopQueue, LlmStart, Compaction, Capture, Bind
<1> QED BY Zenon, <1>3, <1>4, <1>5, <1>6, <1>7, <1>8, <1>9

\* LLM starts of threads that share stacks, as long as no stack is forked or
\* copied: take_agent_freshness lets at most one of them keep the full history
\* between the moments its agent is opened or compacted.
THEOREM FreshHistoryOnce ==
    ASSUME ForkStack = {}, CopyStack = {}
    PROVE  Spec => []FreshOnce
<1>1. Init => FreshInv
  <2>1. 0 <= 1
    OBVIOUS
  <2> SUFFICES ASSUME Init PROVE FreshInv
    OBVIOUS
  <2>2. \A u \in Uuid : charged[u] = 0
    BY Zenon DEF Init
  <2>3. \A s \in Stack : stacks[s].fresh \subseteq Uuid
    BY Zenon, InitOpen DEF TypeOK, StackType
  <2> QED BY Zenon, <2>1, <2>2, <2>3 DEF FreshInv
<1>2. TypeOK /\ OpenInv /\ PairInv /\ FreshInv /\ [Next]_vars => FreshInv'
  <2> SUFFICES ASSUME TypeOK, OpenInv, PairInv, FreshInv, [Next]_vars PROVE FreshInv'
    OBVIOUS
  <2>1. CASE UNCHANGED vars
    BY Zenon, <2>1 DEF vars, FreshInv
  <2>2. CASE Next
    BY Zenon, <2>2, FreshStep DEF Next, PairInv
  <2> QED BY Zenon, <2>1, <2>2
<1>3. FreshInv => FreshOnce
  BY Zenon DEF FreshInv, FreshOnce
<1> QED BY <1>1, <1>2, <1>3, OpenAlways, PairAlways, PTL DEF Spec

-----------------------------------------------------------------------------
\* A step of t changes no stack that is open elsewhere.
LEMMA OneStack ==
    ASSUME TypeOK, NEW t \in Thread, Step(t), NEW s \in Stack, s # visible[t], stacks[s].scopes # <<>>
    PROVE  stacks'[s] = stacks[s]
<1>1. stacks \in [Stack -> StackType]
  BY Zenon DEF TypeOK
<1>2. \/ stacks' = stacks
      \/ \E W : stacks' = [stacks EXCEPT ![visible[t]] = W]
      \/ \E R : stacks' = [stacks EXCEPT ![visible[t]].registries = R]
      \/ \E F : stacks' = [stacks EXCEPT ![visible[t]].fresh = F]
      \/ \E w \in Stack : \E W : stacks[w].scopes = <<>> /\ stacks' = [stacks EXCEPT ![w] = W]
  <2>1. ForkStack \subseteq Stack /\ CopyStack \subseteq Stack
    BY Zenon DEF Stack
  <2>2. CASE \/ \E w \in ForkStack, rootless \in BOOLEAN : Import(t, w, rootless)
             \/ \E w \in CopyStack : Isolate(t, w)
    BY ZenonT(60), <2>1, <2>2 DEF Import, Isolate, Created
  <2>3. CASE PushWrite(t) \/ PopRemove(t) \/ TakeFreshness(t)
    BY ZenonT(60), <2>3 DEF PushWrite, PopRemove, TakeFreshness
  <2>4. CASE \/ MarkFresh(t)
             \/ \E u \in Uuid, f \in Field, n \in Name :
                   ScopeRegister(t, u, f, n) \/ ScopeDeregister(t, u, f, n)
    BY ZenonT(60), <2>4 DEF MarkFresh, ScopeRegister, ScopeDeregister
  <2> QED BY ZenonT(60), <2>2, <2>3, <2>4 DEF Step, Push, CreateHandle, PushSanitizers, PushQueue,
             Pop, PopSanitizers, PopSnapshot, PopRefused, PopQueue, LlmStart, Compaction, Capture, Bind
<1> QED BY ZenonT(60), <1>1, <1>2

\* One task at a time on each stack: what another thread sees stays as it is.
LEMMA Apart ==
    ASSUME TypeOK, OpenInv, Unshared, TopInv, NEW t \in Thread, Step(t), NEW v \in Thread, v # t
    PROVE  /\ call'[v] = call[v] /\ visible'[v] = visible[v] /\ visible[v] # visible[t]
           /\ stacks'[visible[v]] = stacks[visible[v]]
<1>1. visible[v] # visible[t]
  BY ZenonT(60) DEF Unshared, TopInv
<1>2. visible[v] \in Stack /\ stacks[visible[v]].scopes # <<>>
  BY ZenonT(60), VisibleOk DEF Visible
<1> QED BY ZenonT(60), <1>1, <1>2, OneStack, OthersKeep

\* A call that has read nothing of the stack that could change.
LEMMA TopFree ==
    ASSUME NEW t \in Thread, call'[t].pc \in {"idle", "llm", "compaction", "pop-queue"}
    PROVE  TopOk(t)'
<1>1. call'[t].pc \notin {"push", "push-write", "capture", "push-sanitizers", "push-queue",
                          "pop-sanitizers", "pop-snapshot", "pop-remove"}
  OBVIOUS
<1> QED BY ZenonT(60), <1>1 DEF TopOk

\* What a call reads of its stack, it reads of the stack it sees.
LEMMA TopSelf ==
    ASSUME TypeOK, OpenInv, TopInv, NEW t \in Thread, Step(t)
    PROVE  visible'[t] \in Reach(t) /\ TopOk(t)'
<1>1. call \in [Thread -> CallType] /\ call[t] \in CallType /\ visible \in [Thread -> Stack]
  BY ZenonT(60) DEF TypeOK
<1>2. TopOk(t) /\ visible[t] \in Reach(t)
  BY Zenon DEF TopInv
<1>3. ASSUME visible' = visible, stacks' = stacks
      PROVE  Visible(t)' = Visible(t) /\ visible'[t] \in Reach(t)
  BY Zenon, <1>2, <1>3 DEF Visible
<1>4. ASSUME NEW agent \in Agents, NEW implicit \in BOOLEAN, NEW p \in Uuid, Push(t, agent, implicit, p)
      PROVE  visible'[t] \in Reach(t) /\ TopOk(t)'
  <2>1. /\ visible' = visible /\ stacks' = stacks /\ (implicit => p = Top(Visible(t)).uuid)
        /\ call' = [call EXCEPT ![t] = [Idle EXCEPT !.pc = "push", !.agent = agent,
                                                    !.implicit = implicit, !.parent = p]]
    BY Zenon, <1>4 DEF Push, ParentChoice
  <2>2. call'[t].pc = "push" /\ call'[t].implicit = implicit /\ call'[t].parent = p
    BY <1>1, <2>1 DEF Idle
  <2> QED BY <1>3, <2>1, <2>2 DEF TopOk
<1>5. ASSUME NEW u \in Scope, CreateHandle(t, u)
      PROVE  visible'[t] \in Reach(t) /\ TopOk(t)'
  <2>1. /\ visible' = visible /\ stacks' = stacks /\ call[t].pc = "push"
        /\ call' = [call EXCEPT ![t].pc = "push-write", ![t].uuid = u,
                                ![t].onTop = Top(Visible(t)).uuid,
                                ![t].subscribers = Local(Visible(t), "subscriber")]
    BY Zenon, <1>5 DEF CreateHandle
  <2>2. /\ call'[t].pc = "push-write" /\ call'[t].implicit = call[t].implicit
        /\ call'[t].parent = call[t].parent /\ call'[t].onTop = Top(Visible(t)).uuid
    BY ZenonT(60), <1>1, <2>1 DEF CallType
  <2>3. call[t].implicit => call[t].parent = Top(Visible(t)).uuid
    BY Zenon, <1>2, <2>1 DEF TopOk
  <2> QED BY <1>3, <2>1, <2>2, <2>3 DEF TopOk
<1>6. CASE PushWrite(t)
  <2> DEFINE st == stacks[visible[t]]
             h == [uuid |-> call[t].uuid, agent |-> call[t].agent]
  <2>1. /\ visible[t] \in Stack /\ st \in StackType /\ st.scopes # <<>> /\ call[t].uuid \in Scope
    BY ZenonT(60), <1>6, VisibleOk, PushMoves DEF Visible
  <2>2. h \in Handle /\ h.uuid = call[t].uuid
    BY ZenonT(60), <1>1, <2>1 DEF Handle, Uuid, CallType
  <2>3. /\ visible' = visible /\ stacks' = [stacks EXCEPT ![visible[t]] = Pushed(st, h)]
        /\ call' = [call EXCEPT ![t].pc = "push-sanitizers"]
    BY Zenon, <1>6 DEF PushWrite
  <2> HIDE DEF h
  <2>4. Visible(t)' = Pushed(st, h)
    BY ZenonT(60), <2>1, <2>3 DEF TypeOK, Visible
  <2>5. Top(Pushed(st, h)).uuid = call[t].uuid
    <3>1. Len(Pushed(st, h).scopes) = Len(st.scopes) + 1 /\ Pushed(st, h).scopes[Len(st.scopes) + 1] = h
      BY Zenon, <2>1, <2>2, PushedOk
    <3> QED BY Zenon, <2>2, <3>1 DEF Top
  <2>6. call'[t].pc = "push-sanitizers" /\ call'[t].uuid = call[t].uuid
    BY Zenon, <1>6, PushMoves
  <2>7. visible'[t] \in Reach(t)
    BY Zenon, <1>2, <2>3
  <2> QED BY <2>4, <2>5, <2>6, <2>7 DEF TopOk
<1>7. CASE PushSanitizers(t)
  <2>1. /\ visible' = visible /\ stacks' = stacks /\ call[t].pc = "push-sanitizers"
        /\ call' = [call EXCEPT ![t].pc = "push-queue",
                                ![t].sanitizers = Local(Visible(t), "sanitizer")]
    BY Zenon, <1>7 DEF PushSanitizers
  <2>2. call'[t].pc = "push-queue" /\ call'[t].uuid = call[t].uuid
    BY ZenonT(60), <1>1, <2>1 DEF CallType
  <2>3. call[t].uuid = Top(Visible(t)).uuid
    BY Zenon, <1>2, <2>1 DEF TopOk
  <2> QED BY <1>3, <2>1, <2>2, <2>3 DEF TopOk
<1>8. ASSUME NEW u \in Uuid, Pop(t, u)
      PROVE  visible'[t] \in Reach(t) /\ TopOk(t)'
  <2>1. /\ visible' = visible /\ stacks' = stacks /\ Top(Visible(t)).uuid = u
        /\ call' = [call EXCEPT ![t] = [Idle EXCEPT !.pc = "pop-sanitizers", !.uuid = u,
                                            !.subscribers = Local(Visible(t), "subscriber")]]
    BY Zenon, <1>8 DEF Pop
  <2>2. call'[t].pc = "pop-sanitizers" /\ call'[t].uuid = u
    BY <1>1, <2>1 DEF Idle
  <2> QED BY <1>3, <2>1, <2>2 DEF TopOk
<1>9. CASE PopSanitizers(t)
  <2>1. /\ visible' = visible /\ stacks' = stacks /\ call[t].pc = "pop-sanitizers"
        /\ call' = [call EXCEPT ![t].pc = "pop-snapshot",
                                ![t].sanitizers = Local(Visible(t), "sanitizer")]
    BY Zenon, <1>9 DEF PopSanitizers
  <2>2. call'[t].pc = "pop-snapshot" /\ call'[t].uuid = call[t].uuid
    BY ZenonT(60), <1>1, <2>1 DEF CallType
  <2>3. call[t].uuid = Top(Visible(t)).uuid
    BY Zenon, <1>2, <2>1 DEF TopOk
  <2> QED BY <1>3, <2>1, <2>2, <2>3 DEF TopOk
<1>10. CASE PopSnapshot(t)
  <2>1. /\ visible' = visible /\ stacks' = stacks /\ call[t].pc = "pop-snapshot"
        /\ call' = [call EXCEPT ![t].pc = "pop-remove", ![t].root = EventRoot(Visible(t))]
    BY Zenon, <1>10 DEF PopSnapshot
  <2>2. /\ call'[t].pc = "pop-remove" /\ call'[t].uuid = call[t].uuid
        /\ call'[t].root = EventRoot(Visible(t))
    BY ZenonT(60), <1>1, <2>1 DEF CallType
  <2>3. call[t].uuid = Top(Visible(t)).uuid
    BY Zenon, <1>2, <2>1 DEF TopOk
  <2> QED BY <1>3, <2>1, <2>2, <2>3 DEF TopOk
<1>11. ASSUME NEW p \in Uuid, Capture(t, p)
       PROVE  visible'[t] \in Reach(t) /\ TopOk(t)'
  <2>1. /\ visible' = visible /\ stacks' = stacks /\ p \in Managed \cup {Top(Visible(t)).uuid}
        /\ call' = [call EXCEPT ![t] = [Idle EXCEPT !.pc = "capture", !.parent = p]]
    BY Zenon, <1>11 DEF Capture
  <2>2. call'[t].pc = "capture" /\ call'[t].parent = p
    BY <1>1, <2>1 DEF Idle
  <2> QED BY <1>3, <2>1, <2>2 DEF TopOk
<1>12. CASE \/ \E implicit \in BOOLEAN, p \in Uuid : LlmStart(t, implicit, p)
            \/ \E implicit \in BOOLEAN, p \in Uuid : Compaction(t, implicit, p)
  <2>1. visible' = visible /\ call'[t].pc \in {"llm", "compaction"}
    <3>1. ASSUME NEW implicit \in BOOLEAN, NEW p \in Uuid, LlmStart(t, implicit, p)
          PROVE  visible' = visible /\ call'[t].pc = "llm"
      BY <1>1, <3>1 DEF LlmStart, Idle
    <3>2. ASSUME NEW implicit \in BOOLEAN, NEW p \in Uuid, Compaction(t, implicit, p)
          PROVE  visible' = visible /\ call'[t].pc = "compaction"
      BY <1>1, <3>2 DEF Compaction, Idle
    <3> QED BY Zenon, <1>12, <3>1, <3>2
  <2> QED BY Zenon, <1>2, <2>1, TopFree
<1>13. CASE \/ PushQueue(t) \/ PopRefused(t) \/ PopQueue(t) \/ TakeFreshness(t) \/ MarkFresh(t)
            \/ \E s \in ForkStack, rootless \in BOOLEAN : Import(t, s, rootless)
            \/ \E s \in CopyStack : Isolate(t, s)
            \/ \E u \in Uuid, f \in Field, n \in Name :
                  ScopeRegister(t, u, f, n) \/ ScopeDeregister(t, u, f, n)
  <2>1. visible' = visible /\ call'[t].pc = "idle"
    BY ZenonT(60), <1>1, <1>13, IdleOk DEF PushQueue, PopRefused, PopQueue, TakeFreshness, MarkFresh,
       Import, Isolate, ScopeRegister, ScopeDeregister
  <2> QED BY Zenon, <1>2, <2>1, TopFree
<1>14. ASSUME NEW s \in Stack, Bind(t, s)
       PROVE  visible'[t] \in Reach(t) /\ TopOk(t)'
  <2>1. visible'[t] = s /\ call'[t].pc = "idle" /\ <<t, s>> \in MayBind
    BY ZenonT(60), <1>1, <1>14, IdleOk DEF Bind
  <2> QED BY Zenon, <2>1, TopFree DEF Reach
<1>15. CASE PopRemove(t)
  <2>1. visible' = visible /\ call'[t].pc = "pop-queue"
    BY Zenon, <1>15, PopMoves DEF PopRemove
  <2> QED BY Zenon, <1>2, <2>1, TopFree
<1> QED BY ZenonT(60), <1>4, <1>5, <1>6, <1>7, <1>8, <1>9, <1>10, <1>11, <1>12, <1>13, <1>14, <1>15 DEF Step

\* Where no two threads use one stack, what a call has read stays true.
LEMMA TopStep ==
    ASSUME TypeOK, OpenInv, Unshared, TopInv, NEW t \in Thread, Step(t)
    PROVE  TopInv'
<1> SUFFICES ASSUME NEW v \in Thread PROVE visible'[v] \in Reach(v) /\ TopOk(v)'
  BY Zenon DEF TopInv, Reach
<1>1. CASE v = t
  BY Zenon, <1>1, TopSelf
<1>2. CASE v # t
  <2>1. call'[v] = call[v] /\ visible'[v] = visible[v] /\ Visible(v)' = Visible(v)
    BY Zenon, <1>2, Apart DEF Visible
  <2>2. TopOk(v) /\ visible[v] \in Reach(v)
    BY Zenon DEF TopInv
  <2> QED BY ZenonT(60), <2>1, <2>2 DEF TopOk
<1> QED BY Zenon, <1>1, <1>2

\* What a call has read of its stack is so in every state.
LEMMA TopAlways ==
    ASSUME Unshared
    PROVE  Spec => []TopInv
<1>1. Init => TopInv
  <2> SUFFICES ASSUME Init, NEW t \in Thread PROVE visible[t] \in Reach(t) /\ TopOk(t)
    BY Zenon DEF TopInv
  <2>1. visible[t] \in Reach(t) /\ call[t].pc = "idle"
    BY ZenonT(60), IdleOk DEF Init, Reach
  <2> QED BY <2>1 DEF TopOk
<1>2. TypeOK /\ OpenInv /\ TopInv /\ [Next]_vars => TopInv'
  <2> SUFFICES ASSUME TypeOK, OpenInv, TopInv, [Next]_vars PROVE TopInv'
    OBVIOUS
  <2>1. CASE UNCHANGED vars
    <3>1. stacks' = stacks /\ visible' = visible /\ call' = call
      BY Zenon, <2>1 DEF vars
    <3> QED BY ZenonT(60), <3>1 DEF TopInv, TopOk, Visible
  <2>2. CASE Next
    BY Zenon, <2>2, TopStep DEF Next
  <2> QED BY Zenon, <2>1, <2>2
<1> QED BY <1>1, <1>2, OpenAlways, PTL DEF Spec

\* With one task at a time on each stack, whatever it forks or copies, the
\* parent push_scope reads under one lock is on top when the handle is created
\* under the next.
THEOREM ParentsOnTop ==
    ASSUME Unshared
    PROVE  Spec => []ParentOnTop
<1>1. TopInv => ParentOnTop
  BY ZenonT(60) DEF TopInv, TopOk, ParentOnTop
<1> QED BY <1>1, TopAlways, PTL

-----------------------------------------------------------------------------
\* What was pushed stays so.
LEMMA SeenStays ==
    ASSUME TypeOK, OpenInv, NEW t \in Thread, Step(t), NEW u, Seen(u)
    PROVE  Seen(u)'
<1>1. \A v \in Thread : v # t => call'[v] = call[v]
  BY Zenon, OthersKeep
<1>2. /\ minted \subseteq minted'
      /\ call'[t].pc = "push-write" => call'[t].uuid \notin minted
  <2>1. ASSUME NEW x \in Scope, CreateHandle(t, x)
        PROVE  minted \subseteq minted' /\ call'[t].uuid \notin minted
    BY Zenon, <2>1, MintMoves
  <2>2. CASE PushWrite(t)
    BY <2>2, PushMoves
  <2>3. CASE PushQueue(t) \/ PopQueue(t)
    BY <2>3, QueueMoves
  <2>4. CASE PopRemove(t)
    BY <2>4, PopMoves
  <2>5. CASE \/ \E s \in ForkStack, rootless \in BOOLEAN : Import(t, s, rootless)
             \/ \E s \in CopyStack : Isolate(t, s)
    <3>1. minted' = minted /\ call'[t].pc = "idle"
      BY ZenonT(60), <2>5, IdleOk DEF Import, Isolate, TypeOK
    <3> QED BY <3>1
  <2>6. CASE Quiet(t)
    BY Zenon, <2>6 DEF Quiet
  <2> QED BY ZenonT(60), <2>1, <2>2, <2>3, <2>4, <2>5, <2>6, Kinds
<1> QED BY ZenonT(60), <1>1, <1>2 DEF Seen

\* A step that changes the last scope of the stack t sees, from st to W.
Written(t, st, W) ==
    /\ visible[t] \in Stack /\ st \in StackType /\ st.scopes # <<>> /\ W.scopes # <<>>
    /\ st = stacks[visible[t]] /\ W = stacks'[visible[t]]
    /\ Len(st.scopes) \in Nat \ {0} /\ Len(W.scopes) \in Nat \ {0}
    /\ W.root = st.root /\ W.parent = st.parent /\ W.rootless = st.rootless
    /\ \A i \in 1 .. Len(W.scopes) : i \in 1 .. Len(st.scopes) => W.scopes[i] = st.scopes[i]
    /\ PushWrite(t) => /\ Len(W.scopes) = Len(st.scopes) + 1
                       /\ W.scopes[Len(W.scopes)].uuid = call[t].uuid
    /\ PopRemove(t) => /\ Len(W.scopes) = Len(st.scopes) - 1
                       /\ st.scopes[Len(st.scopes)].uuid = call[t].uuid
    /\ \A s \in Stack : s # visible[t] => stacks'[s] = stacks[s]
    /\ visible' = visible /\ minted' = minted /\ starts' = starts /\ rootOf' = rootOf

\* task_scope_push and task_scope_remove are such steps.
LEMMA WriteShape ==
    ASSUME TypeOK, OpenInv, NEW t \in Thread, PushWrite(t) \/ PopRemove(t)
    PROVE  \E st, W : Written(t, st, W)
<1>0. PICK st, W : st = stacks[visible[t]] /\ W = stacks'[visible[t]]
  BY Zenon
<1>1. visible[t] \in Stack /\ st \in StackType /\ st.scopes # <<>>
  BY ZenonT(60), <1>0, VisibleOk DEF Visible
<1>2. Len(st.scopes) \in Nat \ {0}
  BY <1>1, StackFields
<1>3. visible' = visible /\ minted' = minted /\ starts' = starts /\ rootOf' = rootOf
  BY Zenon DEF PushWrite, PopRemove
<1>4. CASE PushWrite(t)
  <2> DEFINE h == [uuid |-> call[t].uuid, agent |-> call[t].agent]
  <2>1. call[t].uuid \in Scope /\ call[t] \in CallType /\ ~PopRemove(t)
    <3>1. call[t].pc = "push-write" /\ call[t].uuid \in Scope
      BY Zenon, <1>4, PushMoves
    <3>2. ~PopRemove(t)
      BY <3>1 DEF PopRemove
    <3> QED BY Zenon, <3>1, <3>2 DEF TypeOK
  <2>2. h \in Handle /\ h.uuid = call[t].uuid
    BY ZenonT(60), <2>1 DEF Handle, Uuid, CallType
  <2>3. stacks' = [stacks EXCEPT ![visible[t]] = Pushed(stacks[visible[t]], h)]
    BY Zenon, <1>4 DEF PushWrite
  <2> HIDE DEF h
  <2>4. W = Pushed(st, h) /\ \A s \in Stack : s # visible[t] => stacks'[s] = stacks[s]
    BY ZenonT(60), <1>0, <1>1, <2>3 DEF TypeOK
  <2>5. W.root = st.root /\ W.parent = st.parent /\ W.rootless = st.rootless
    BY <1>1, <2>4 DEF Pushed, StackType
  <2>6. /\ Len(W.scopes) = Len(st.scopes) + 1 /\ W.scopes[Len(st.scopes) + 1] = h /\ W.scopes # <<>>
        /\ \A i \in 1 .. Len(st.scopes) : W.scopes[i] = st.scopes[i]
    <3>1. st \in StackType /\ h \in Handle /\ st.scopes # <<>>
      BY Zenon, <1>1, <2>2
    <3>2. /\ Len(Pushed(st, h).scopes) = Len(st.scopes) + 1
          /\ Pushed(st, h).scopes[Len(st.scopes) + 1] = h
          /\ \A i \in 1 .. Len(st.scopes) : Pushed(st, h).scopes[i] = st.scopes[i]
      BY Zenon, <3>1, PushedOk
    <3>3. Pushed(st, h).scopes # <<>>
      BY Zenon, <3>1, PushedOpen
    <3> QED BY Zenon, <2>4, <3>2, <3>3
  <2>7. Len(W.scopes) \in Nat \ {0}
    BY <1>2, <2>6
  <2>8. W.scopes[Len(W.scopes)].uuid = call[t].uuid
    BY Zenon, <2>2, <2>6
  <2>9. Written(t, st, W)
    BY Zenon, <1>0, <1>1, <1>2, <1>3, <2>8, <2>1, <2>2, <2>4, <2>5, <2>6, <2>7 DEF Written
  <2> QED BY Zenon, <2>9
<1>5. CASE PopRemove(t)
  <2>1. /\ ~PushWrite(t) /\ Removable(st, call[t].uuid)
        /\ stacks' = [stacks EXCEPT ![visible[t]] = Removed(stacks[visible[t]], call[t].uuid)]
    <3>1. call[t].pc = "pop-remove"
      BY Zenon, <1>5 DEF PopRemove
    <3>2. ~PushWrite(t)
      BY <3>1 DEF PushWrite
    <3> QED BY Zenon, <1>0, <1>5, <3>2 DEF PopRemove, Visible
  <2>2. W = Removed(st, call[t].uuid) /\ \A s \in Stack : s # visible[t] => stacks'[s] = stacks[s]
    BY ZenonT(60), <1>0, <1>1, <2>1 DEF TypeOK
  <2>3. W.root = st.root /\ W.parent = st.parent /\ W.rootless = st.rootless
    BY <1>1, <2>2 DEF Removed, StackType
  <2>4. /\ Len(W.scopes) = Len(st.scopes) - 1 /\ Len(st.scopes) > 1 /\ W.scopes # <<>>
        /\ st.scopes[Len(st.scopes)].uuid = call[t].uuid
        /\ \A i \in 1 .. Len(st.scopes) - 1 : W.scopes[i] = st.scopes[i]
    <3>1. st \in StackType /\ Removable(st, call[t].uuid) /\ st.scopes # <<>>
      BY Zenon, <1>1, <2>1
    <3> DEFINE u == call[t].uuid
               R == Removed(st, u)
    <3> HIDE DEF u
    <3>2. /\ Len(R.scopes) = Len(st.scopes) - 1 /\ Len(st.scopes) > 1
          /\ st.scopes[Len(st.scopes)].uuid = u
          /\ \A i \in 1 .. Len(st.scopes) - 1 : R.scopes[i] = st.scopes[i]
      BY SMTT(60), <3>1, RemovedOk DEF u
    <3>3. R.scopes # <<>>
      BY ZenonT(60), <3>1, RemovedOpen DEF u
    <3> QED BY ZenonT(60), <2>2, <3>2, <3>3 DEF u
  <2>5. Len(W.scopes) \in Nat \ {0}
    BY <1>2, <2>4
  <2>6. \A i \in 1 .. Len(W.scopes) : i \in 1 .. Len(st.scopes) => W.scopes[i] = st.scopes[i]
    BY Zenon, <2>4
  <2>7. Written(t, st, W)
    BY Zenon, <1>0, <1>1, <1>2, <1>3, <2>6, <2>1, <2>2, <2>3, <2>4, <2>5 DEF Written
  <2> QED BY Zenon, <2>7
<1> QED BY Zenon, <1>4, <1>5

\* The root at the bottom, and the parent above it unless it is the root.
Forked(W, root, p) ==
    /\ W.root = root /\ W.rootless = (root = None) /\ W.scopes # <<>>
    /\ W.parent = IF root = None THEN None ELSE p
    /\ root # None => W.scopes[1].uuid = root
    /\ Len(W.scopes) \in {1, 2}
    /\ Len(W.scopes) = 2 => root # None /\ W.scopes[2].uuid = p
    /\ \A u \in OnStack(W) : u = p \/ (u = root /\ root # None)

\* ScopeStack::from_propagation makes such a stack.
LEMMA ForkShape ==
    ASSUME NEW root, NEW p
    PROVE  Forked(FromPropagation(root, p), root, p)
<1>0. PICK W : W = FromPropagation(root, p)
  BY Zenon
<1> SUFFICES Forked(W, root, p)
  BY Zenon, <1>0
<1> DEFINE bottom == [uuid |-> IF root = None THEN p ELSE root, agent |-> TRUE]
           below == [uuid |-> p, agent |-> FALSE]
<1>1. /\ W.scopes = IF root = None \/ root = p THEN <<bottom>> ELSE <<bottom, below>>
      /\ W.root = root /\ W.rootless = (root = None)
      /\ W.parent = IF root = None THEN None ELSE p
  BY Zenon, <1>0 DEF FromPropagation
<1>2. /\ bottom.uuid = IF root = None THEN p ELSE root
      /\ below.uuid = p
  OBVIOUS
<1> HIDE DEF bottom, below
<1>3. CASE root = None \/ root = p
  <2>1. W.scopes = <<bottom>>
    BY Zenon, <1>1, <1>3
  <2>2. Len(W.scopes) = 1 /\ W.scopes[1] = bottom /\ W.scopes # <<>>
    BY <2>1
  <2>3. \A u \in OnStack(W) : u = bottom.uuid
    BY <2>2 DEF OnStack
  <2> QED BY <1>1, <1>2, <1>3, <2>2, <2>3 DEF Forked
<1>4. CASE ~(root = None \/ root = p)
  <2>1. W.scopes = <<bottom, below>>
    BY Zenon, <1>1, <1>4
  <2>2. Len(W.scopes) = 2 /\ W.scopes[1] = bottom /\ W.scopes[2] = below /\ W.scopes # <<>>
    BY <2>1
  <2>3. \A u \in OnStack(W) : u = bottom.uuid \/ u = below.uuid
    BY <2>2 DEF OnStack
  <2> QED BY <1>1, <1>2, <1>4, <2>2, <2>3 DEF Forked
<1> QED BY Zenon, <1>3, <1>4

\* create_scope_stack_from_propagation, or MiddlewareContinuationContext::isolated.
Fills(t, s) ==
    \/ s \in ForkStack /\ \E rootless \in BOOLEAN : Import(t, s, rootless)
    \/ s \in CopyStack /\ Isolate(t, s)

\* What they do.
Filled(t, s) ==
    /\ stacks[s].scopes = <<>> /\ s # visible[t] /\ visible[t] \in Stack
    /\ \A w \in Stack : w # s => stacks'[w] = stacks[w]
    /\ s \in CopyStack => s \notin ForkStack /\ stacks'[s] = stacks[visible[t]]
    /\ s \in ForkStack =>
          /\ call[t].pc = "capture" /\ call[t].parent \in Uuid
          /\ \E root \in {None, EventRoot(stacks[visible[t]])} :
                stacks'[s] = FromPropagation(root, call[t].parent)
    /\ ~Opens(call[t]) /\ call[t].pc # "pop-queue" /\ call'[t].pc = "idle"
    /\ visible' = visible /\ minted' = minted /\ starts' = starts /\ rootOf' = rootOf

\* They fill one stack that was not open yet, and change nothing else.
LEMMA FillShape ==
    ASSUME TypeOK, OpenInv, NEW t \in Thread, NEW s \in Stack, Fills(t, s)
    PROVE  Filled(t, s)
<1>1. stacks \in [Stack -> StackType] /\ call \in [Thread -> CallType] /\ call[t] \in CallType
  BY ZenonT(60) DEF TypeOK
<1>2. visible[t] \in Stack /\ stacks[visible[t]].scopes # <<>>
  BY ZenonT(60), VisibleOk DEF Visible
<1>3. ForkStack \cap CopyStack = {}
  BY Zenon, StackAssumption
<1>4. /\ stacks[s].scopes = <<>> /\ call[t].pc \in {"idle", "capture"} /\ call'[t].pc = "idle"
      /\ visible' = visible /\ minted' = minted /\ starts' = starts /\ rootOf' = rootOf
  BY ZenonT(60), <1>1, IdleOk DEF Fills, Import, Isolate, Created
<1>5. ~Opens(call[t]) /\ call[t].pc # "pop-queue"
  BY <1>4 DEF Opens
<1>6. s # visible[t]
  BY Zenon, <1>2, <1>4
<1>7. CASE s \in ForkStack
  <2>1. PICK rootless \in BOOLEAN : Import(t, s, rootless)
    BY Zenon, <1>3, <1>7 DEF Fills
  <2>2. /\ call[t].pc = "capture"
        /\ stacks' = [stacks EXCEPT ![s] =
              FromPropagation(IF rootless THEN None ELSE EventRoot(stacks[visible[t]]), call[t].parent)]
    BY Zenon, <2>1 DEF Import, Visible
  <2>3. call[t].parent \in Uuid
    BY ZenonT(60), <1>1, <2>2 DEF OpenInv, CallInv, CallOk, CallType
  <2>4. \E root \in {None, EventRoot(stacks[visible[t]])} :
           stacks' = [stacks EXCEPT ![s] = FromPropagation(root, call[t].parent)]
    BY Zenon, <2>2
  <2>5. \E root \in {None, EventRoot(stacks[visible[t]])} :
           stacks'[s] = FromPropagation(root, call[t].parent)
    BY ZenonT(60), <1>1, <2>4
  <2>6. \A w \in Stack : w # s => stacks'[w] = stacks[w]
    BY ZenonT(60), <1>1, <2>2
  <2> QED BY ZenonT(60), <1>2, <1>3, <1>4, <1>5, <1>6, <1>7, <2>2, <2>3, <2>5, <2>6 DEF Filled
<1>8. CASE s \in CopyStack
  <2>1. stacks' = [stacks EXCEPT ![s] = stacks[visible[t]]]
    BY Zenon, <1>3, <1>8 DEF Fills, Isolate, Visible
  <2>2. stacks'[s] = stacks[visible[t]] /\ \A w \in Stack : w # s => stacks'[w] = stacks[w]
    BY ZenonT(60), <1>1, <2>1
  <2> QED BY ZenonT(60), <1>2, <1>3, <1>4, <1>5, <1>6, <1>8, <2>2 DEF Filled
<1> QED BY Zenon, <1>7, <1>8 DEF Fills

\* Every step keeps what is at the bottom.
LEMMA BottomStep ==
    ASSUME TypeOK, OpenInv, BottomInv, NEW t \in Thread, Step(t)
    PROVE  BottomInv'
<1> DEFINE Ok(st) ==
      /\ st.scopes # <<>> /\ st.root # None => st.scopes[1].uuid = st.root
      /\ st.scopes # <<>> /\ st.root = None /\ ~st.rootless => st.scopes[1].uuid \in OwnStack
<1>1. \A s \in Stack : Ok(stacks[s]) /\ (stacks[s].parent # None => Seen(stacks[s].parent))
  BY Zenon DEF BottomInv, Created
<1> SUFFICES ASSUME NEW s \in Stack, NEW p, p = stacks'[s].parent
             PROVE  Ok(stacks'[s]) /\ (p # None => Seen(p)')
  BY ZenonT(60) DEF BottomInv, Created, Seen
<1>2. \A u : Seen(u) => Seen(u)'
  BY Zenon, SeenStays
<1>3. ASSUME NEW w \in Stack,
             \/ stacks'[s] = stacks[w]
             \/ /\ stacks'[s].root = stacks[w].root /\ stacks'[s].parent = stacks[w].parent
                /\ stacks'[s].rootless = stacks[w].rootless
                /\ \/ stacks'[s].scopes = stacks[w].scopes
                   \/ stacks[w].scopes # <<>> /\ stacks'[s].scopes[1] = stacks[w].scopes[1]
      PROVE  Ok(stacks'[s]) /\ (p # None => Seen(p)')
  <2>1. Ok(stacks'[s])
    BY Zenon, <1>1, <1>3
  <2>2. p = stacks[w].parent
    BY Zenon, <1>3
  <2>3. p # None => Seen(p)
    BY Zenon, <1>1, <2>2
  <2> QED BY Zenon, <1>2, <2>1, <2>3
<1> HIDE DEF Ok
<1>4. ASSUME NEW u \in Scope, CreateHandle(t, u)
      PROVE  Ok(stacks'[s]) /\ (p # None => Seen(p)')
  BY Zenon, <1>3, <1>4, MintMoves
<1>5. CASE PushQueue(t) \/ PopQueue(t)
  BY Zenon, <1>3, <1>5, QueueMoves
<1>6. CASE Quiet(t)
  BY Zenon, <1>3, <1>6 DEF Quiet
<1>7. CASE PushWrite(t) \/ PopRemove(t)
  <2>1. PICK st, W : Written(t, st, W)
    BY Zenon, <1>7, WriteShape
  <2>2. W.scopes[1] = st.scopes[1]
    BY <2>1 DEF Written
  <2> QED BY Zenon, <1>3, <2>1, <2>2 DEF Written
<1>8. ASSUME NEW w \in Stack, Fills(t, w)
      PROVE  Ok(stacks'[s]) /\ (p # None => Seen(p)')
  <2>0. Filled(t, w)
    BY Zenon, <1>8, FillShape
  <2>1. CASE s # w
    BY Zenon, <1>3, <2>0, <2>1 DEF Filled
  <2>2. CASE s = w /\ s \in CopyStack
    <3>1. stacks'[s] = stacks[visible[t]] /\ visible[t] \in Stack
      BY Zenon, <2>0, <2>2 DEF Filled
    <3> QED BY Zenon, <1>3, <3>1
  <2>3. CASE s = w /\ s \in ForkStack
    <3>1. PICK root : stacks'[s] = FromPropagation(root, call[t].parent)
      BY Zenon, <2>0, <2>3 DEF Filled
    <3>2. Forked(stacks'[s], root, call[t].parent)
      BY Zenon, <3>1, ForkShape
    <3>3. call[t].parent # None => Seen(call[t].parent)
      BY Zenon DEF OpenInv, SeenInv
    <3>4. p # None => Seen(p)
      BY Zenon, <3>2, <3>3 DEF Forked
    <3>5. Ok(stacks'[s])
      BY Zenon, <3>2 DEF Ok, Forked
    <3> QED BY Zenon, <1>2, <3>4, <3>5
  <2> QED BY Zenon, <1>8, <2>1, <2>2, <2>3 DEF Fills
<1> QED BY ZenonT(60), <1>4, <1>5, <1>6, <1>7, <1>8, Kinds DEF Stack, Fills

\* A fork of the stack t sees names what was on it, its root, or a managed call.
LEMMA ForkNames ==
    ASSUME TypeOK, OpenInv, TopInv, NEW t \in Thread, NEW s \in ForkStack, Filled(t, s),
           NEW st, st = stacks[visible[t]]
    PROVE  \E root \in {None, EventRoot(st)} :
              /\ Forked(stacks'[s], root, call[t].parent)
              /\ root = None \/ root \in OnStack(st) \/ root = st.root
              /\ call[t].parent \in Managed \cup {Top(st).uuid}
              /\ Top(st).uuid \in OnStack(st)
<1>1. st \in StackType /\ st.scopes # <<>> /\ Visible(t) = st
  BY ZenonT(60), VisibleOk DEF Visible
<1>2. PICK root \in {None, EventRoot(st)} : stacks'[s] = FromPropagation(root, call[t].parent)
  BY Zenon DEF Filled
<1>3. Forked(stacks'[s], root, call[t].parent)
  BY Zenon, <1>2, ForkShape
<1>4. EventRoot(st) \in OnStack(st) \/ EventRoot(st) = st.root \/ EventRoot(st) = None
  BY Zenon, <1>1, EventRootOk
<1>5. call[t].parent \in Managed \cup {Top(st).uuid}
  BY Zenon, <1>1 DEF Filled, TopInv, TopOk
<1>6. Top(st).uuid \in OnStack(st)
  BY Zenon, <1>1, StackFields
<1> QED BY Zenon, <1>2, <1>3, <1>4, <1>5, <1>6

\* Every step keeps a scope whose start event is still to be queued to itself.
LEMMA UnqueuedStep ==
    ASSUME TypeOK, OpenInv, Unshared, TopInv, BottomInv, StartInv, UnqueuedInv, NEW t \in Thread, Step(t)
    PROVE  UnqueuedInv'
<1> SUFFICES ASSUME NEW v \in Thread, Opens(call'[v]), NEW u, u = call'[v].uuid
             PROVE  /\ \A s \in Stack : u \in OnStack(stacks'[s]) => s = visible'[v]
                    /\ \A s \in Stack : stacks'[s].root # u /\ stacks'[s].parent # u
                    /\ \A w \in Thread : call'[w].pc = "pop-queue" => call'[w].uuid # u
  BY ZenonT(60) DEF UnqueuedInv, Opens
<1>1. ASSUME Opens(call[v]), call[v].uuid = u
      PROVE  /\ \A s \in Stack : u \in OnStack(stacks[s]) => s = visible[v]
             /\ \A s \in Stack : stacks[s].root # u /\ stacks[s].parent # u
             /\ \A w \in Thread : call[w].pc = "pop-queue" => call[w].uuid # u
  BY Zenon, <1>1 DEF UnqueuedInv
<1>2. /\ \A w \in Thread : w # t => call'[w] = call[w] /\ visible'[w] = visible[w]
      /\ v # t => Opens(call[v]) /\ call[v].uuid = u
      /\ v # t => visible[v] # visible[t]
  BY Zenon, Apart
<1>3. visible[t] \in Stack
  BY Zenon, VisibleOk
<1>4. ASSUME v # t, call'[t].pc = "pop-queue" => call'[t].uuid # u,
             \A s \in Stack : /\ u \in OnStack(stacks'[s]) => u \in OnStack(stacks[s])
                              /\ stacks'[s].root # u /\ stacks'[s].parent # u
      PROVE  /\ \A s \in Stack : u \in OnStack(stacks'[s]) => s = visible'[v]
             /\ \A s \in Stack : stacks'[s].root # u /\ stacks'[s].parent # u
             /\ \A w \in Thread : call'[w].pc = "pop-queue" => call'[w].uuid # u
  BY ZenonT(60), <1>1, <1>2, <1>4
<1> DEFINE Goal == /\ \A s \in Stack : u \in OnStack(stacks'[s]) => s = visible'[v]
                   /\ \A s \in Stack : stacks'[s].root # u /\ stacks'[s].parent # u
                   /\ \A w \in Thread : call'[w].pc = "pop-queue" => call'[w].uuid # u
<1>5. ASSUME NEW x \in Scope, CreateHandle(t, x) PROVE Goal
  <2>1. /\ call'[t].pc = "push-write" /\ call'[t].uuid = x /\ x \notin minted /\ stacks' = stacks
    BY Zenon, <1>5, MintMoves
  <2>2. call'[t].pc # "pop-queue"
    BY <2>1
  <2>3. CASE v = t
    <3>1. u = x /\ ~Seen(u) /\ u # None
      BY ZenonT(60), <2>1, <2>3, UuidAssumption DEF Seen, Uuid
    <3>2. /\ \A s \in Stack : u \notin OnStack(stacks[s])
          /\ \A s \in Stack : stacks[s].root # u /\ stacks[s].parent # u
      BY ZenonT(60), <3>1 DEF OpenInv, SeenInv, BottomInv
    <3>3. \A w \in Thread : call[w].pc = "pop-queue" => call[w].uuid # u
      BY ZenonT(60), <3>1 DEF OpenInv, SeenInv, CallInv, CallOk
    <3> QED BY ZenonT(60), <1>2, <2>1, <2>2, <3>2, <3>3
  <2>4. CASE v # t
    BY ZenonT(60), <1>1, <1>2, <1>4, <2>1, <2>2, <2>4
  <2> QED BY Zenon, <2>3, <2>4
<1>6. CASE PushWrite(t)
  <2>1. PICK st, W : Written(t, st, W)
    BY ZenonT(60), <1>6, WriteShape
  <2>2. /\ Opens(call[t]) /\ call'[t].pc # "pop-queue" /\ call'[t].uuid = call[t].uuid
        /\ OnStack(W) = OnStack(st) \cup {call[t].uuid}
    BY ZenonT(60), <1>6, <2>1, PushMoves DEF Opens, Written
  <2>3. \A s \in Stack : /\ stacks'[s].root = stacks[s].root /\ stacks'[s].parent = stacks[s].parent
                         /\ OnStack(stacks'[s]) \subseteq OnStack(stacks[s]) \cup {call[t].uuid}
                         /\ s # visible[t] => OnStack(stacks'[s]) = OnStack(stacks[s])
    BY ZenonT(60), <2>1, <2>2 DEF Written
  <2>4. CASE v = t
    <3>1. visible'[t] = visible[t]
      BY Zenon, <2>1 DEF Written
    <3> QED BY ZenonT(60), <1>1, <1>2, <2>2, <2>3, <2>4, <3>1
  <2>5. CASE v # t
    <3>1. u # call[t].uuid
      BY Zenon, <1>2, <2>2, <2>5 DEF StartInv
    <3> QED BY ZenonT(60), <1>1, <1>2, <1>4, <2>2, <2>3, <2>5, <3>1
  <2> QED BY Zenon, <2>4, <2>5
<1>7. CASE PopRemove(t)
  <2>1. PICK st, W : Written(t, st, W)
    BY ZenonT(60), <1>7, WriteShape
  <2>2. /\ ~Opens(call'[t]) /\ call'[t].uuid = call[t].uuid
        /\ call[t].uuid \in OnStack(stacks[visible[t]])
        /\ OnStack(W) \subseteq OnStack(st)
    BY ZenonT(60), <1>7, <2>1, PopMoves DEF Opens, Written
  <2>3. \A s \in Stack : /\ stacks'[s].root = stacks[s].root /\ stacks'[s].parent = stacks[s].parent
                         /\ OnStack(stacks'[s]) \subseteq OnStack(stacks[s])
    BY ZenonT(60), <2>1, <2>2 DEF Written
  <2>4. v # t
    BY Zenon, <2>2
  <2>5. call'[t].uuid # u
    BY Zenon, <1>1, <1>2, <1>3, <2>2, <2>4
  <2> QED BY ZenonT(60), <1>1, <1>2, <1>4, <2>3, <2>4, <2>5
<1>8. CASE PushQueue(t) \/ PopQueue(t)
  <2>1. call'[t].pc # "pop-queue" /\ ~Opens(call'[t]) /\ stacks' = stacks
    BY <1>8, QueueMoves DEF Opens
  <2>2. v # t
    BY Zenon, <2>1
  <2> QED BY ZenonT(60), <1>1, <1>2, <1>4, <2>1, <2>2
<1>9. CASE Quiet(t)
  <2>1. \A s \in Stack : /\ stacks'[s].root = stacks[s].root /\ stacks'[s].parent = stacks[s].parent
                         /\ OnStack(stacks'[s]) = OnStack(stacks[s])
    BY ZenonT(60), <1>9 DEF Quiet, OnStack
  <2>2. /\ Opens(call[v]) /\ call[v].uuid = u /\ visible'[v] = visible[v]
        /\ call'[t].pc # "pop-queue"
    BY ZenonT(60), <1>2, <1>9 DEF Quiet
  <2> QED BY ZenonT(60), <1>1, <1>2, <2>1, <2>2
<1>10. ASSUME NEW s \in Stack, Fills(t, s) PROVE Goal
  <2>1. Filled(t, s)
    BY Zenon, <1>10, FillShape
  <2>2. call'[t].pc # "pop-queue" /\ ~Opens(call'[t])
    BY <2>1 DEF Filled, Opens
  <2>3. v # t
    BY Zenon, <2>2
  <2> DEFINE st == stacks[visible[t]]
  <2>4. u \notin OnStack(st) /\ u # st.root /\ u # st.parent /\ u \notin Managed /\ u # None
    <3>1. u \in Scope
      BY ZenonT(60), <1>2, <2>3 DEF OpenInv, CallInv, CallOk, Opens
    <3>2. u \notin Managed /\ u # None
      BY ZenonT(60), <3>1, UuidAssumption DEF Uuid
    <3> QED BY Zenon, <1>1, <1>2, <1>3, <2>3, <3>2
  <2>5. u \notin OnStack(stacks'[s]) /\ stacks'[s].root # u /\ stacks'[s].parent # u
    <3>1. CASE s \in CopyStack
      BY Zenon, <2>1, <2>4, <3>1 DEF Filled
    <3>2. CASE s \in ForkStack
      <4>1. PICK root \in {None, EventRoot(st)} :
              /\ Forked(stacks'[s], root, call[t].parent)
              /\ root = None \/ root \in OnStack(st) \/ root = st.root
              /\ call[t].parent \in Managed \cup {Top(st).uuid}
              /\ Top(st).uuid \in OnStack(st)
        BY Zenon, <2>1, <3>2, ForkNames
      <4> HIDE DEF st
      <4>2. u # root /\ u # call[t].parent
        BY Zenon, <2>4, <4>1
      <4> QED BY Zenon, <2>4, <4>1, <4>2 DEF Forked
    <3> QED BY Zenon, <1>10, <3>1, <3>2 DEF Fills
  <2>6. \A w \in Stack : w # s => stacks'[w] = stacks[w]
    BY Zenon, <2>1 DEF Filled
  <2> QED BY ZenonT(60), <1>1, <1>2, <1>4, <2>2, <2>3, <2>5, <2>6
<1> QED BY ZenonT(60), <1>5, <1>6, <1>7, <1>8, <1>9, <1>10, Kinds DEF Stack, Fills

-----------------------------------------------------------------------------
\* The root of a scope depends on the scopes up to it only.
LEMMA RootAtSame ==
    ASSUME NEW st, NEW W, NEW i \in Nat \ {0}, W.root = st.root, W.rootless = st.rootless,
           \A j \in 1 .. i : W.scopes[j] = st.scopes[j]
    PROVE  RootAt(W, i) = RootAt(st, i)
<1> DEFINE E == {j \in 2 .. i : st.scopes[j].agent}
<1>1. {j \in 2 .. i : W.scopes[j].agent} = E
  <2>1. \A j \in 2 .. i : W.scopes[j] = st.scopes[j]
    OBVIOUS
  <2> QED BY Zenon, <2>1
<1>2. W.scopes[1] = st.scopes[1]
  OBVIOUS
<1>3. E # {} => W.scopes[First(E)] = st.scopes[First(E)]
  <2>1. E \in SUBSET Nat /\ E \subseteq 1 .. i
    OBVIOUS
  <2> HIDE DEF E
  <2> QED BY Zenon, <2>1, FirstIn
<1> QED BY ZenonT(60), <1>1, <1>2, <1>3 DEF RootAt

\* The root of the events of a stack is the one it was imported with, its own,
\* or an agent that was its own root when it was opened.
LEMMA RootAtOwn ==
    ASSUME NEW st \in StackType, st.scopes # <<>>, EventRoot(st) # None
    PROVE  /\ EventRoot(st) = RootAt(st, Len(st.scopes))
           /\ \/ st.root # None /\ EventRoot(st) = st.root
              \/ st.root = None /\ ~st.rootless /\ EventRoot(st) = st.scopes[1].uuid
              \/ \E j \in 2 .. Len(st.scopes) :
                    EventRoot(st) = st.scopes[j].uuid /\ RootAt(st, j) = st.scopes[j].uuid
<1> DEFINE n == Len(st.scopes)
           E == {j \in 2 .. n : st.scopes[j].agent}
<1>1. n \in Nat
  BY Zenon, StackFields
<1>2. EventRoot(st) = RootAt(st, n)
  BY Zenon DEF EventRoot, RootAt
<1>3. EventRoot(st) = IF st.root # None THEN st.root
                      ELSE IF E # {} THEN st.scopes[First(E)].uuid
                      ELSE IF st.rootless THEN None ELSE st.scopes[1].uuid
  BY Zenon DEF EventRoot
<1>4. CASE st.root = None /\ E # {}
  <2> DEFINE j == First(E)
             F == {k \in 2 .. j : st.scopes[k].agent}
  <2>1. E \in SUBSET Nat
    BY <1>1
  <2>2. j \in E /\ \A k \in E : j <= k
    <3> HIDE DEF E
    <3> QED BY Zenon, <1>4, <2>1, FirstIn
  <2>3. j \in 2 .. n /\ j \in Nat /\ st.scopes[j].agent
    BY <1>1, <2>2
  <2> HIDE DEF j
  <2>4. j \in F /\ F \in SUBSET Nat /\ F \subseteq E
    BY <1>1, <2>3
  <2>5. \A k \in F : k = j
    BY <2>2, <2>3, <2>4
  <2>6. First(F) = j
    <3> HIDE DEF F
    <3> QED BY Zenon, <2>4, <2>5, FirstIn
  <2>7. RootAt(st, j) = st.scopes[j].uuid
    BY Zenon, <1>4, <2>4, <2>6 DEF RootAt
  <2> QED BY Zenon, <1>2, <1>3, <1>4, <2>3, <2>7 DEF j
<1> QED BY Zenon, <1>2, <1>3, <1>4

\* A stack that keeps its roots and the scopes it shares with a stack whose
\* events agree, and else holds scopes that have no start event yet.
LEMMA TracedKeep ==
    ASSUME starts' = starts, rootOf' = rootOf, NEW st, Traced(st), NEW W,
           W.root = st.root, W.rootless = st.rootless, Len(W.scopes) \in Nat,
           \A i \in 2 .. Len(W.scopes) :
              \/ i \in 2 .. Len(st.scopes) /\ \A j \in 1 .. i : W.scopes[j] = st.scopes[j]
              \/ starts[W.scopes[i].uuid] = 0
    PROVE  Traced(W)'
<1>1. W.root # None /\ starts'[W.root] > 0 => rootOf'[W.root] = W.root
  BY Zenon DEF Traced
<1>2. ASSUME NEW i \in 2 .. Len(W.scopes), starts[W.scopes[i].uuid] > 0
      PROVE  rootOf[W.scopes[i].uuid] = RootAt(W, i)
  <2>1. i \in 2 .. Len(st.scopes) /\ \A j \in 1 .. i : W.scopes[j] = st.scopes[j]
    BY <1>2
  <2>2. i \in Nat \ {0} /\ W.scopes[i] = st.scopes[i]
    BY <2>1
  <2>3. RootAt(W, i) = RootAt(st, i)
    BY Zenon, <2>1, <2>2, RootAtSame
  <2>4. starts[st.scopes[i].uuid] > 0
    BY Zenon, <1>2, <2>2
  <2>5. rootOf[st.scopes[i].uuid] = RootAt(st, i)
    BY Zenon, <2>1, <2>4 DEF Traced
  <2> QED BY Zenon, <2>2, <2>3, <2>5
<1> QED BY Zenon, <1>1, <1>2 DEF Traced

\* Only scopes have start events.
LEMMA NoStart ==
    ASSUME TypeOK, StartInv, NEW u \in Managed \cup OwnStack
    PROVE  ~(starts[u] > 0)
<1>1. u \in Uuid /\ u \notin minted
  BY ZenonT(60), UuidAssumption DEF Uuid, TypeOK
<1>2. starts[u] = 0
  BY Zenon, <1>1 DEF StartInv
<1> QED BY <1>2

\* The root of an open stack is its own root; and it is the root of the scope on top.
LEMMA TopTrace ==
    ASSUME TypeOK, OpenInv, BottomInv, StartInv, NEW s \in Stack, NEW st, st = stacks[s],
           st.scopes # <<>>, Traced(st), NEW root, root = EventRoot(st), root # None
    PROVE  /\ starts[root] > 0 => rootOf[root] = root
           /\ \A p \in Managed \cup {Top(st).uuid} : starts[p] > 0 => rootOf[p] = root
<1> DEFINE n == Len(st.scopes)
<1>1. st \in StackType /\ n \in Nat /\ n >= 1 /\ Top(st) = st.scopes[n]
  <2>1. st \in StackType
    BY ZenonT(60) DEF TypeOK
  <2> QED BY Zenon, <2>1, StackFields DEF Top
<1>2. /\ root = RootAt(st, n)
      /\ \/ st.root # None /\ root = st.root
         \/ st.root = None /\ ~st.rootless /\ root = st.scopes[1].uuid
         \/ \E j \in 2 .. n : root = st.scopes[j].uuid /\ RootAt(st, j) = root
  BY Zenon, <1>1, RootAtOwn
<1>3. /\ st.root # None => st.scopes[1].uuid = st.root
      /\ st.root = None /\ ~st.rootless => st.scopes[1].uuid \in OwnStack
  BY Zenon DEF BottomInv, Created
<1>4. starts[root] > 0 => rootOf[root] = root
  <2>1. CASE st.root # None /\ root = st.root
    BY Zenon, <2>1 DEF Traced
  <2>2. CASE st.root = None /\ ~st.rootless /\ root = st.scopes[1].uuid
    BY Zenon, <1>3, <2>2, NoStart
  <2>3. ASSUME NEW j \in 2 .. n, root = st.scopes[j].uuid, RootAt(st, j) = root
        PROVE  starts[root] > 0 => rootOf[root] = root
    BY Zenon, <2>3 DEF Traced
  <2> QED BY Zenon, <1>2, <2>1, <2>2, <2>3
<1>5. ASSUME NEW p \in Managed \cup {Top(st).uuid}, starts[p] > 0 PROVE rootOf[p] = root
  <2>1. p = st.scopes[n].uuid
    BY Zenon, <1>1, <1>5, NoStart
  <2>2. CASE n >= 2
    <3>1. n \in 2 .. n
      BY <1>1, <2>2
    <3> HIDE DEF n
    <3> QED BY Zenon, <1>2, <1>5, <2>1, <3>1 DEF Traced, n
  <2>3. CASE n = 1
    <3>1. \A j \in 2 .. n : FALSE
      BY <2>3
    <3>2. p = st.scopes[1].uuid
      BY Zenon, <2>1, <2>3
    <3>3. st.root # None \/ p \in OwnStack
      BY Zenon, <1>2, <1>3, <3>1, <3>2
    <3>4. st.root # None
      BY Zenon, <1>5, <3>3, NoStart
    <3>5. p = st.root /\ root = st.root
      BY Zenon, <1>2, <1>3, <3>1, <3>2, <3>4
    <3> QED BY Zenon, <1>4, <1>5, <3>5
  <2>4. n >= 2 \/ n = 1
    <3> HIDE DEF n
    <3> QED BY <1>1
  <2> QED BY Zenon, <2>2, <2>3, <2>4
<1> QED BY Zenon, <1>4, <1>5

-----------------------------------------------------------------------------
\* What a step that queues no start event owes the events to come.
LEMMA TraceKeep ==
    ASSUME TraceInv, NEW t \in Thread, starts' = starts, rootOf' = rootOf,
           \A v \in Thread : v # t => call'[v] = call[v],
           \A s \in Stack : Traced(stacks[s])',
           call'[t].pc = "pop-queue" /\ starts[call'[t].uuid] > 0 => call'[t].root = rootOf[call'[t].uuid],
           \A s \in ForkStack :
              \/ /\ stacks'[s].root = stacks[s].root /\ stacks'[s].parent = stacks[s].parent
                 /\ stacks'[s].scopes # <<>> => stacks[s].scopes # <<>>
              \/ stacks'[s].root # None /\ starts[stacks'[s].parent] > 0
                    => stacks'[s].root = rootOf[stacks'[s].parent]
    PROVE  TraceInv'
<1>1. SameRoot'
  <2> SUFFICES ASSUME NEW v \in Thread, call'[v].pc = "pop-queue", starts'[call'[v].uuid] > 0
               PROVE  call'[v].root = rootOf'[call'[v].uuid]
    BY Zenon DEF SameRoot
  <2>1. CASE v = t
    BY Zenon, <2>1
  <2>2. CASE v # t
    BY Zenon, <2>2 DEF TraceInv, SameRoot
  <2> QED BY Zenon, <2>1, <2>2
<1>2. ForkKeepsRoot'
  <2> SUFFICES ASSUME NEW s \in ForkStack, stacks'[s].scopes # <<>>, stacks'[s].root # None,
                      stacks'[s].parent \in Scope, starts'[stacks'[s].parent] > 0
               PROVE  stacks'[s].root = rootOf'[stacks'[s].parent]
    BY Zenon DEF ForkKeepsRoot, Created
  <2> QED BY Zenon DEF TraceInv, ForkKeepsRoot, Created
<1> QED BY Zenon, <1>1, <1>2 DEF TraceInv

\* task_scope_push and task_scope_remove: the scope pushed has no start event
\* yet, and the one removed was on top, with the root the pop has read.
LEMMA TraceWrite ==
    ASSUME TypeOK, OpenInv, Unshared, TopInv, StartInv, TraceInv, NEW t \in Thread, Step(t),
           PushWrite(t) \/ PopRemove(t)
    PROVE  TraceInv'
<1>1. PICK st, W : Written(t, st, W)
  BY Zenon, WriteShape
<1>2. \A v \in Thread : v # t => call'[v] = call[v]
  BY Zenon, OthersKeep
<1>3. starts' = starts /\ rootOf' = rootOf /\ Traced(st)
  BY Zenon, <1>1 DEF Written, TraceInv
<1>4. ASSUME NEW i \in 2 .. Len(W.scopes)
      PROVE  \/ i \in 2 .. Len(st.scopes) /\ \A j \in 1 .. i : W.scopes[j] = st.scopes[j]
             \/ starts[W.scopes[i].uuid] = 0
  <2>1. /\ Len(st.scopes) \in Nat /\ Len(W.scopes) \in Nat
        /\ \A j \in 1 .. Len(W.scopes) : j \in 1 .. Len(st.scopes) => W.scopes[j] = st.scopes[j]
    BY Zenon, <1>1 DEF Written
  <2>2. \/ i <= Len(st.scopes)
        \/ i = Len(W.scopes) /\ PushWrite(t) /\ W.scopes[Len(W.scopes)].uuid = call[t].uuid
    <3>1. PushWrite(t) => /\ Len(W.scopes) = Len(st.scopes) + 1
                          /\ W.scopes[Len(W.scopes)].uuid = call[t].uuid
      BY Zenon, <1>1 DEF Written
    <3>2. PopRemove(t) => Len(W.scopes) = Len(st.scopes) - 1
      BY Zenon, <1>1 DEF Written
    <3> QED BY <2>1, <3>1, <3>2
  <2>3. CASE i <= Len(st.scopes)
    BY <2>1, <2>3
  <2>4. CASE i = Len(W.scopes) /\ PushWrite(t) /\ W.scopes[Len(W.scopes)].uuid = call[t].uuid
    <3>1. Opens(call[t])
      BY <2>4 DEF PushWrite, Opens
    <3>2. starts[call[t].uuid] = 0
      BY Zenon, <3>1 DEF StartInv
    <3> QED BY Zenon, <2>4, <3>2
  <2> QED BY Zenon, <2>2, <2>3, <2>4
<1>5. Traced(W)'
  <2>1. W.root = st.root /\ W.rootless = st.rootless /\ Len(W.scopes) \in Nat
    BY Zenon, <1>1 DEF Written
  <2> QED BY Zenon, <1>3, <1>4, <2>1, TracedKeep
<1>6. ASSUME NEW s \in Stack PROVE Traced(stacks[s])'
  <2>1. CASE s = visible[t]
    <3>1. stacks'[s] = W
      BY Zenon, <1>1, <2>1 DEF Written
    <3> QED BY Zenon, <1>5, <3>1 DEF Traced
  <2>2. CASE s # visible[t]
    <3>1. stacks'[s] = stacks[s] /\ Traced(stacks[s])
      BY Zenon, <1>1, <2>2 DEF Written, TraceInv
    <3> QED BY Zenon, <1>3, <3>1 DEF Traced
  <2> QED BY Zenon, <2>1, <2>2
<1>7. \A s \in ForkStack :
        /\ stacks'[s].root = stacks[s].root /\ stacks'[s].parent = stacks[s].parent
        /\ stacks'[s].scopes # <<>> => stacks[s].scopes # <<>>
  <2>1. \A s \in ForkStack : s \in Stack
    BY Zenon DEF Stack
  <2> QED BY ZenonT(60), <1>1, <2>1 DEF Written
<1>8. call'[t].pc = "pop-queue" /\ starts[call'[t].uuid] > 0 => call'[t].root = rootOf[call'[t].uuid]
  <2>1. CASE PushWrite(t)
    BY <2>1, PushMoves
  <2>2. CASE PopRemove(t)
    <3> DEFINE n == Len(st.scopes)
    <3>1. n \in 2 .. n
      <4> DEFINE m == Len(W.scopes)
      <4>1. n \in Nat /\ m \in Nat \ {0} /\ m = n - 1
        BY Zenon, <1>1, <2>2 DEF Written
      <4> HIDE DEF m, n
      <4> QED BY <4>1
    <3>2. st.scopes[n].uuid = call[t].uuid /\ Visible(t) = st
      BY Zenon, <1>1, <2>2 DEF Written, Visible
    <3> HIDE DEF n
    <3>3. starts[call[t].uuid] > 0 => rootOf[call[t].uuid] = RootAt(st, n)
      BY Zenon, <1>3, <3>1, <3>2 DEF Traced, n
    <3>4. RootAt(st, n) = EventRoot(st)
      BY Zenon DEF RootAt, EventRoot, n
    <3>5. call[t].root = EventRoot(st)
      BY Zenon, <2>2, <3>2 DEF TopInv, TopOk, PopRemove
    <3>6. call'[t].root = call[t].root /\ call'[t].uuid = call[t].uuid
      <4>1. call[t] \in CallType /\ call \in [Thread -> CallType]
        BY Zenon DEF TypeOK
      <4>2. call' = [call EXCEPT ![t].pc = "pop-queue"]
        BY Zenon, <2>2 DEF PopRemove
      <4> QED BY <4>1, <4>2 DEF CallType
    <3> QED BY Zenon, <3>3, <3>4, <3>5, <3>6
  <2> QED BY Zenon, <2>1, <2>2
<1> QED BY ZenonT(60), <1>2, <1>3, <1>6, <1>7, <1>8, TraceKeep

\* dispatch_sanitized_event queues the start event of the scope on top of the
\* stack of its call, which is on no other.
LEMMA TraceQueue ==
    ASSUME TypeOK, OpenInv, Unshared, TopInv, UnqueuedInv, TraceInv, NEW t \in Thread, Step(t),
           PushQueue(t)
    PROVE  TraceInv'
<1> DEFINE u == call[t].uuid
           st == stacks[visible[t]]
<1>1. /\ u \in Uuid /\ call[t].pc = "push-queue" /\ call'[t].pc = "idle" /\ stacks' = stacks
      /\ \A x \in Uuid : x # u => starts'[x] = starts[x]
  BY Zenon, QueueMoves
<1>2. rootOf'[u] = EventRoot(st) /\ \A x \in Uuid : x # u => rootOf'[x] = rootOf[x]
  BY ZenonT(60), <1>1 DEF PushQueue, TypeOK, Visible
<1>3. \A v \in Thread : v # t => call'[v] = call[v]
  BY Zenon, OthersKeep
<1>4. /\ \A s \in Stack : u \in OnStack(stacks[s]) => s = visible[t]
      /\ \A s \in Stack : stacks[s].root # u /\ stacks[s].parent # u
      /\ \A v \in Thread : call[v].pc = "pop-queue" => call[v].uuid # u
  <2>1. Opens(call[t])
    BY <1>1 DEF Opens
  <2> QED BY Zenon, <2>1 DEF UnqueuedInv
<1>5. u = Top(st).uuid /\ WellFormed(st)
  <2>1. u = Top(st).uuid
    BY Zenon, <1>1 DEF TopInv, TopOk, Visible
  <2> QED BY Zenon, <2>1, VisibleOk DEF Visible
<1>6. \A s \in Stack : stacks[s] \in StackType /\ stacks[s].root \in Uuid \cup {None}
                       /\ stacks[s].parent \in Uuid \cup {None}
  BY ZenonT(60) DEF TypeOK, StackType
<1> HIDE DEF u
<1>7. ASSUME NEW s \in Stack PROVE Traced(stacks[s])'
  <2>0. PICK W : W = stacks[s] /\ W = stacks'[s]
    BY Zenon, <1>1
  <2>1. Traced(W)
    BY Zenon, <2>0 DEF TraceInv
  <2>2. W.root # None /\ starts'[W.root] > 0 => rootOf'[W.root] = W.root
    <3>1. W.root # u /\ W.root \in Uuid \cup {None}
      BY Zenon, <1>4, <1>6, <2>0
    <3> QED BY Zenon, <1>1, <1>2, <2>1, <3>1 DEF Traced
  <2>3. ASSUME NEW i \in 2 .. Len(W.scopes), starts'[W.scopes[i].uuid] > 0
        PROVE  rootOf'[W.scopes[i].uuid] = RootAt(W, i)
    <3>1. W \in StackType /\ Len(W.scopes) \in Nat
      BY Zenon, <1>6, <2>0, StackFields
    <3>2. i \in 1 .. Len(W.scopes)
      BY <3>1
    <3>3. W.scopes[i].uuid \in Uuid /\ W.scopes[i].uuid \in OnStack(W)
      BY Zenon, <3>1, <3>2, StackFields
    <3>4. CASE W.scopes[i].uuid # u
      BY Zenon, <1>1, <1>2, <2>1, <2>3, <3>3, <3>4 DEF Traced
    <3>5. CASE W.scopes[i].uuid = u
      <4>1. s = visible[t]
        BY Zenon, <1>4, <2>0, <3>3, <3>5
      <4>2. W = st
        BY Zenon, <2>0, <4>1
      <4>3. Len(W.scopes) \in 1 .. Len(W.scopes)
        BY <3>1, <3>2
      <4> HIDE DEF st
      <4>4. i = Len(W.scopes)
        BY Zenon, <1>5, <3>2, <3>5, <4>2, <4>3 DEF WellFormed, Top
      <4>5. RootAt(W, i) = EventRoot(st)
        BY Zenon, <4>2, <4>4 DEF RootAt, EventRoot
      <4> QED BY Zenon, <1>2, <3>5, <4>5
    <3> QED BY Zenon, <3>4, <3>5
  <2> QED BY Zenon, <2>0, <2>2, <2>3 DEF Traced
<1>8. SameRoot'
  <2> SUFFICES ASSUME NEW v \in Thread, call'[v].pc = "pop-queue", starts'[call'[v].uuid] > 0
               PROVE  call'[v].root = rootOf'[call'[v].uuid]
    BY Zenon DEF SameRoot
  <2>1. v # t
    BY <1>1
  <2>2. call'[v] = call[v] /\ call[v].uuid # u /\ call[v].uuid \in Uuid
    BY ZenonT(60), <1>3, <1>4, <2>1 DEF TypeOK, CallType, OpenInv, CallInv, CallOk
  <2> QED BY Zenon, <1>1, <1>2, <2>2 DEF TraceInv, SameRoot
<1>9. ForkKeepsRoot'
  <2>1. \A s \in ForkStack : s \in Stack
    BY Zenon DEF Stack
  <2> SUFFICES ASSUME NEW s \in ForkStack, stacks[s].scopes # <<>>, stacks[s].root # None,
                      stacks[s].parent \in Scope, starts'[stacks[s].parent] > 0
               PROVE  stacks[s].root = rootOf'[stacks[s].parent]
    BY Zenon, <1>1 DEF ForkKeepsRoot, Created
  <2>2. stacks[s].parent \in Uuid /\ stacks[s].parent # u
    BY Zenon, <1>4, <2>1 DEF Uuid
  <2> QED BY Zenon, <1>1, <1>2, <2>2 DEF TraceInv, ForkKeepsRoot, Created
<1> QED BY Zenon, <1>7, <1>8, <1>9 DEF TraceInv

\* A fork is given the root of the stack it was captured in, and a copy the
\* stack as it is.
LEMMA TraceFill ==
    ASSUME TypeOK, OpenInv, TopInv, BottomInv, StartInv, TraceInv, NEW t \in Thread, Step(t),
           NEW w \in Stack, Fills(t, w)
    PROVE  TraceInv'
<1> DEFINE st == stacks[visible[t]]
<1>1. Filled(t, w)
  BY Zenon, FillShape
<1>2. \A v \in Thread : v # t => call'[v] = call[v]
  BY Zenon, OthersKeep
<1>3. /\ starts' = starts /\ rootOf' = rootOf /\ visible[t] \in Stack /\ Traced(st)
      /\ \A s \in Stack : s # w => stacks'[s] = stacks[s]
  BY Zenon, <1>1 DEF Filled, TraceInv
<1>4. call'[t].pc # "pop-queue"
  BY <1>1 DEF Filled
<1>5. ASSUME NEW W, W = stacks'[w], w \in ForkStack
      PROVE  /\ Traced(W)'
             /\ W.root # None /\ starts[W.parent] > 0 => W.root = rootOf[W.parent]
  <2>0. PICK root \in {None, EventRoot(st)} :
          /\ Forked(stacks'[w], root, call[t].parent)
          /\ root = None \/ root \in OnStack(st) \/ root = st.root
          /\ call[t].parent \in Managed \cup {Top(st).uuid}
          /\ Top(st).uuid \in OnStack(st)
    BY Zenon, <1>1, <1>5, ForkNames
  <2>1. Forked(W, root, call[t].parent) /\ call[t].parent \in Managed \cup {Top(st).uuid}
    BY Zenon, <1>5, <2>0
  <2>2. st.scopes # <<>>
    BY Zenon, VisibleOk DEF Visible
  <2>3. root # None =>
          /\ starts[root] > 0 => rootOf[root] = root
          /\ \A p \in Managed \cup {Top(st).uuid} : starts[p] > 0 => rootOf[p] = root
    BY ZenonT(60), <1>3, <2>0, <2>2, TopTrace
  <2> DEFINE p == call[t].parent
  <2>4. /\ W.root = root /\ Len(W.scopes) \in {1, 2}
        /\ Len(W.scopes) = 2 => root # None /\ W.scopes[2].uuid = p
        /\ root # None => W.parent = p
    BY Zenon, <2>1 DEF Forked
  <2>5. root # None /\ starts[p] > 0 => rootOf[p] = root
    BY Zenon, <2>1, <2>3
  <2> HIDE DEF p
  <2>6. ASSUME NEW i \in 2 .. Len(W.scopes), starts[W.scopes[i].uuid] > 0
        PROVE  rootOf[W.scopes[i].uuid] = RootAt(W, i)
    <3>1. i = 2 /\ Len(W.scopes) = 2
      BY <2>4, <2>6
    <3>2. RootAt(W, i) = root
      BY Zenon, <2>4, <3>1 DEF RootAt
    <3> QED BY Zenon, <2>4, <2>5, <2>6, <3>1, <3>2
  <2> QED BY Zenon, <1>3, <2>3, <2>4, <2>5, <2>6 DEF Traced
<1>6. ASSUME NEW s \in Stack PROVE Traced(stacks[s])'
  <2>1. CASE s # w
    <3>1. stacks'[s] = stacks[s] /\ Traced(stacks[s])
      BY Zenon, <1>3, <2>1 DEF TraceInv
    <3> QED BY Zenon, <1>3, <3>1 DEF Traced
  <2>2. CASE s = w /\ w \in CopyStack
    <3>1. stacks'[s] = st
      BY Zenon, <1>1, <2>2 DEF Filled
    <3> QED BY Zenon, <1>3, <3>1 DEF Traced
  <2>3. CASE s = w /\ w \in ForkStack
    <3>1. PICK W : W = stacks'[w]
      BY Zenon
    <3>2. Traced(W)'
      BY Zenon, <1>5, <2>3, <3>1
    <3> QED BY Zenon, <2>3, <3>1, <3>2 DEF Traced
  <2> QED BY Zenon, <2>1, <2>2, <2>3 DEF Fills
<1>7. ASSUME NEW s \in ForkStack
      PROVE  \/ /\ stacks'[s].root = stacks[s].root /\ stacks'[s].parent = stacks[s].parent
                /\ stacks'[s].scopes # <<>> => stacks[s].scopes # <<>>
             \/ stacks'[s].root # None /\ starts[stacks'[s].parent] > 0
                   => stacks'[s].root = rootOf[stacks'[s].parent]
  <2>1. s \in Stack
    BY Zenon DEF Stack
  <2> QED BY Zenon, <1>3, <1>5, <2>1
<1> QED BY ZenonT(60), <1>2, <1>3, <1>4, <1>6, <1>7, TraceKeep

\* Every step keeps the events of a trace to one root.
LEMMA TraceStep ==
    ASSUME TypeOK, OpenInv, Unshared, TopInv, BottomInv, StartInv, UnqueuedInv, TraceInv,
           NEW t \in Thread, Step(t)
    PROVE  TraceInv'
<1>1. CASE PushWrite(t) \/ PopRemove(t)
  BY Zenon, <1>1, TraceWrite
<1>2. CASE PushQueue(t)
  BY Zenon, <1>2, TraceQueue
<1>3. ASSUME NEW w \in Stack, Fills(t, w) PROVE TraceInv'
  BY Zenon, <1>3, TraceFill
<1>4. \A v \in Thread : v # t => call'[v] = call[v]
  BY Zenon, OthersKeep
<1>5. CASE (\E u \in Scope : CreateHandle(t, u)) \/ PopQueue(t)
  <2>1. call'[t].pc \in {"push-write", "idle"} /\ stacks' = stacks /\ starts' = starts
    BY ZenonT(60), <1>5, MintMoves, QueueMoves
  <2>2. call'[t].pc # "pop-queue"
    BY <2>1
  <2>3. rootOf' = rootOf
    BY Zenon, <1>5 DEF CreateHandle, PopQueue
  <2>4. \A s \in Stack : Traced(stacks[s])'
    BY ZenonT(60), <2>1, <2>3 DEF TraceInv, Traced
  <2> QED BY ZenonT(60), <1>4, <2>1, <2>2, <2>3, <2>4, TraceKeep
<1>6. CASE Quiet(t)
  <2>1. /\ call'[t].pc # "pop-queue" /\ starts' = starts /\ rootOf' = rootOf
        /\ \A s \in Stack : /\ stacks'[s].scopes = stacks[s].scopes
                            /\ stacks'[s].root = stacks[s].root
                            /\ stacks'[s].parent = stacks[s].parent
                            /\ stacks'[s].rootless = stacks[s].rootless
    BY Zenon, <1>6 DEF Quiet
  <2>2. ASSUME NEW s \in Stack PROVE Traced(stacks[s])'
    <3>1. Traced(stacks[s])
      BY Zenon DEF TraceInv
    <3> QED BY ZenonT(60), <2>1, <3>1 DEF Traced, RootAt
  <2>3. \A s \in ForkStack : s \in Stack
    BY Zenon DEF Stack
  <2> QED BY ZenonT(60), <1>4, <2>1, <2>2, <2>3, TraceKeep
<1> QED BY ZenonT(60), <1>1, <1>2, <1>3, <1>5, <1>6, Kinds DEF Stack, Fills

\* What the agreement of the roots rests on, from the first stack on.
TraceAll == StartInv /\ BottomInv /\ UnqueuedInv /\ TraceInv

\* Nothing has started before the first call.
LEMMA TraceInit == Init => TraceAll
<1> SUFFICES ASSUME Init PROVE TraceAll
  OBVIOUS
<1>1. /\ \A t \in Thread : call[t].pc = "idle"
      /\ minted = {} /\ starts = [u \in Uuid |-> 0]
  BY Zenon, IdleOk DEF Init
<1>2. \A t \in Thread : ~Opens(call[t]) /\ call[t].pc # "pop-queue"
  BY ZenonT(60), <1>1 DEF Opens
<1>3. ASSUME NEW s \in Stack
      PROVE  \/ stacks[s].scopes = <<>> /\ stacks[s].root = None /\ stacks[s].parent = None
             \/ /\ s \in OwnStack /\ Len(stacks[s].scopes) = 1 /\ stacks[s].scopes[1].uuid = s
                /\ stacks[s].root = None /\ stacks[s].parent = None
  <2>1. (stacks[s] = New(s) /\ s \in OwnStack) \/ stacks[s] = NoStack
    BY Zenon DEF Init
  <2> QED BY <2>1 DEF New, NoStack
<1>4. StartInv
  BY <1>1, <1>2 DEF StartInv
<1>5. BottomInv
  BY Zenon, <1>3 DEF BottomInv, Created
<1>6. UnqueuedInv
  BY Zenon, <1>2 DEF UnqueuedInv
<1>7. ASSUME NEW s \in Stack PROVE Traced(stacks[s])
  <2>1. Len(stacks[s].scopes) \in {0, 1} /\ stacks[s].root = None
    <3>1. stacks[s].scopes = <<>> \/ Len(stacks[s].scopes) = 1
      BY Zenon, <1>3
    <3>2. stacks[s].scopes = <<>> => Len(stacks[s].scopes) = 0
      OBVIOUS
    <3>3. stacks[s].root = None
      BY Zenon, <1>3
    <3> QED BY Zenon, <3>1, <3>2, <3>3
  <2>2. \A n \in {0, 1} : \A i \in 2 .. n : FALSE
    OBVIOUS
  <2> QED BY Zenon, <2>1, <2>2 DEF Traced
<1>8. SameRoot /\ ForkKeepsRoot
  BY Zenon, <1>2, <1>3 DEF SameRoot, ForkKeepsRoot, Stack
<1> QED BY Zenon, <1>4, <1>5, <1>6, <1>7, <1>8 DEF TraceAll, TraceInv

\* Every step keeps them all.
LEMMA TraceNext ==
    ASSUME TypeOK, OpenInv, Unshared, TopInv, TraceAll, [Next]_vars
    PROVE  TraceAll'
<1>1. CASE UNCHANGED vars
  <2>1. /\ stacks' = stacks /\ visible' = visible /\ call' = call /\ minted' = minted
        /\ starts' = starts /\ rootOf' = rootOf
    BY Zenon, <1>1 DEF vars
  <2>2. StartInv' /\ UnqueuedInv'
    BY ZenonT(60), <2>1 DEF TraceAll, StartInv, UnqueuedInv, Opens
  <2>3. BottomInv'
    BY ZenonT(60), <2>1 DEF TraceAll, BottomInv, Seen, Created
  <2>4. TraceInv'
    BY ZenonT(60), <2>1 DEF TraceAll, TraceInv, Traced, SameRoot, ForkKeepsRoot, Created
  <2> QED BY Zenon, <2>2, <2>3, <2>4 DEF TraceAll
<1>2. ASSUME NEW t \in Thread, Step(t) PROVE TraceAll'
  <2>1. StartInv /\ BottomInv /\ UnqueuedInv /\ TraceInv
    BY Zenon DEF TraceAll
  <2>2. StartInv' /\ BottomInv'
    BY Zenon, <1>2, <2>1, StartStep, BottomStep
  <2>3. UnqueuedInv'
    BY Zenon, <1>2, <2>1, UnqueuedStep
  <2>4. TraceInv'
    BY Zenon, <1>2, <2>1, TraceStep
  <2> QED BY Zenon, <2>2, <2>3, <2>4 DEF TraceAll
<1> QED BY Zenon, <1>1, <1>2 DEF Next

\* The account holds throughout.
LEMMA TraceAlways ==
    ASSUME Unshared
    PROVE  Spec => []TraceAll
<1>1. TypeOK /\ OpenInv /\ TopInv /\ TraceAll /\ [Next]_vars => TraceAll'
  BY Zenon, TraceNext
<1> QED BY <1>1, TraceInit, TopAlways, OpenAlways, PTL DEF Spec

\* With one task at a time on each stack, the end event of a scope carries the
\* root its start event carried, so that both belong to the same trace: whatever
\* is pushed in between, forked or copied.
THEOREM RootsAgree ==
    ASSUME Unshared
    PROVE  Spec => []SameRoot
<1>1. TraceAll => SameRoot
  BY Zenon DEF TraceAll, TraceInv
<1> QED BY <1>1, TraceAlways, PTL

\* And a fork continues the trace of its parent scope: the root that
\* capture_propagation_context gave it is the one the start event of the parent
\* carried, also for a fork of a fork or of a copy.
THEOREM ForksKeepRoot ==
    ASSUME Unshared
    PROVE  Spec => []ForkKeepsRoot
<1>1. TraceAll => ForkKeepsRoot
  BY Zenon DEF TraceAll, TraceInv
<1> QED BY <1>1, TraceAlways, PTL
=============================================================================
