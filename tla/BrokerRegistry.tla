--------------------------- MODULE BrokerRegistry ---------------------------
(***************************************************************************)
(* The broker registry of the daemon, for one route (one user-machine      *)
(* fingerprint).  Every operation of broker/registry.rs runs under the     *)
(* registry's lock, so it is a function from the route before the call to  *)
(* the route after it; module Broker says who calls it and when.           *)
(*                                                                         *)
(* A route that was never registered answers every operation like an Empty *)
(* one without references, so the two are one value here.  The states that *)
(* only tests create (Recovering with a target) and the permanent          *)
(* pass-through of a daemon started with --pass-through are left out.      *)
(***************************************************************************)
EXTENDS Naturals, FiniteSets

CONSTANTS
    Mcp,        \* MCP session ids, ordered as the keys of the BTreeMap refs are
    Act,        \* activation ids
    Worker,     \* worker ids; a worker has one generation
    None        \* no session, no activation, no worker

\* Session ids are ordered, so that any set of references has a first one.
ASSUME RegistryAssumption ==
    /\ Mcp \subseteq Nat
    /\ \A S \in SUBSET Mcp : S # {} => \E m \in S : \A n \in S : m <= n
    /\ None \notin Mcp \cup Act \cup Worker

States == {"Empty", "Activating", "Ready", "Draining", "PassThrough", "Recovering"}

Route == [state : States, owner : Mcp \cup {None}, act : Act \cup {None},
          target : Worker \cup {None}, refs : SUBSET Mcp]

NewRoute == [state |-> "Empty", owner |-> None, act |-> None,
             target |-> None, refs |-> {}]

\* The first key of refs.
First(S) == CHOOSE m \in S : \A n \in S : m <= n

Empty(r) == [NewRoute EXCEPT !.refs = r.refs]

Activating(r, m, a) ==
    [state |-> "Activating", owner |-> m, act |-> a, target |-> None, refs |-> r.refs]

Ready(r, w) ==
    [state |-> "Ready", owner |-> None, act |-> None, target |-> w, refs |-> r.refs]

\* Empty without references, else transient pass-through.
Failed(r) ==
    [Empty(r) EXCEPT !.state = IF r.refs = {} THEN "Empty" ELSE "PassThrough"]

-----------------------------------------------------------------------------
(* What a session is told, and the references that keep a route.            *)

\* control: the target's control_available flag.
current_directive(r, m, control) ==
    CASE r.state = "Activating" /\ r.owner = m -> [d |-> "launch", a |-> r.act]
      [] r.state = "Ready" /\ control          -> [d |-> "reuse", a |-> None]
      [] r.state = "PassThrough"               -> [d |-> "pass", a |-> None]
      [] OTHER                                 -> [d |-> "wait", a |-> None]

\* The reference is added; on an Empty route the caller's launch plan wins.
register_mcp(r, m, a) ==
    LET added == [r EXCEPT !.refs = @ \cup {m}]
    IN  IF r.state = "Empty" THEN Activating(added, m, a) ELSE added

after_reference_removed(r) ==
    CASE r.state = "Ready"    -> [r EXCEPT !.state = "Draining"]
      [] r.state = "Draining" -> r
      [] OTHER                -> Empty(r)

\* Mutant: the activation stays with the session that left.
OwnerKept(r, m) == r

transfer_owner_if_needed(r, m) ==
    IF r.state \in {"Activating", "Recovering"} /\ r.owner = m
    THEN [r EXCEPT !.owner = First(r.refs)]
    ELSE r

release_mcp(r, m) ==
    LET removed == [r EXCEPT !.refs = @ \ {m}]
    IN  IF m \notin r.refs THEN r
        ELSE IF removed.refs = {} THEN after_reference_removed(removed)
        ELSE transfer_owner_if_needed(removed, m)

-----------------------------------------------------------------------------
(* Publication of a worker, and its failures.  A permit is what a           *)
(* publication was authorized for: the activation that launched the worker  *)
(* ("activation"), the activation a recovering worker displaces             *)
(* ("activating"), or the worker the route already has ("existing").        *)

Permit == [k : {"activation", "activating", "existing"}, a : Act \cup {None}]

authorize_worker_recovery(r, w) ==
    IF r.refs = {} THEN {}
    ELSE IF r.state = "Activating" THEN {[k |-> "activating", a |-> r.act]}
    ELSE IF r.state = "Ready" /\ r.target = w THEN {[k |-> "existing", a |-> None]}
    ELSE {}

\* mark_worker_ready and publish_recovered_worker: is p still current?
mark_worker_ready(r, p, w) ==
    /\ r.refs # {}
    /\ \/ r.state = "Activating" /\ p.k # "existing" /\ r.act = p.a
       \/ r.state = "Ready" /\ p.k = "existing" /\ r.target = w

mark_activation_failed(r, a) ==
    IF r.state = "Activating" /\ r.act = a THEN Failed(r) ELSE r

mark_worker_communication_failed(r, w) ==
    IF \/ r.state = "Ready" /\ r.target = w
       \/ r.state \in {"Recovering", "Activating"}
    THEN Failed(r) ELSE r

mark_route_pass_through(r) == Failed(r)

\* Mutant: a failure is only noticed on a route without references.
FailedIfUnused(r, w) ==
    IF r.state = "Ready" /\ r.target = w /\ r.refs = {} THEN Empty(r) ELSE r

worker_failed(r, w) ==
    IF r.state # "Ready" \/ r.target # w THEN r
    ELSE IF r.refs = {} THEN Empty(r)
    ELSE [Empty(r) EXCEPT !.state = "Recovering", !.owner = First(r.refs)]

begin_relaunch(r, m, a) ==
    IF r.state = "Recovering" /\ r.owner = m THEN Activating(r, m, a) ELSE r

\* Mutant: a session that waits for the drain keeps it open.
DrainedIfUnused(r, idle) ==
    IF r.state = "Draining" /\ idle /\ r.refs = {} THEN Empty(r) ELSE r

\* idle: nothing in flight on the target, or the deadline has passed.
finish_draining(r, idle) ==
    IF r.state = "Draining" /\ idle THEN Empty(r) ELSE r
=============================================================================
