--------------------------- MODULE RouteLifecycle ---------------------------
(***************************************************************************)
(* What the broker promises of one route, without how it does it: a worker *)
(* serves a route only while some MCP session holds it, one worker gives   *)
(* way before another takes over, and a worker whose generation has been   *)
(* retired never serves again.  A restart may forget the holders, never    *)
(* who is retired.                                                         *)
(***************************************************************************)
EXTENDS FiniteSets

CONSTANTS Mcp, Worker, None

VARIABLES holders, serving, retired
vars == <<holders, serving, retired>>

Init == holders = {} /\ serving = None /\ retired = {}

Hold(m) == holders' = holders \cup {m} /\ UNCHANGED <<serving, retired>>

\* The last holder takes the worker with it.
Release(m) ==
    /\ holders' = holders \ {m}
    /\ serving' = IF holders' = {} THEN None ELSE serving
    /\ UNCHANGED retired

Serve(w) ==
    /\ serving = None /\ holders # {} /\ w \notin retired
    /\ serving' = w
    /\ UNCHANGED <<holders, retired>>

Stop == serving' = None /\ UNCHANGED <<holders, retired>>

Retire(w) == retired' = retired \cup {w} /\ UNCHANGED <<holders, serving>>

Restart == holders' = {} /\ serving' = None /\ UNCHANGED retired

Next ==
    \/ \E m \in Mcp : Hold(m) \/ Release(m)
    \/ \E w \in Worker : Serve(w) \/ Retire(w)
    \/ Stop \/ Restart

Spec == Init /\ [][Next]_vars
=============================================================================
