---- MODULE MCSubscriberDispatcher ----
(* Small instances of SubscriberDispatcher for TLC. *)
EXTENDS SubscriberDispatcherInv, TLC

CONSTANTS e1, e2, e3, b1, p1, f1, f2

\* Two flush calls are interchangeable, so it is enough to let f1 be called first:
\* a symmetry reduction that, unlike SYMMETRY, is sound for liveness.
FlushesInOrder == flush'[f1] = "idle" => flush'[f2] = "idle"

\* A bound: a second flush call only beside a background task or beside a managed
\* call, not beside both.
TwoFlushesWithOne ==
    flush'[f2] # "idle" =>
        (\A b \in Task : task'[b] = "none") \/ (\A p \in Pending : pending'[p] = "none")

\* A bound: a second flush call only without background tasks and foreign threads.
TwoFlushesAlone ==
    flush'[f2] # "idle" =>
        (\A b \in Task : task'[b] = "none") /\ (\A e \in Event : foreign'[e] = None)

OrderedSpec == Init /\ [][Next /\ FlushesInOrder /\ TwoFlushesAlone]_vars

\* Bounds: flushes that wait for everything, events emitted in a fixed order, and one
\* event emitted by a foreign thread.
FullFlushesOneForeign ==
    /\ \A f \in Flush : mode'[f] = "all"
    /\ place'[e1] = "unused" => place'[e2] = "unused"
    /\ place'[e2] = "unused" => place'[e3] = "unused"
    /\ foreign'[e1] = None /\ foreign'[e2] = None

OvertakeSpec == Init /\ [][Next /\ FlushesInOrder /\ FullFlushesOneForeign]_vars

OrderedFairSpec ==
    Init /\ [][Next /\ FlushesInOrder /\ TwoFlushesWithOne]_vars /\ ThreadFairness
====
