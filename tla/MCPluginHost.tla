---------------------------- MODULE MCPluginHost ----------------------------
EXTENDS PluginHostInv, TLC

CONSTANTS h1, h2, s1, n1, w1

WorkerFirst == {<<w1, n1>>, <<s1>>}

\* Two activations are interchangeable, so it is enough to let h1 be submitted first:
\* a symmetry reduction that, unlike SYMMETRY, is sound for liveness.
HostsInOrder == phase'[h1] = "idle" => phase'[h2] = "idle"

OrderedFairSpec == Init /\ [][Next /\ HostsInOrder]_vars /\ Fairness
=============================================================================
