---------------------------- MODULE MCScopeStack ----------------------------
EXTENDS ScopeStackInv, TLC

CONSTANTS t1, t2, s1, s2, f1, f2, c1, x1, x2, x3, m1

\* Both threads use the stack of the first.
SharedHome == [t \in Thread |-> s1]

NoBinds == {}
\* A thread moves between its stack, the forks it makes and a copy of it.
ForkBinds == Thread \X Stack

ScopeSymmetry == Permutations(Scope)
SharedSymmetry == Permutations(Scope) \cup Permutations(Thread)
=============================================================================
