---------------------------- MODULE MCReloadLoop ----------------------------
EXTENDS ReloadLoop, TLC

CONSTANTS c1, c2, k1, k2, k3, t1, t2, d1, d2

MCCalls == {c1, c2}
OneCall == {c1}
MCChildren == {k1, k2, k3}

\* Each caller calls a tool of its own, or both the same.
TwoTools == [c \in Calls |-> IF c = c1 THEN t1 ELSE t2]
SameTool == [c \in Calls |-> t1]
TwoChildren == {k1, k2}

\* The second version of the source changes the definition of t1.
MCDefsOf ==
    [v \in Versions |-> [t \in Tools |-> IF v = 2 /\ t = t1 THEN d2 ELSE d1]]

\* A running child changes t1 as the second version does, and removes t2.
MCSnapshots == {[t \in Tools |-> IF t = t1 THEN d2 ELSE Unknown]}

\* Child sessions are told apart by nothing but their state.
Symmetry == Permutations(Children)
=============================================================================
