-------------------------- MODULE MCSandboxService --------------------------
(* One or two requests beside the reaper, two operators and an agent.        *)
EXTENDS SandboxService, TLC
CONSTANTS r1, r2, n1, n2, g1, op1, op2, agent
OneRequest == {r1}
TwoRequests == {r1, r2}
OneName == {n1}
TwoNames == {n1, n2}
OneGuest == {g1}
AllSubjects == {op1, op2, agent}
AllOperators == {op1, op2}
OperatorAndAgent == {op1, agent}
OneOperator == {op1}
Symmetry == Permutations(TwoRequests) \cup Permutations(AllOperators)
AllLifetimes == {-1, 0, 2}  \* refused, the default, above the maximum
=============================================================================
