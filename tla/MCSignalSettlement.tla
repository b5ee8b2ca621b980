------------------------- MODULE MCSignalSettlement -------------------------
(* TLC instances of SignalSettlement.                                      *)
EXTENDS SignalSettlement, TLC

CONSTANTS p1, p2, p3, s1, s2

\* Two plans for different symbols compete for the cash of one session; the
\* third is active in the next session for a symbol that may still be held.
PlanSymbol == [p \in Plans |-> IF p = p2 THEN s2 ELSE s1]
PlanDay    == [p \in Plans |-> IF p = p3 THEN 1 ELSE 0]

MonitorSymmetry == Permutations(Monitors)

\* A bound of the run over two days: two monitors overlap only as long as one
\* plan has signals; the run of one day lets them overlap over two plans.
OverlapOnOnePlan ==
    \/ \A m, n \in Monitors : m = n \/ mon[m] = Idle \/ mon[n] = Idle
    \/ \A d, e \in signals : d.plan = e.plan
=============================================================================
