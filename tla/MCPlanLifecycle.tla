-------------------------- MODULE MCPlanLifecycle --------------------------
(***************************************************************************)
(* The instance of PlanLifecycle: the close publication A of one session,  *)
(* the same-day recovery B and the close C of the next session; and for    *)
(* the session of A a regeneration R of it, a reviewed candidate N and an  *)
(* empty candidate D.                                                      *)
(***************************************************************************)
EXTENDS PlanLifecycle

CONSTANTS a1, b1, c1, n1, r1, A, B, C, D, N, R

MCRunOf  == [p \in Plans |-> CASE p = a1 -> A [] p = b1 -> B [] p = c1 -> C [] p = n1 -> N [] p = r1 -> R]
MCKind   == [r \in Runs |-> CASE r \in {A, C} -> "close" [] r = B -> "sameDay" [] r = R -> "regen"
                              [] r = N -> "candidate" [] r = D -> "empty"]
MCTarget == [r \in Runs |-> IF r = C THEN 2 ELSE 1]
MCSource == [r \in Runs |-> IF r = R THEN A ELSE r]

\* A bound: either the recovery and the next session's close come after A, over
\* two sessions, or what replaces A within its session.
NoReplacement == regenOld[R] = {} /\ status[r1] = "NONE" /\ cand[N] = NoCandidate /\ cand[D] = NoCandidate
OneSession    == status[b1] = "NONE" /\ status[c1] = "NONE" /\ now <= 7

SessionOrReplacement == NoReplacement \/ OneSession
=============================================================================
