SPECIFICATION Spec
CONSTANTS
    a1 = a1  b1 = b1  c1 = c1  n1 = n1  r1 = r1
    A = A  B = B  C = C  D = D  N = N  R = R  NoRun = NoRun
    Plans = {a1, b1, c1, n1, r1}
    Runs = {A, B, C, D, N, R}
    RunOf <- MCRunOf
    Kind <- MCKind
    Target <- MCTarget
    Source <- MCSource
    FirstTick = 4
    MaxNow = 11
CONSTRAINT SessionOrReplacement
INVARIANTS ActiveInSession EventTerminates PendingOneRun SupersededMatches
PROPERTIES RecoveryKeepsBatch ReplacementIsTotal
CHECK_DEADLOCK FALSE
