-------------------------- MODULE MCSchedulerLease --------------------------
(* TLC instances of SchedulerLease.                                        *)
EXTENDS SchedulerLease, TLC

ProcSymmetry == Permutations(Procs)

=============================================================================
