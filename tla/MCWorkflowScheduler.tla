------------------------ MODULE MCWorkflowScheduler ------------------------
(***************************************************************************)
(* An instance of WorkflowScheduler: a weekday of five instants (night,    *)
(* 15:00, 15:10, 16:10, 17:20), the minute monitor and close in the        *)
(* primary slot, the close bar, outcomes and team-eod in the review slot.  *)
(***************************************************************************)
EXTENDS WorkflowScheduler

CONSTANTS Monitor, CloseBar

MCSlotOf == [j \in Jobs |-> CASE j \in {CloseBar, Outcomes, Eod} -> "review"
                              [] j = Comparison -> "comparison"
                              [] OTHER -> "primary"]
MCDueRank == [j \in Jobs |-> CASE j = Outcomes -> 1 [] j = Close -> 2 [] j = CloseBar -> 3 [] j = Monitor -> 4 [] OTHER -> 0]
MCDueAt == [j \in Jobs |-> CASE j \in {Monitor, CloseBar} -> {1} [] j = Close -> {2}
                             [] j = Outcomes -> {3} [] OTHER -> {}]
MCOnBusy == [j \in Jobs |-> CASE j \in {Close, Outcomes} -> "retryTimer"
                              [] j \in {CloseBar, Integrity} -> "nextTick"
                              [] OTHER -> "drop"]
MCRetryWindow == [j \in Jobs |-> IF j = Outcomes THEN {3, 4} ELSE DueAt[j]]
MCDailyKey == [j \in {CloseBar} |-> 1]
MCKeys == DispatchKeys
=============================================================================
