SPECIFICATION Spec
CONSTANTS
    Close = close
    Outcomes = outcomes
    Eod = eod
    Integrity = integrity
    Comparison = comparison
    Monitor = monitor
    CloseBar = closeBar
    Jobs = {close, outcomes, eod, integrity, comparison, monitor, closeBar}
    DailyKey <- MCDailyKey
    SlotOf <- MCSlotOf
    DueRank <- MCDueRank
    DueAt <- MCDueAt
    OnBusy <- MCOnBusy
    RetryWindow <- MCRetryWindow
    Keys <- MCKeys
    Ids = {1, 2, 3, 4}
    MaxStrays = 1
    MaxOverdue = 1
    None = None
    DayLength = 5
    GateFrom = 1
    CloseFrom = 2
    EodFrom = 4
    MaxTime = 4
    MaxStarts = 2
INVARIANTS SlotsHeldByPending OneProcessPerSlot NothingForgotten
PROPERTIES StartRules OrderlyExitLeavesNone
CHECK_DEADLOCK FALSE
