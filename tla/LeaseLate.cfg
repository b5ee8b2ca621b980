SPECIFICATION Spec
CONSTANTS
    Procs = {p1, p2, p3}
    Kinds = {"MONITOR"}
    TTL = 3
    MinuteTicks = 2
    SlotDue = 0
    SlotDeadline = 0
    SlotEnd = 0
    MaxLag = 1
    MaxNow = 5
PROPERTIES KilledMinuteNeverReplayed
CHECK_DEADLOCK FALSE
