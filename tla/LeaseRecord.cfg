SPECIFICATION Spec
CONSTANTS
    Procs = {p1, p2, p3}
    Kinds = {"SLOT"}
    TTL = 3
    MinuteTicks = 2
    SlotDue = 0
    SlotDeadline = 1
    SlotEnd = 6
    MaxLag = 1
    MaxNow = 5
PROPERTIES CompletedNeverRerun
CHECK_DEADLOCK FALSE
