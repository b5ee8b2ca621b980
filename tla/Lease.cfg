SPECIFICATION Spec
CONSTANTS
    Procs = {p1, p2, p3}
    Kinds = {"MONITOR", "SLOT"}
    TTL = 3
    MinuteTicks = 2
    SlotDue = 0
    SlotDeadline = 2
    SlotEnd = 6
    MaxLag = 2
    MaxNow = 5
SYMMETRY ProcSymmetry
INVARIANTS Exclusive
PROPERTIES SuccessIsFinal KilledMinuteStaysKilled MissedIsFinal
CHECK_DEADLOCK FALSE
