SPECIFICATION Spec
CONSTANTS
    Weekly = {w1}
    Closes = {c1}
    Updates = {u1}
    Studies = {s1}
    Full = {w1}
    None = None
    SourceDay <- MCSourceDay
    MaxNow = 3
INVARIANTS ActiveLine CloseUsesItsDay
PROPERTIES DayNeverBack Implements
CHECK_DEADLOCK FALSE
