SPECIFICATION Spec
CONSTANTS
  a1 = a1
  a2 = a2
  c1 = c1
  c2 = c2
  Alerts = {a1, a2}
  Cards = {c1, c2}
  StateOf <- SameState
  MaxEarlier = 1
  Flushers = {f1, f2}
  Publishers = {p1, p2}
  Window = 1
  Budget = 2
  Maximum = 2
  CloseAt = 1
  MaxNow = 2
  MaxFaults = 1
CONSTRAINT OneChannel
INVARIANTS MergedIsSummarised OneCallPerCard
PROPERTIES PostedOnce PendingIsTaken
CHECK_DEADLOCK FALSE
