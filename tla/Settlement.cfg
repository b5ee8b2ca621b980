SPECIFICATION Spec
CONSTANTS
  p1 = p1
  p2 = p2
  p3 = p3
  s1 = s1
  s2 = s2
  Plans = {p1, p2}
  Symbols = {s1, s2}
  Monitors = {m1, m2}
  SymbolOf <- PlanSymbol
  DayOf <- PlanDay
  NDays = 1
  MinutesPerDay = 3
  MaxAdds = 1
  Windows = {"fill", "nofill", "gap"}
  Qty = 1
  FillPrice = 1
  LimitPrice = 2
  InitialCash = 3
SYMMETRY MonitorSymmetry
INVARIANTS LedgerIsItsFills DeadSignalsUnfilled ReservationsCovered ClearFailureReleases
CHECK_DEADLOCK FALSE
