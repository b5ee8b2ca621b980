SPECIFICATION Spec
CONSTANTS
  p1 = p1
  p2 = p2
  p3 = p3
  s1 = s1
  s2 = s2
  Plans = {p1, p3}
  Symbols = {s1}
  Monitors = {m1, m2}
  SymbolOf <- PlanSymbol
  DayOf <- PlanDay
  NDays = 2
  MinutesPerDay = 2
  MaxAdds = 0
  Windows = {"fill"}
  Qty = 2
  FillPrice = 1
  LimitPrice = 2
  InitialCash = 8
CONSTRAINT OverlapOnOnePlan
SYMMETRY MonitorSymmetry
INVARIANTS TypeOK OffersSettledOnly LifecyclesFollowPosition
CHECK_DEADLOCK FALSE
