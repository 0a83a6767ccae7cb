SPECIFICATION Spec
CONSTANTS
  k1 = k1
  k2 = k2
  k3 = k3
  e1 = e1
  e2 = e2
  a1 = a1
  Keys = {k1, k2, k3}
  Events = {e1, e2}
  Assets = {a1}
  InitialCash = 11
  Quantities = {1, 3}
  Prices = {1, 2}
  Budgets = {0}
  Lags = {1}
  Capacities = {1, 2}
  Steps = {1}
  CentUnits = 1
  MinFee = 2
  FeeRate = 75
  DutyRate = 25
  Corrections = {1}
  MaxSession = 1
INVARIANTS HoldsCovered SettledOnly BooksReconcile MatchHonoured BuyMatchFits OrderIsItsFills
PROPERTIES DailyCapacity HistoryKept KeepsHoldPromise
SYMMETRY Symmetry
CHECK_DEADLOCK FALSE
