SPECIFICATION ServerSpec
CONSTANTS
  Orders = {o1}
  EventIds = {e1, e2, e3}
  Trades = {t1, t2}
  Quantity = 1
  MaxLeases = 2
  MaxCommands = 2
  EvidenceIntegrated = TRUE
SYMMETRY Symmetry
INVARIANTS PreviewsAreCurrent
PROPERTIES OverfillPinned FinalOrdersStay KeepsOrderPromise
