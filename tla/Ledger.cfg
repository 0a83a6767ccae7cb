SPECIFICATION LedgerSpec
CONSTANTS
  a = a
  b = b
  Users = {a, b}
  RunsOfA = {r1, r2}
  Runs = {r1, r2, r3}
  Owner <- MCOwner
  Workers = {w1, w2}
  NoWorker = NoWorker
  PerUserActiveLimit = 1
  PerUserQueuedLimit = 1
  GlobalActiveLimit = 1
  GlobalQueuedLimit = 1
  MaxEvents = 1
SYMMETRY Symmetry
INVARIANTS CheckpointAgrees LoadBounded
PROPERTIES LegalEdges SettledStays
CHECK_DEADLOCK FALSE
