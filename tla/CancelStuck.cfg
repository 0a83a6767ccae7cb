SPECIFICATION FairSpec
CONSTANTS
  Users = {u1}
  Runs = {r1}
  Owner <- MCOwner
  Workers = {w1, w2}
  NoWorker = NoWorker
  NoRun = NoRun
  PerUserActiveLimit = 1
  PerUserQueuedLimit = 2
  GlobalActiveLimit = 2
  GlobalQueuedLimit = 2
  MaxMessages = 2
  MaxEvents = 1
PROPERTY CancellationCompletes
CHECK_DEADLOCK FALSE
