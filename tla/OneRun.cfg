SPECIFICATION FairSpec
CONSTANTS
  Users = {u1}
  Runs = {r1}
  Owner <- MCOwner
  Workers = {w1, w2, w3}
  NoWorker = NoWorker
  NoRun = NoRun
  PerUserActiveLimit = 1
  PerUserQueuedLimit = 2
  GlobalActiveLimit = 2
  GlobalQueuedLimit = 2
  MaxMessages = 3
  MaxEvents = 2
INVARIANTS OneWorkerPerRun AtMostOneExecution StopEventIsFinal OutcomeWasExecuted
PROPERTIES KeepsPromise LeaseResolved QueuedDispatched
CHECK_DEADLOCK FALSE
