SPECIFICATION FairSpec
CONSTANTS
  q1 = q1
  q2 = q2
  b1 = b1
  x = x
  y = y
  Keys <- MCKeys
  Values = {x, y}
  None = None
  ObservedAt <- MCObservedAt
  Payloads <- MCPayloads
  Readings <- MCReadings
  MaxBatches = 2
  MaxTokens = 2
  MaxLate = 1
INVARIANTS NoBatchLost FactsMatchReceipts FreshnessHonest
PROPERTIES KeepsBridgePromise OutboxDrains
