SPECIFICATION Spec
CONSTANTS
  Orders = {o1}
  NoOrder = NoOrder
  EventIds <- AgentEventIds
  Trades <- AgentTrades
  Quantity = 1
  MaxLeases = 2
  MaxCommands = 1
  EvidenceIntegrated = TRUE
  Strangers = {x1}
  Strange = {"succeeded"}
  Unsure = {}
  PollLimit = 200
  MaxLate = 1
INVARIANTS AtMostOnePlacement PlacedOrdersAreSent FailedWasNotPlaced OutcomeIsTheBrokers
