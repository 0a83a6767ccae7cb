--------------------------- MODULE QmtAgentProofs ---------------------------
(***************************************************************************)
(* The agent and the server together, for every number of orders, leases,  *)
(* restarts and late requests: first the two barriers of a placement (the  *)
(* agent's store and the acknowledgement of the server), then the types,   *)
(* the promise of the order book under this agent, and that final statuses *)
(* tell what the broker did.                                               *)
(***************************************************************************)
EXTENDS QmtAgent, LiveOrderProofs, SequenceTheorems

\* No status the agent records is "none".
LEMMA StatusFacts == \A b \in DOMAIN StatusOf : StatusOf[b] # "none"
BY DEF StatusOf, BrokerStates, RECON

\* From the record of an order to the record of its outcome.
Deciding == {"ack", "validate", "submit"}
Working == Deciding \cup {"accepted", "refused", "raised"}

\* Where execute_order is, who it works for and what the store says of him.
StoreInv ==
  /\ DOMAIN record = Orders
  /\ match \in [Orders -> BrokerOrders \cup {NoOrder}]
  /\ broker \in [Orders -> DOMAIN StatusOf]
  /\ placements \in [Orders -> Nat]
  /\ held \subseteq Orders
  /\ pc \in Working => current \in Orders /\ record[current] = "SUBMITTING"
  /\ pc = "recover" => \A o \in todo : record[o] \in Unresolved

PlacementInv ==
  /\ StoreInv
  /\ \A o \in Orders : placements[o] <= 1 /\ (record[o] = "none" => placements[o] = 0)
  /\ pc \in Deciding => placements[current] = 0

\* Steps that touch neither the store nor the broker and do not enter the path.
Aside ==
  /\ UNCHANGED <<record, match, broker, traded, placements>>
  /\ past' = past \/ past' \subseteq Orders
  /\ held' \subseteq Orders
  /\ pc' \in Working => pc' = pc /\ current' = current
  /\ pc' = "recover" => \/ pc = "recover" /\ todo' = todo
                        \/ todo' = {o \in Orders : record[o] \in Unresolved}

LEMMA AsideKeeps == ASSUME PlacementInv, Aside PROVE PlacementInv'
<1>1. pc' \in Working => pc \in Working /\ current' = current
  BY DEF Aside
<1>2. pc' \in Deciding => pc \in Deciding /\ current' = current
  BY DEF Aside, Working, Deciding
<1> QED
  BY <1>1, <1>2 DEF Aside, PlacementInv, StoreInv

\* The agent's requests to the server and its loop.
LEMMA LoopIsAside ==
  ASSUME PlacementInv,
         \/ Deliver \/ PostEnds \/ DeliverLate \/ Start \/ Recovered \/ Heartbeat
         \/ AskForOrders \/ ReceiveOrders \/ LeaseUnheard \/ OrdersDone
         \/ SyncBrokerEvents \/ AskForCommands \/ ReportCommand \/ CommandsDone \/ Crash
         \/ Escape \/ NewDay
         \/ \E o \in Orders : SkipOrder(o) \/ AcknowledgeUnheard(o)
         \/ OfficeSteps /\ UNCHANGED <<store, market, agent, late>>
         \/ UNCHANGED vars
  PROVE  Aside
<1> USE DEF Aside, PlacementInv, StoreInv, store, market, Working, Deciding, Posts
<1>1. CASE Deliver \/ PostEnds \/ DeliverLate
  BY <1>1 DEF Deliver, PostEnds, AfterPost, AfterSync, DeliverLate, agent
<1>2. CASE Start \/ Recovered \/ Heartbeat
  BY <1>2 DEF Start, Recovered, Heartbeat
<1>3. CASE AskForOrders \/ ReceiveOrders \/ LeaseUnheard
  BY <1>3 DEF AskForOrders, ReceiveOrders, LeaseUnheard, Goto, agent
<1>4. CASE OrdersDone \/ SyncBrokerEvents \/ AskForCommands
  BY <1>4 DEF OrdersDone, SyncBrokerEvents, AskForCommands, Goto
<1>5. CASE ReportCommand \/ CommandsDone \/ Crash
  BY <1>5 DEF ReportCommand, CommandsDone, AfterCommands, Crash, Goto
<1>6. CASE \E o \in Orders : SkipOrder(o) \/ AcknowledgeUnheard(o)
  BY <1>6 DEF SkipOrder, AcknowledgeUnheard, agent
<1>7. CASE OfficeSteps /\ UNCHANGED <<store, market, agent, late>>
  BY <1>7 DEF agent
<1>8. CASE NewDay \/ UNCHANGED vars
  BY <1>8 DEF NewDay, vars, agent
<1>9. CASE Escape
  BY <1>9 DEF Escape
<1> QED
  BY <1>1, <1>2, <1>3, <1>4, <1>5, <1>6, <1>7, <1>8, <1>9

\* A record that is written says something, whoever writes it.
LEMMA NoteKeeps ==
  ASSUME PlacementInv, NEW o \in Orders, NEW s, NEW m \in BrokerOrders \cup {NoOrder},
         Note(o, s, m), s # "none"
  PROVE  /\ DOMAIN record' = Orders
         /\ match' \in [Orders -> BrokerOrders \cup {NoOrder}]
         /\ \A p \in Orders : record'[p] = "none" => record[p] = "none" /\ p # o
         /\ record'[o] = s /\ \A p \in Orders \ {o} : record'[p] = record[p]
BY DEF Note, PlacementInv, StoreInv

LEMMA MarkSubmittingKeeps ==
  ASSUME PlacementInv, NEW o \in Orders, MarkSubmitting(o) PROVE PlacementInv'
<1>1. Note(o, "SUBMITTING", NoOrder) /\ record[o] = "none" /\ UNCHANGED <<broker, placements>>
      /\ held' \subseteq Orders /\ current' = o /\ pc' = "ack"
  BY DEF MarkSubmitting, IsNew, market, PlacementInv, StoreInv
<1> QED
  BY <1>1, NoteKeeps DEF PlacementInv, StoreInv

\* What a recovery may find.
LEMMA FindingFacts ==
  ASSUME PlacementInv, NEW o \in Orders, NEW f \in Findings(o)
  PROVE  /\ f[1] \in BrokerOrders \cup {NoOrder}
         /\ f[2] \in AgentReports \ {"", "FAILED", "none"}
         /\ f[1] = o
              => /\ f[2] = "FILLED" => broker[o] = "succeeded"
                 /\ f[2] = "CANCELED" => broker[o] = "canceled"
         /\ f[1] = NoOrder => f[2] = RECON
<1>1. \A b \in BrokerStates \cup {"none"} :
        /\ StatusOf[b] \notin {"", "FAILED", "none"}
        /\ StatusOf[b] = "FILLED" => b = "succeeded"
        /\ StatusOf[b] = "CANCELED" => b = "canceled"
  BY DEF StatusOf, BrokerStates, RECON
<1>2. RECON \in AgentReports \ {"", "FAILED", "FILLED", "CANCELED", "none"}
  BY DEF RECON, AgentReports
<1>3. CASE f \in {g \in Found(o) \X AgentReports : g[2] \in Shown(g[1])}
  <2>1. f[1] \in Found(o) /\ f[2] \in AgentReports /\ f[2] \in Shown(f[1])
    BY <1>3
  <2>2. f[1] \in BrokerOrders /\ f[1] # NoOrder
    BY <2>1, NoOrderAssumption, StrangersAssumption DEF Found, BrokerOrders
  <2>3. CASE f[1] \in Orders
    <3>1. f[2] = RECON \/ (f[2] = StatusOf[broker[f[1]]])
      BY <2>1, <2>3 DEF Shown
    <3>2. broker[f[1]] \in BrokerStates \cup {"none"}
      BY <2>3 DEF PlacementInv, StoreInv, StatusOf
    <3> QED
      BY <1>1, <1>2, <2>1, <2>2, <3>1, <3>2
  <2>4. CASE f[1] \notin Orders
    BY <1>1, <2>1, <2>2, <2>4, StrangeAssumption DEF Shown
  <2> QED
    BY <2>3, <2>4
<1>4. CASE f \in Candidate(o) \X {RECON}
  BY <1>2, <1>4 DEF Candidate, BrokerOrders
<1> QED
  BY <1>3, <1>4 DEF Findings

LEMMA RecoverKeeps ==
  ASSUME PlacementInv, NEW o \in Orders, RecoverOne(o) PROVE PlacementInv'
<1>1. PICK f \in Findings(o) : Note(o, f[2], f[1])
  BY DEF RecoverOne
<1>2. f[1] \in BrokerOrders \cup {NoOrder} /\ f[2] # "none"
  BY FindingFacts
<1>3. /\ UNCHANGED <<broker, placements, held, current, pc>> /\ pc = "recover"
      /\ todo' = todo \ {o}
  BY DEF RecoverOne, market
<1>4. /\ DOMAIN record' = Orders /\ match' \in [Orders -> BrokerOrders \cup {NoOrder}]
      /\ \A p \in Orders : record'[p] = "none" => record[p] = "none" /\ p # o
      /\ \A p : p # o => record'[p] = record[p]
  BY <1>1, <1>2, NoteKeeps DEF Note, PlacementInv, StoreInv
<1> QED
  BY <1>3, <1>4 DEF PlacementInv, StoreInv, Working, Deciding

\* Record, at the end of execute_order.
LEMMA RecordKeeps ==
  ASSUME PlacementInv, pc \in Working, UNCHANGED market,
         NEW s, s # "none", NEW m \in {current, NoOrder}, Record(s, m)
  PROVE  PlacementInv'
<1>1. Note(current, s, m) /\ UNCHANGED <<broker, placements, held>> /\ pc' = "report"
  BY DEF Record, market
<1>2. current \in Orders /\ m \in BrokerOrders \cup {NoOrder}
  BY DEF PlacementInv, StoreInv, BrokerOrders
<1> QED
  BY <1>1, <1>2, NoteKeeps DEF PlacementInv, StoreInv, Working, Deciding

LEMMA ExecuteKeeps ==
  ASSUME PlacementInv, AskSubmitting \/ Validate \/ RecordOutcome
  PROVE  PlacementInv'
<1>1. CASE AskSubmitting
  <2>1. pc = "ack" /\ pc \in Working /\ UNCHANGED market
    BY <1>1 DEF AskSubmitting, Working, Deciding
  <2>2. CASE Record(RECON, NoOrder)
    BY <2>1, <2>2, RecordKeeps DEF RECON
  <2>3. CASE Goto("validate") /\ UNCHANGED store
    BY <2>1, <2>3 DEF Goto, store, market, PlacementInv, StoreInv, Working, Deciding
  <2>4. CASE UNCHANGED <<agent, store>>
    BY <2>1, <2>4 DEF agent, store, market, PlacementInv, StoreInv, Working, Deciding
  <2> QED
    BY <1>1, <2>2, <2>3, <2>4 DEF AskSubmitting
<1>2. CASE Validate
  <2>1. pc = "validate" /\ pc \in Working /\ UNCHANGED market
    BY <1>2 DEF Validate, Working, Deciding
  <2>2. CASE Record("FAILED", NoOrder)
    BY <2>1, <2>2, RecordKeeps
  <2>3. CASE Goto("submit") /\ UNCHANGED store
    BY <2>1, <2>3 DEF Goto, store, market, PlacementInv, StoreInv, Working, Deciding
  <2> QED
    BY <1>2, <2>2, <2>3 DEF Validate
<1>3. CASE RecordOutcome
  <2>1. PICK s \in {"SUBMITTED", "BROKER_REJECTED", RECON}, m \in {current, NoOrder} :
          Record(s, m)
    BY <1>3 DEF RecordOutcome
  <2>2. pc \in Working /\ UNCHANGED market /\ s # "none"
    BY <1>3 DEF RecordOutcome, Working, RECON
  <2> QED
    BY <2>1, <2>2, RecordKeeps
<1> QED
  BY <1>1, <1>2, <1>3

LEMMA SubmitKeeps == ASSUME PlacementInv, Submit PROVE PlacementInv'
<1>1. /\ current \in Orders /\ placements[current] = 0 /\ record[current] = "SUBMITTING"
      /\ UNCHANGED <<record, match, held, current>> /\ pc' \in {"accepted", "refused", "raised"}
  BY DEF Submit, Goto, store, PlacementInv, StoreInv, Working, Deciding
<1>2. CASE UNCHANGED market
  BY <1>1, <1>2 DEF market, PlacementInv, StoreInv, Working, Deciding
<1>3. CASE Place(current)
  <2>1. broker' \in [Orders -> DOMAIN StatusOf]
    BY <1>3 DEF Place, PlacementInv, StoreInv, StatusOf, BrokerStates
  <2>2. /\ placements' \in [Orders -> Nat] /\ placements'[current] = 1
        /\ \A p \in Orders \ {current} : placements'[p] = placements[p]
    BY <1>1, <1>3 DEF Place, PlacementInv, StoreInv
  <2> QED
    BY <1>1, <2>1, <2>2 DEF PlacementInv, StoreInv, Working, Deciding
<1> QED
  BY <1>2, <1>3 DEF Submit

\* The broker's own steps and the agent's cancel do not place orders.
LEMMA BrokerKeeps ==
  ASSUME PlacementInv, Market \/ \E job \in Orders \X Commands : CancelOrder(job)
  PROVE  PlacementInv'
<1>1. broker' \in [Orders -> DOMAIN StatusOf]
  BY DEF Market, BrokerTrades, BrokerEnds, CancelOrder, PlacementInv, StoreInv,
     StatusOf, BrokerStates
<1>2. UNCHANGED <<record, match, placements, held>> /\ (pc' \in Working => pc' = pc /\ current' = current)
      /\ (pc' = "recover" => pc' = pc /\ todo' = todo)
  BY DEF Market, CancelOrder, store, agent, Working, Deciding
<1> QED
  BY <1>1, <1>2 DEF PlacementInv, StoreInv, Working, Deciding

LEMMA PlacementStep == ASSUME PlacementInv, [Next]_vars PROVE PlacementInv'
BY AsideKeeps, LoopIsAside, MarkSubmittingKeeps, RecoverKeeps, ExecuteKeeps, SubmitKeeps,
   BrokerKeeps
DEF Next, AgentSteps

THEOREM PlacementInvariant == Spec => []PlacementInv
<1>1. Init => PlacementInv
  BY DEF Init, PlacementInv, StoreInv, Working, Deciding, StatusOf
<1> QED
  BY <1>1, PlacementStep, PTL DEF Spec

\* The store alone keeps an order from being placed twice: whatever the server
\* leases, loses or acknowledges, a recorded order is never submitted again.
THEOREM PlacedOnce == Spec => []AtMostOnePlacement
<1>1. PlacementInv => AtMostOnePlacement
  BY DEF PlacementInv, AtMostOnePlacement
<1> QED
  BY <1>1, PlacementInvariant, PTL

----------------------------------------------------------------------------
\* The server's side: no step of it takes an acknowledged order back.

\* The graph has no way out of the acknowledged statuses.
LEMMA AcknowledgedIsClosed ==
  /\ Acknowledged \subseteq Statuses /\ RECON \in Acknowledged
  /\ \A s \in Acknowledged : Edges[s] \subseteq Acknowledged
  /\ Acknowledged \cap ({"absent"} \cup Waiting \cup Queue) = {}
BY EdgeFacts DEF Acknowledged, Sent, Statuses, Final, Waiting, Queue, RECON

StatusTyped == status \in [Orders -> Statuses] /\ approved \in [Orders -> BOOLEAN]
Cleared(o) == status[o] \in Acknowledged /\ approved[o]
StatusMove == StatusTyped' /\ \A o \in Orders : Cleared(o) => Cleared(o)'

\* A single write along the graph.
LEMMA WriteMoves ==
  ASSUME StatusTyped, NEW o, NEW s, Set(o, s), UNCHANGED approved,
         o \in Orders => \/ s = status[o] \/ s \in Edges[status[o]] \cup {RECON}
                         \/ s = "WAITING_APPROVAL" /\ ~approved[o]
  PROVE  StatusMove
<1>1. status' = [status EXCEPT ![o] = s]
  BY DEF Set, SetStatuses
<1>2. o \in Orders => s \in Statuses /\ (Cleared(o) => s \in Acknowledged)
  <2>1. RECON \in Statuses /\ "WAITING_APPROVAL" \in Statuses
    BY DEF Statuses, Waiting, Sent
  <2>2. o \in Orders => /\ status[o] \in Statuses /\ Edges[status[o]] \subseteq Statuses
                        /\ status[o] \in Acknowledged => Edges[status[o]] \subseteq Acknowledged
    BY EdgeFacts, AcknowledgedIsClosed DEF StatusTyped
  <2> QED
    BY <2>1, <2>2, AcknowledgedIsClosed DEF Cleared
<1> QED
  BY <1>1, <1>2 DEF StatusTyped, StatusMove, Cleared

\* A step that leaves the rows' statuses alone.
LEMMA SameMoves == ASSUME StatusTyped, UNCHANGED <<status, approved>> PROVE StatusMove
BY DEF StatusTyped, StatusMove, Cleared

LEMMA EventMoves ==
  ASSUME StatusTyped, NEW e, ServeEvent(e) PROVE StatusMove
<1>1. CASE UNCHANGED server
  BY <1>1, SameMoves DEF server
<1>2. CASE ApplyEvent(e.order, e.id, e.status, e.trades)
  <2> DEFINE target == EventTarget(e.order, e.status)
  <2>1. target \in {"", status[e.order], RECON} \cup Edges[status[e.order]]
    BY DEF EventTarget
  <2>2. PICK s \in {target, status[e.order], RECON} :
          Set(e.order, s) /\ (s = "" => s = status[e.order])
    <3>1. CASE target = ""
      <4>1. Set(e.order, RECON) \/ Set(e.order, status[e.order])
        BY <1>2, <3>1 DEF ApplyEvent
      <4> QED
        BY <4>1 DEF RECON
    <3>2. CASE target # ""
      <4>1. Set(e.order, RECON) \/ Set(e.order, target)
        BY <1>2, <3>2 DEF ApplyEvent
      <4> QED
        BY <4>1, <3>2 DEF RECON
    <3> QED
      BY <3>1, <3>2
  <2>3. s = status[e.order] \/ s \in Edges[status[e.order]] \cup {RECON}
    BY <2>1, <2>2
  <2>4. UNCHANGED approved
    BY <1>2 DEF ApplyEvent
  <2> QED
    BY <2>2, <2>3, <2>4, WriteMoves
<1> QED
  BY <1>1, <1>2 DEF ServeEvent

LEMMA OfficeMoves ==
  ASSUME StatusTyped, OfficeSteps PROVE StatusMove
<1>1. CASE Stop \/ Resume \/ ReleaseLeases
  BY <1>1, SameMoves DEF Stop, Resume, ReleaseLeases
<1>2. CASE ExpireOrders
  <2>1. status' = Expire /\ UNCHANGED approved
    BY <1>2 DEF ExpireOrders, SetStatuses
  <2>2. "EXPIRED" \in Statuses
    BY DEF Statuses, Final
  <2> QED
    BY <2>1, <2>2, AcknowledgedIsClosed DEF StatusTyped, StatusMove, Cleared, Expire, Overdue
<1>3. ASSUME NEW o \in Orders,
             OrderExpires(o) \/ LeaseExpires(o) \/ CheckCreate(o) \/ CheckApprove(o)
      PROVE  StatusMove
  BY <1>3, SameMoves DEF OrderExpires, LeaseExpires, CheckCreate, CheckApprove, FindsNoStop
<1>4. ASSUME NEW o \in Orders, Create(o, "WAITING_APPROVAL")
      PROVE  StatusMove
  <2>1. status[o] \notin Acknowledged /\ "WAITING_APPROVAL" \in Statuses
    BY <1>4, AcknowledgedIsClosed DEF Create, Statuses, Waiting
  <2> QED
    BY <1>4, <2>1 DEF Create, Set, SetStatuses, StatusTyped, StatusMove, Cleared
<1>5. ASSUME NEW o \in Orders, NEW action, Mutate(o, action)
      PROVE  StatusMove
  <2>1. PICK s \in Edges[status[o]] : status' = [status EXCEPT ![o] = s]
    BY <1>5 DEF Mutate, Set, SetStatuses
  <2>2. s \in Statuses /\ (status[o] \in Acknowledged => s \in Acknowledged)
    BY EdgeFacts, AcknowledgedIsClosed DEF StatusTyped
  <2>3. approved' \in [Orders -> BOOLEAN] /\ \A p \in Orders : approved[p] => approved'[p]
    BY <1>5 DEF Mutate, StatusTyped
  <2> QED
    BY <2>1, <2>2, <2>3 DEF StatusTyped, StatusMove, Cleared
<1> QED
  BY <1>1, <1>2, <1>3, <1>4, <1>5 DEF OfficeSteps

\* What a request of the agent does to the book.
AgentRequest ==
  \/ UNCHANGED server \/ LeaseCheck \/ LeaseOrders
  \/ \E o, t : CheckSubmit(o, t)
  \/ \E o : Acknowledge(o)
  \/ \E e : ServeEvent(e)
  \/ \E old : LeaseCommands(old)
  \/ \E o, c, ok : CompleteCommand(o, c, ok)

LEMMA RequestMoves ==
  ASSUME StatusTyped, AgentRequest PROVE StatusMove
<1>1. CASE \/ UNCHANGED server \/ LeaseCheck
           \/ \E o, t : CheckSubmit(o, t)
           \/ \E old : LeaseCommands(old)
  BY <1>1, SameMoves DEF server, LeaseCheck, CheckSubmit, FindsNoStop, LeaseCommands
<1>2. CASE LeaseOrders
  <2>1. \A o \in Orders : \/ status'[o] = status[o]
                          \/ status[o] \in Queue /\ status'[o] \in {"LEASED", "EXPIRED"}
    BY <1>2 DEF LeaseOrders, SetStatuses, Leasable, Reclaimed, Queue
  <2>2. status' = [o \in Orders |-> status'[o]] /\ UNCHANGED approved
    BY <1>2 DEF LeaseOrders, SetStatuses
  <2>3. {"LEASED", "EXPIRED"} \subseteq Statuses
    BY DEF Statuses, Final, Queue
  <2> QED
    BY <2>1, <2>2, <2>3, AcknowledgedIsClosed DEF StatusTyped, StatusMove, Cleared
<1>3. ASSUME NEW o, Acknowledge(o) PROVE StatusMove
  <2>1. \/ Set(o, "SUBMITTING") /\ "SUBMITTING" \in Edges[status[o]]
        \/ Set(o, "WAITING_APPROVAL") /\ ~approved[o]
    BY <1>3 DEF Acknowledge
  <2>2. UNCHANGED approved
    BY <1>3 DEF Acknowledge
  <2> QED
    BY <2>1, <2>2, WriteMoves
<1>4. ASSUME NEW o, NEW c, NEW ok, CompleteCommand(o, c, ok) PROVE StatusMove
  <2>1. CASE Set(o, RECON) /\ UNCHANGED approved
    BY <2>1, WriteMoves
  <2>2. CASE UNCHANGED <<status, approved>>
    BY <2>2, SameMoves
  <2> QED
    BY <1>4, <2>1, <2>2 DEF CompleteCommand
<1> QED
  BY <1>1, <1>2, <1>3, <1>4, EventMoves DEF AgentRequest

\* Every step of the agent makes at most one request.
LEMMA AgentRequests == ASSUME AgentSteps PROVE AgentRequest
<1>1. CASE Deliver \/ PostEnds \/ DeliverLate
  BY <1>1 DEF Deliver, PostEnds, DeliverLate, ServeAck, AgentRequest
<1>2. CASE Start \/ Recovered \/ Heartbeat \/ AskForOrders \/ ReceiveOrders \/ LeaseUnheard
  BY <1>2 DEF Start, Recovered, Heartbeat, AskForOrders, ReceiveOrders, LeaseUnheard, AgentRequest
<1>3. CASE AskSubmitting \/ Validate \/ Escape \/ Submit \/ RecordOutcome \/ OrdersDone
  BY <1>3
  DEF AskSubmitting, Validate, Escape, Submit, RecordOutcome, OrdersDone, AgentRequest
<1>4. CASE SyncBrokerEvents \/ AskForCommands \/ ReportCommand \/ CommandsDone \/ Crash
  BY <1>4 DEF SyncBrokerEvents, AskForCommands, ReportCommand, CommandsDone, Crash, AgentRequest
<1>5. CASE \E o \in Orders :
             RecoverOne(o) \/ SkipOrder(o) \/ MarkSubmitting(o) \/ AcknowledgeUnheard(o)
  BY <1>5 DEF RecoverOne, SkipOrder, MarkSubmitting, AcknowledgeUnheard, AgentRequest
<1>6. CASE \E job \in Orders \X Commands : CancelOrder(job)
  BY <1>6 DEF CancelOrder, AgentRequest
<1> QED
  BY <1>1, <1>2, <1>3, <1>4, <1>5, <1>6 DEF AgentSteps

LEMMA StatusStep == ASSUME StatusTyped, [Next]_vars PROVE StatusMove
<1>1. CASE AgentSteps
  BY <1>1, AgentRequests, RequestMoves
<1>2. CASE Market \/ NewDay \/ UNCHANGED vars
  BY <1>2, SameMoves DEF Market, NewDay, vars, server
<1>3. CASE OfficeSteps
  BY <1>3, OfficeMoves
<1> QED
  BY <1>1, <1>2, <1>3 DEF Next

----------------------------------------------------------------------------
\* Between the acknowledgement and the broker call the order is acknowledged.
Onway == {"validate", "submit"}
SentInv ==
  /\ StatusTyped
  /\ pc \in Onway => Cleared(current)
  /\ PlacedOrdersAreSent

\* The path to the broker is entered by the acknowledgement alone.
LEMMA PathStep ==
  ASSUME PlacementInv, [Next]_vars, pc' \in Onway
  PROVE  /\ current' = current /\ current \in Orders
         /\ pc \in Onway \/ (approved[current] /\ Acknowledge(current))
<1> USE DEF PlacementInv, StoreInv, Working, Deciding, Onway
<1>1. CASE AskSubmitting \/ Validate \/ RecordOutcome
  BY <1>1 DEF AskSubmitting, Validate, RecordOutcome, Record, Goto, agent
<1>2. CASE Submit \/ \E o \in Orders : RecoverOne(o) \/ MarkSubmitting(o)
  BY <1>2 DEF Submit, Goto, RecoverOne, MarkSubmitting
<1>3. CASE Market \/ \E job \in Orders \X Commands : CancelOrder(job)
  BY <1>3 DEF Market, CancelOrder, agent
<1>4. CASE Aside
  BY <1>4 DEF Aside
<1> QED
  BY <1>1, <1>2, <1>3, <1>4, LoopIsAside DEF Next, AgentSteps

\* Orders come to the broker only from there.
LEMMA BrokerStep ==
  ASSUME PlacementInv, [Next]_vars, NEW o \in Orders, broker'[o] # "none"
  PROVE  broker[o] # "none" \/ (pc = "submit" /\ o = current)
<1> USE DEF PlacementInv, StoreInv
<1>1. CASE \/ AskSubmitting \/ Validate \/ RecordOutcome \/ Aside
           \/ \E p \in Orders : RecoverOne(p) \/ MarkSubmitting(p)
  BY <1>1 DEF AskSubmitting, Validate, RecordOutcome, RecoverOne, MarkSubmitting, market, Aside
<1>2. CASE Submit
  BY <1>2 DEF Submit, Place, market
<1>3. CASE Market \/ \E job \in Orders \X Commands : CancelOrder(job)
  BY <1>3 DEF Market, BrokerTrades, BrokerEnds, CancelOrder
<1> QED
  BY <1>1, <1>2, <1>3, LoopIsAside DEF Next, AgentSteps

LEMMA SentStep == ASSUME PlacementInv, SentInv, [Next]_vars PROVE SentInv'
<1>1. StatusMove
  BY StatusStep DEF SentInv
<1>2. ASSUME pc' \in Onway PROVE Cleared(current)'
  <2>1. current' = current /\ current \in Orders
    BY <1>2, PathStep
  <2>2. CASE pc \in Onway
    BY <1>1, <2>1, <2>2 DEF SentInv, StatusMove, Cleared
  <2>3. CASE approved[current] /\ Acknowledge(current)
    <3>1. status' = [status EXCEPT ![current] = "SUBMITTING"] /\ approved' = approved
      BY <2>3 DEF Acknowledge, Set, SetStatuses
    <3> QED
      BY <2>1, <2>3, <3>1 DEF SentInv, StatusTyped, Acknowledged, Sent, Cleared
  <2> QED
    BY <1>2, <2>2, <2>3, PathStep
<1>3. ASSUME NEW o \in Orders, broker'[o] # "none" PROVE Cleared(o)'
  <2>1. Cleared(o)
    BY <1>3, BrokerStep DEF SentInv, PlacedOrdersAreSent, Onway, Cleared
  <2> QED
    BY <1>1, <2>1 DEF StatusMove
<1>4. PlacedOrdersAreSent'
  BY <1>3 DEF PlacedOrdersAreSent, Cleared
<1> QED
  BY <1>1, <1>2, <1>4 DEF SentInv, StatusMove

\* Whatever is at the broker was acknowledged by the server, which keeps it out
\* of the queue: the agent's barrier and the server's graph together.
THEOREM PlacedIsAcknowledged == Spec => []PlacedOrdersAreSent
<1>1. Init => SentInv
  BY DEF Init, ServerInit, SentInv, StatusTyped, Statuses, Onway, PlacedOrdersAreSent
<1>2. SentInv => PlacedOrdersAreSent
  BY DEF SentInv
<1> QED
  BY <1>1, <1>2, SentStep, PlacementInvariant, PTL DEF Spec

----------------------------------------------------------------------------
(* Outcomes. *)

\* Listing a finite set gives a sequence over it.
LEMMA SetToSeqType == ASSUME NEW S, IsFiniteSet(S) PROVE SetToSeq(S) \in Seq(S)
<1>1. Cardinality(S) \in Nat /\ ExistsBijection(1..Cardinality(S), S)
  BY FS_CardinalityType
<1>2. PICK f : f \in [1..Cardinality(S) -> S] /\ IsInjective(f)
  BY <1>1 DEF ExistsBijection, Bijection, Injection
<1>3. SetToSeq(S) \in [1..Cardinality(S) -> S]
  BY <1>2 DEF SetToSeq
<1> QED
  BY <1>1, <1>3

----------------------------------------------------------------------------
\* Types.

LiveAtBroker == {"reported", "partsucc", "canceling"}

\* What the broker has of each order; a live order is not traded in full.
MarketInv ==
  /\ traded \in [Orders -> 0..Quantity]
  /\ past \subseteq Orders
  /\ \A o \in Orders :
       /\ placements[o] = 0 => broker[o] = "none" /\ traded[o] = 0
       /\ broker[o] \in LiveAtBroker => traded[o] < Quantity

\* A command is reported with the answer to it at hand.
AgentInv ==
  /\ pc \in PCs
  /\ todo \subseteq Orders
  /\ current \in Orders \cup {NoOrder}
  /\ lease \in [Orders -> 0..MaxLeases]
  /\ record \in [Orders -> AgentReports \cup {"none", "SUBMITTING"}]
  /\ outbox \in Seq(Events)
  /\ jobs \subseteq Orders \X Commands
  /\ answer \in {<<>>} \cup ((Orders \X Commands) \X BOOLEAN)
  /\ pc = "complete" => answer \in (Orders \X Commands) \X BOOLEAN
  /\ trading \in BOOLEAN
  /\ late \subseteq Events \cup Acks

TypesInv == BookInv /\ PlacementInv /\ MarketInv /\ AgentInv

LEMMA TypesInvIsTypeOK == TypesInv => TypeOK
BY DEF TypesInv, BookInv, PlacementInv, StoreInv, MarketInv, AgentInv, TypeOK

\* What the agent may report.
LEMMA ReportableFacts ==
  /\ \A b \in DOMAIN StatusOf : StatusOf[b] \in AgentReports \ {"FAILED", ""}
  /\ {"", RECON, "FAILED", "SUBMITTED", "BROKER_REJECTED"} \subseteq AgentReports
  /\ AgentReports \subseteq Reportable
<1>1. \A b \in DOMAIN StatusOf : StatusOf[b] \in AgentReports \ {"FAILED", ""}
  BY DEF StatusOf, BrokerStates, AgentReports, RECON
<1>2. AgentReports \subseteq Reportable
  BY DEF AgentReports, Reportable, Statuses, Sent, Final, RECON
<1> QED
  BY <1>1, <1>2 DEF AgentReports

\* The events it builds are events.
LEMMA EventType ==
  ASSUME NEW o \in Orders, NEW id \in AgentEventIds, NEW s \in AgentReports,
         NEW t \in SUBSET AgentTrades
  PROVE  Event(o, id, s, t) \in Events
BY DEF Event, Events

LEMMA EventTypes ==
  ASSUME NEW o \in Orders
  PROVE  /\ \A s \in AgentReports : ReportEvent(o, s) \in Events
         /\ \A s \in AgentReports, m \in BrokerOrders \cup {NoOrder} : RecoveryEvent(o, s, m) \in Events
         /\ \A n \in 1..Quantity : TradeEvent(o, n) \in Events
         /\ TypesInv => \A b \in DOMAIN StatusOf : OrderEvent(o, b) \in Events
<1>1. \A s \in AgentReports : ReportEvent(o, s) \in Events
  BY DEF ReportEvent, Event, Events, AgentEventIds
<1>2. \A s \in AgentReports, m \in BrokerOrders \cup {NoOrder} : RecoveryEvent(o, s, m) \in Events
  BY DEF RecoveryEvent, Event, Events, AgentEventIds
<1>3. \A n \in 1..Quantity : TradeEvent(o, n) \in Events
  <2> SUFFICES ASSUME NEW n \in 1..Quantity PROVE TradeEvent(o, n) \in Events
    OBVIOUS
  <2>1. <<"trade", o, n>> \in AgentEventIds
    BY DEF AgentEventIds
  <2>2. {<<o, n>>} \in SUBSET AgentTrades
    BY DEF AgentTrades
  <2> QED
    BY <2>1, <2>2, ReportableFacts, EventType DEF TradeEvent
<1>4. TypesInv => \A b \in DOMAIN StatusOf : OrderEvent(o, b) \in Events
  <2> SUFFICES ASSUME TypesInv, NEW b \in DOMAIN StatusOf PROVE OrderEvent(o, b) \in Events
    OBVIOUS
  <2>1. traded[o] \in 0..Quantity
    BY DEF TypesInv, MarketInv
  <2>2. StatusOf[b] \in AgentReports
    BY ReportableFacts
  <2>3. <<"order", o, b, traded[o]>> \in AgentEventIds
    BY <2>1 DEF AgentEventIds
  <2> QED
    BY <2>2, <2>3, EventType DEF OrderEvent
<1> QED
  BY <1>1, <1>2, <1>3, <1>4

LEMMA TradeEventsAreFinite == IsFiniteSet(TradeEvents)
<1> DEFINE S == Orders \X (1..Quantity)
           T == {TradeEvent(o, n) : o \in Orders, n \in 1..Quantity}
           f == [x \in S |-> TradeEvent(x[1], x[2])]
<1>1. IsFiniteSet(S)
  <2>1. IsFiniteSet(1..Quantity)
    BY QuantityAssumption, FS_Interval
  <2> QED
    BY <2>1, OrdersAssumption, FS_Product
<1>2. f \in Surjection(S, T)
  <2>1. f \in [S -> T]
    OBVIOUS
  <2>2. ASSUME NEW t \in T PROVE \E x \in S : f[x] = t
    <3>1. PICK o \in Orders, n \in 1..Quantity : t = TradeEvent(o, n)
      OBVIOUS
    <3>2. <<o, n>> \in S /\ f[<<o, n>>] = t
      BY <3>1
    <3> QED
      BY <3>2
  <2> QED
    BY <2>1, <2>2 DEF Surjection
<1> HIDE DEF f, S
<1>3. IsFiniteSet(T)
  BY <1>1, <1>2, FS_Surjection
<1>4. TradeEvents \in SUBSET T
  BY DEF TradeEvents
<1> QED
  BY <1>3, <1>4, FS_Subset

LEMMA OrderEventsAreFinite == ASSUME NEW unsure PROVE IsFiniteSet(OrderEvents(unsure))
<1> DEFINE S == {p \in Orders : Visible(p)}
           f == [o \in S |-> OrderEvent(o, IF o \in unsure THEN "unknown" ELSE broker[o])]
<1>1. IsFiniteSet(S)
  BY OrdersAssumption, FS_Subset
<1>2. f \in Surjection(S, OrderEvents(unsure))
  <2>1. f \in [S -> OrderEvents(unsure)]
    BY DEF OrderEvents
  <2>2. ASSUME NEW e \in OrderEvents(unsure) PROVE \E o \in S : f[o] = e
    BY DEF OrderEvents
  <2> QED
    BY <2>1, <2>2 DEF Surjection
<1> HIDE DEF f, S
<1> QED
  BY <1>1, <1>2, FS_Surjection

\* The polled events are trades and orders.
LEMMA PolledFacts ==
  ASSUME NEW unsure
  PROVE  /\ Polled(unsure) \in Seq(TradeEvents \cup OrderEvents(unsure))
         /\ TypesInv => TradeEvents \cup OrderEvents(unsure) \subseteq Events
<1> DEFINE all == SetToSeq(TradeEvents) \o SetToSeq(OrderEvents(unsure))
           posted == {all[i] : i \in {j \in DOMAIN all : j <= PollLimit}}
           Fresh(events) == {e \in events \cap posted : e.id \notin applied}
<1> HIDE DEF posted
<1>1. ASSUME NEW events, IsFiniteSet(events)
      PROVE  SetToSeq(Fresh(events)) \in Seq(events)
  <2>1. Fresh(events) \in SUBSET events
    OBVIOUS
  <2>2. IsFiniteSet(Fresh(events))
    BY <1>1, <2>1, FS_Subset
  <2> HIDE DEF Fresh
  <2> QED
    BY <2>1, <2>2, SetToSeqType, SeqMonotonic
<1>2. Polled(unsure) = SetToSeq(Fresh(TradeEvents)) \o SetToSeq(Fresh(OrderEvents(unsure)))
  BY DEF Polled, posted
<1> HIDE DEF Fresh
<1>3. /\ SetToSeq(Fresh(TradeEvents)) \in Seq(TradeEvents \cup OrderEvents(unsure))
      /\ SetToSeq(Fresh(OrderEvents(unsure))) \in Seq(TradeEvents \cup OrderEvents(unsure))
  BY <1>1, TradeEventsAreFinite, OrderEventsAreFinite, SeqMonotonic
<1>4. Polled(unsure) \in Seq(TradeEvents \cup OrderEvents(unsure))
  BY <1>2, <1>3, ConcatProperties
<1>5. TypesInv => TradeEvents \cup OrderEvents(unsure) \subseteq Events
  <2> SUFFICES ASSUME TypesInv PROVE TradeEvents \cup OrderEvents(unsure) \subseteq Events
    OBVIOUS
  <2>1. TradeEvents \subseteq Events
    BY EventTypes DEF TradeEvents
  <2>2. \A o \in Orders : broker[o] \in DOMAIN StatusOf /\ "unknown" \in DOMAIN StatusOf
    BY DEF TypesInv, PlacementInv, StoreInv, StatusOf, BrokerStates
  <2>3. OrderEvents(unsure) \subseteq Events
    BY <2>2, EventTypes DEF OrderEvents
  <2> QED
    BY <2>1, <2>3
<1> QED
  BY <1>4, <1>5

----------------------------------------------------------------------------
\* The requests of this agent are those of any agent.

Request ==
  \/ UNCHANGED server \/ LeaseCheck \/ LeaseOrders
  \/ \E o \in Orders : Acknowledge(o) \/ \E t : CheckSubmit(o, t)
  \/ \E e \in Events \cap (ToSet(outbox) \cup (late \ Acks)) : ServeEvent(e)
  \/ \E old \in SUBSET LeasedCommands : LeaseCommands(old)
  \/ \E o \in Orders, c \in Commands, ok \in BOOLEAN : CompleteCommand(o, c, ok)

LEMMA HeadIsEvent ==
  ASSUME TypesInv, outbox # <<>>
  PROVE  Head(outbox) \in Events \cap ToSet(outbox)
<1>1. outbox \in Seq(Events) /\ Head(outbox) \in Events
  BY HeadTailProperties DEF TypesInv, AgentInv
<1>2. Head(outbox) = outbox[1] /\ 1 \in DOMAIN outbox
  BY <1>1, EmptySeq, LenProperties
<1> QED
  BY <1>1, <1>2 DEF ToSet

LEMMA RequestsAreTyped == ASSUME TypesInv, AgentSteps PROVE Request
<1>1. CASE Deliver
  BY <1>1, HeadIsEvent DEF Deliver, Request
<1>2. CASE DeliverLate
  <2>1. PICK m \in late : IF m \in Acks THEN ServeAck(m) ELSE ServeEvent(m)
    BY <1>2 DEF DeliverLate
  <2>2. CASE m \in Acks
    <3>1. m.order \in Orders
      BY <2>2 DEF Acks
    <3> QED
      BY <2>1, <2>2, <3>1 DEF ServeAck, Request
  <2>3. CASE m \notin Acks
    BY <2>1, <2>3 DEF TypesInv, AgentInv, Request
  <2> QED
    BY <2>2, <2>3
<1>3. CASE Start \/ Recovered \/ Heartbeat \/ AskForOrders \/ ReceiveOrders \/ LeaseUnheard
  BY <1>3 DEF Start, Recovered, Heartbeat, AskForOrders, ReceiveOrders, LeaseUnheard, Request
<1>4. CASE AskSubmitting
  <2>1. current \in Orders
    BY <1>4 DEF AskSubmitting, TypesInv, PlacementInv, StoreInv, Working, Deciding
  <2> QED
    BY <1>4, <2>1 DEF AskSubmitting, Request
<1>5. CASE PostEnds \/ Validate \/ Escape \/ Submit \/ RecordOutcome \/ OrdersDone
  BY <1>5 DEF PostEnds, Validate, Escape, Submit, RecordOutcome, OrdersDone, Request
<1>6. CASE SyncBrokerEvents \/ AskForCommands \/ CommandsDone \/ Crash
  BY <1>6 DEF SyncBrokerEvents, AskForCommands, CommandsDone, Crash, Request
<1>7. CASE ReportCommand
  <2>1. answer \in (Orders \X Commands) \X BOOLEAN
    BY <1>7 DEF ReportCommand, TypesInv, AgentInv
  <2>2. answer[1][1] \in Orders /\ answer[1][2] \in Commands /\ answer[2] \in BOOLEAN
    BY <2>1
  <2> QED
    BY <1>7, <2>2 DEF ReportCommand, Request
<1>8. CASE \E o \in Orders :
             RecoverOne(o) \/ SkipOrder(o) \/ MarkSubmitting(o) \/ AcknowledgeUnheard(o)
  BY <1>8 DEF RecoverOne, SkipOrder, MarkSubmitting, AcknowledgeUnheard, Request
<1>9. CASE \E job \in Orders \X Commands : CancelOrder(job)
  BY <1>9 DEF CancelOrder, Request
<1> QED
  BY <1>1, <1>2, <1>3, <1>4, <1>5, <1>6, <1>7, <1>8, <1>9 DEF AgentSteps

\* An event of the agent is an event of any agent.
LEMMA ServedEvent ==
  ASSUME NEW e \in Events, ServeEvent(e)
  PROVE  \/ UNCHANGED server
         \/ /\ ApplyEvent(e.order, e.id, e.status, e.trades)
            /\ e.order \in Orders /\ e.id \in EventIds /\ e.status \in Reportable
            /\ e.trades \in SUBSET Trades
BY EventIdsAssumption, AgentTradesAssumption, ReportableFacts DEF ServeEvent, Events

\* A resume of this composition moves no row.
LEMMA ResumeStep == ASSUME BookInv, Resume PROVE Types /\ Rows /\ Kept
<1>1. Types
  BY DEF Resume, BookInv, ServerTypeOK, PreviewsAreCurrent, Types
<1>2. UNCHANGED <<status, fills, approved, passed, applied>> /\ Phase' = Phase
      /\ stopped = TRUE /\ stopped' = FALSE
  BY DEF Resume, Phase, BookInv, ServerTypeOK
<1>3. Promise!Switch
  BY <1>2 DEF Promise!Switch
<1>4. Kept
  BY <1>2, <1>3 DEF Kept, Promise!Next, Promise!Moves
<1>5. Rows
  BY <1>2, NoMove
<1> QED
  BY <1>1, <1>4, <1>5

LEMMA OfficeBook == ASSUME BookInv, OfficeSteps PROVE Types /\ Rows /\ Kept
<1>1. CASE Stop \/ ReleaseLeases \/ \E o \in Orders : OrderExpires(o) \/ LeaseExpires(o)
  BY <1>1, QuietSteps, QuietKept DEF QuietStep
<1>2. ASSUME NEW o \in Orders, Create(o, "WAITING_APPROVAL") PROVE Types /\ Rows /\ Kept
  <2>1. "WAITING_APPROVAL" \in Statuses
    BY DEF Statuses, Waiting
  <2> QED
    BY <1>2, <2>1, CreateStep, CreateKept
<1>3. CASE \E o \in Orders : CheckCreate(o) \/ CheckApprove(o)
  BY <1>3, CheckSteps, CheckKept DEF CheckStep
<1> QED
  BY <1>1, <1>2, <1>3, ResumeStep, ExpireStep, ExpireKept, MutateStep, MutateKept
  DEF OfficeSteps

LEMMA RequestBook == ASSUME BookInv, Request PROVE Types /\ Rows /\ Kept
<1>1. CASE UNCHANGED server
  <2>1. UNCHANGED Promise!vars
    BY <1>1 DEF Promise!vars, server, Phase
  <2> QED
    BY <1>1, <2>1, BookStutter DEF Kept
<1>2. CASE LeaseCheck
  BY <1>2, QuietSteps, QuietKept DEF QuietStep
<1>3. ASSUME NEW e \in Events, ServeEvent(e) PROVE Types /\ Rows /\ Kept
  BY <1>1, <1>3, ServedEvent, EventStep, EventKept
<1>4. CASE \E o \in Orders : \E t : CheckSubmit(o, t)
  BY <1>4, CheckSteps, CheckKept DEF CheckStep
<1> QED
  BY <1>1, <1>2, <1>3, <1>4, LeaseStep, LeaseKept, AcknowledgeStep, AcknowledgeKept,
     CommandSteps, CommandsKept DEF Request

LEMMA AgentBook == ASSUME TypesInv, [Next]_vars PROVE Types /\ Rows /\ Kept
<1> USE DEF TypesInv
<1>1. CASE AgentSteps
  BY <1>1, RequestsAreTyped, RequestBook
<1>2. CASE Market \/ NewDay \/ UNCHANGED vars
  BY <1>2, RequestBook DEF Market, NewDay, vars, Request, server
<1>3. CASE OfficeSteps
  BY <1>3, OfficeBook
<1> QED
  BY <1>1, <1>2, <1>3 DEF Next

LEMMA BookKeeps == ASSUME TypesInv, [Next]_vars PROVE BookInv'
BY AgentBook DEF Types, BookInv

----------------------------------------------------------------------------
\* What a step may do at the broker.
Ended == {"succeeded", "canceled", "junk"}
Cancels(o) ==
  /\ broker[o] \in {"reported", "partsucc"}
  /\ broker' = [broker EXCEPT ![o] = "canceling"]
  /\ UNCHANGED traded

MarketMove ==
  /\ past' = past \/ past' \subseteq Orders
  /\ \/ UNCHANGED <<broker, traded, placements>>
     \/ \E o \in Orders : (BrokerTrades(o) \/ BrokerEnds(o) \/ Cancels(o)) /\ UNCHANGED placements
     \/ pc = "submit" /\ Place(current)

LEMMA MarketMoves == ASSUME PlacementInv, [Next]_vars PROVE MarketMove
<1>1. CASE \/ AskSubmitting \/ Validate \/ RecordOutcome \/ Aside
           \/ \E p \in Orders : RecoverOne(p) \/ MarkSubmitting(p)
  BY <1>1 DEF AskSubmitting, Validate, RecordOutcome, RecoverOne, MarkSubmitting, Aside, market,
     MarketMove
<1>2. CASE Submit \/ Market
  BY <1>2 DEF Submit, Place, Market, market, MarketMove
<1>3. ASSUME NEW job \in Orders \X Commands, CancelOrder(job) PROVE MarketMove
  <2>1. \/ UNCHANGED <<broker, traded, placements>>
        \/ \E p \in Orders : Cancels(p) /\ UNCHANGED placements
    BY <1>3 DEF CancelOrder, Cancels
  <2>2. past' = past
    BY <1>3 DEF CancelOrder
  <2> QED
    BY <2>1, <2>2 DEF MarketMove
<1> QED
  BY <1>1, <1>2, <1>3, LoopIsAside DEF Next, AgentSteps

\* What the broker finished stays as it is, and what it traded is traded.
MarketKept ==
  \A o \in Orders :
    /\ broker[o] \in Ended => broker'[o] = broker[o]
    /\ traded[o] \in Nat /\ traded'[o] \in Nat /\ traded[o] <= traded'[o]

LEMMA MarketStep == ASSUME TypesInv, [Next]_vars PROVE MarketInv' /\ MarketKept
<1>1. MarketInv /\ PlacementInv /\ MarketMove /\ Quantity \in Nat \ {0} /\ past' \subseteq Orders
  BY MarketMoves, QuantityAssumption DEF TypesInv, MarketInv, MarketMove
<1>2. broker \in [Orders -> DOMAIN StatusOf] /\ placements \in [Orders -> Nat]
  BY <1>1 DEF PlacementInv, StoreInv
<1>3. CASE UNCHANGED <<broker, traded, placements>>
  BY <1>1, <1>3 DEF MarketInv, MarketKept
<1>4. ASSUME NEW o \in Orders, BrokerTrades(o), UNCHANGED placements
      PROVE  MarketInv' /\ MarketKept
  <2>1. broker[o] \in LiveAtBroker /\ traded[o] < Quantity /\ placements[o] # 0
    BY <1>1, <1>4 DEF BrokerTrades, MarketInv, LiveAtBroker
  <2>2. traded'[o] = traded[o] + 1 /\ traded' = [traded EXCEPT ![o] = traded[o] + 1]
    BY <1>1, <1>4 DEF BrokerTrades, MarketInv
  <2>3. traded' \in [Orders -> 0..Quantity]
    BY <1>1, <2>1, <2>2 DEF MarketInv
  <2>4. /\ broker'[o] \in LiveAtBroker => traded'[o] # Quantity
        /\ \A p \in Orders \ {o} : broker'[p] = broker[p] /\ traded'[p] = traded[p]
    BY <1>1, <1>2, <1>4, <2>2 DEF BrokerTrades, LiveAtBroker, MarketInv
  <2> QED
    BY <1>1, <1>4, <2>1, <2>2, <2>3, <2>4 DEF MarketInv, MarketKept, Ended, LiveAtBroker
<1>5. ASSUME NEW o \in Orders, BrokerEnds(o) \/ Cancels(o), UNCHANGED placements
      PROVE  MarketInv' /\ MarketKept
  <2>1. broker[o] \in LiveAtBroker /\ UNCHANGED traded /\ placements[o] # 0
    BY <1>1, <1>5 DEF BrokerEnds, Cancels, MarketInv, LiveAtBroker
  <2>2. \A p \in Orders \ {o} : broker'[p] = broker[p]
    BY <1>2, <1>5 DEF BrokerEnds, Cancels
  <2>3. ASSUME NEW p \in Orders
        PROVE  /\ broker'[p] \in LiveAtBroker => broker[p] \in LiveAtBroker
               /\ broker[p] \in Ended => broker'[p] = broker[p]
               /\ broker[p] = "none" => broker'[p] = "none"
    BY <2>1, <2>2 DEF LiveAtBroker, Ended
  <2> QED
    BY <1>1, <1>5, <2>1, <2>3 DEF MarketInv, MarketKept
<1>6. CASE pc = "submit" /\ Place(current)
  <2>1. current \in Orders /\ placements[current] = 0
    BY <1>1, <1>6 DEF PlacementInv, StoreInv, Working, Deciding
  <2>2. broker[current] = "none" /\ traded[current] = 0 /\ placements'[current] = 1
    BY <1>1, <1>2, <1>6, <2>1 DEF MarketInv, Place
  <2>3. \A p \in Orders \ {current} : broker'[p] = broker[p] /\ placements'[p] = placements[p]
    BY <1>6 DEF Place
  <2> QED
    BY <1>1, <1>6, <2>1, <2>2, <2>3 DEF Place, MarketInv, MarketKept, Ended, LiveAtBroker
<1> QED
  BY <1>1, <1>3, <1>4, <1>5, <1>6 DEF MarketMove

----------------------------------------------------------------------------
\* The agent keeps its types.

LEMMA NoteTypes ==
  ASSUME AgentInv, NEW o \in Orders, NEW s \in AgentReports \cup {"SUBMITTING"}, NEW m, Note(o, s, m)
  PROVE  record' \in [Orders -> AgentReports \cup {"none", "SUBMITTING"}]
BY DEF Note, AgentInv

LEMMA EventTail == ASSUME TypesInv, outbox # <<>> PROVE Tail(outbox) \in Seq(Events)
BY HeadTailProperties DEF TypesInv, AgentInv

LEMMA OutboxEvents == ASSUME TypesInv PROVE ToSet(outbox) \subseteq Events
<1>1. outbox \in [1..Len(outbox) -> Events] /\ DOMAIN outbox = 1..Len(outbox)
  BY LenProperties DEF TypesInv, AgentInv
<1> QED
  BY <1>1 DEF ToSet

LEMMA PostTypes ==
  ASSUME TypesInv, Deliver \/ PostEnds \/ DeliverLate PROVE AgentInv'
<1> USE DEF TypesInv, AgentInv
<1>1. CASE Deliver
  BY <1>1, EventTail DEF Deliver, store
<1>2. CASE PostEnds
  <2>1. late' \subseteq Events \cup Acks
    BY <1>2, OutboxEvents DEF PostEnds, GiveUp
  <2>2. pc' \in PCs /\ pc' # "complete"
    BY <1>2 DEF PostEnds, AfterPost, AfterSync, PCs
  <2>3. outbox' \in Seq(Events)
    BY <1>2 DEF PostEnds
  <2> QED
    BY <1>2, <2>1, <2>2, <2>3 DEF PostEnds, store
<1>3. CASE DeliverLate
  BY <1>3 DEF DeliverLate, store, agent
<1> QED
  BY <1>1, <1>2, <1>3

LEMMA RecoverTypes ==
  ASSUME TypesInv, Start \/ Recovered \/ Heartbeat \/ \E o \in Orders : RecoverOne(o)
  PROVE  AgentInv'
<1> USE DEF TypesInv, AgentInv
<1>1. CASE Start \/ Recovered \/ Heartbeat
  BY <1>1 DEF Start, Recovered, Heartbeat, PCs, Posts, store
<1>2. ASSUME NEW o \in Orders, RecoverOne(o) PROVE AgentInv'
  <2>1. PICK f \in Findings(o) :
          Note(o, f[2], f[1]) /\ outbox' = Append(outbox, RecoveryEvent(o, f[2], f[1]))
    BY <1>2 DEF RecoverOne
  <2>2. PICK s \in AgentReports, m \in BrokerOrders \cup {NoOrder} : s = f[2] /\ m = f[1]
    BY FindingFacts
  <2>3. RecoveryEvent(o, s, m) \in Events
    BY EventTypes
  <2>4. outbox' \in Seq(Events) /\ record' \in [Orders -> AgentReports \cup {"none", "SUBMITTING"}]
    BY <2>1, <2>2, <2>3, NoteTypes, AppendProperties
  <2> QED
    BY <1>2, <2>4 DEF RecoverOne
<1> QED
  BY <1>1, <1>2

LEMMA LeaseTypes ==
  ASSUME TypesInv, ServerTypeOK',
         AskForOrders \/ ReceiveOrders \/ LeaseUnheard
           \/ \E o \in Orders : SkipOrder(o) \/ AcknowledgeUnheard(o)
  PROVE  AgentInv'
<1> USE DEF TypesInv, AgentInv
<1>1. CASE AskForOrders
  BY <1>1 DEF AskForOrders, Goto, PCs, store
<1>2. CASE ReceiveOrders
  BY <1>2 DEF ReceiveOrders, PCs, store, ServerTypeOK
<1>3. CASE LeaseUnheard \/ \E o \in Orders : SkipOrder(o) \/ AcknowledgeUnheard(o)
  BY <1>3 DEF LeaseUnheard, SkipOrder, AcknowledgeUnheard, Goto, PCs, store, agent
<1> QED
  BY <1>1, <1>2, <1>3

\* Record leaves the report it posts.
LEMMA RecordTypes ==
  ASSUME TypesInv, pc \in Working, NEW s \in AgentReports, NEW m, Record(s, m),
         late' \subseteq Events \cup Acks
  PROVE  AgentInv'
<1>1. current \in Orders
  BY DEF TypesInv, PlacementInv, StoreInv
<1>2. record' \in [Orders -> AgentReports \cup {"none", "SUBMITTING"}]
  BY <1>1, NoteTypes DEF Record, TypesInv
<1>3. ReportEvent(current, s) \in Events
  BY <1>1, EventTypes
<1>4. outbox' \in Seq(Events)
  BY <1>3 DEF Record
<1> QED
  BY <1>2, <1>4 DEF Record, TypesInv, AgentInv, PCs, Posts

\* An escape leaves at most an acknowledgement on its way.
LEMMA EscapesLate == ASSUME TypesInv, Escape PROVE late' \subseteq late \cup Acks
<1>1. CASE pc = "ack"
  <2>1. [order |-> current, token |-> lease[current]] \in Acks
    BY <1>1 DEF Acks, TypesInv, AgentInv, PlacementInv, StoreInv, Working, Deciding
  <2> QED
    BY <1>1, <2>1 DEF Escape, AckFails, GiveUp
<1> QED
  BY <1>1 DEF Escape

LEMMA ExecuteTypes ==
  ASSUME TypesInv,
         AskSubmitting \/ Validate \/ Escape \/ Submit \/ RecordOutcome \/ OrdersDone
           \/ \E o \in Orders : MarkSubmitting(o)
  PROVE  AgentInv'
<1>1. CASE AskSubmitting
  <2>1. pc \in Working /\ current \in Orders
    BY <1>1 DEF AskSubmitting, TypesInv, PlacementInv, StoreInv, Working, Deciding
  <2>2. CASE Goto("validate") /\ UNCHANGED <<store, late>>
    BY <2>2 DEF Goto, store, TypesInv, AgentInv, PCs
  <2>3. CASE Record(RECON, NoOrder) /\ late' \subseteq Events \cup Acks
    BY <2>1, <2>3, RecordTypes, ReportableFacts
  <2>4. [order |-> current, token |-> lease[current]] \in Acks
    BY <2>1 DEF Acks, TypesInv, AgentInv
  <2>5. CASE UNCHANGED <<agent, store, late>>
    BY <2>5 DEF agent, store, TypesInv, AgentInv
  <2> QED
    BY <1>1, <2>2, <2>3, <2>4, <2>5 DEF AskSubmitting, AckFails, GiveUp, TypesInv, AgentInv
<1>2. CASE Validate \/ RecordOutcome
  <2>1. pc \in Working /\ UNCHANGED late
    BY <1>2 DEF Validate, RecordOutcome, Working, Deciding
  <2>2. CASE Goto("submit") /\ UNCHANGED store
    BY <2>1, <2>2 DEF Goto, store, TypesInv, AgentInv, PCs
  <2>3. ASSUME NEW s \in {"FAILED", "SUBMITTED", "BROKER_REJECTED", RECON}, NEW m, Record(s, m)
        PROVE  AgentInv'
    BY <2>1, <2>3, RecordTypes, ReportableFacts DEF TypesInv, AgentInv
  <2> QED
    BY <1>2, <2>2, <2>3 DEF Validate, RecordOutcome
<1>3. CASE Submit \/ OrdersDone
  BY <1>3 DEF Submit, OrdersDone, Goto, store, TypesInv, AgentInv, PCs
<1>4. ASSUME NEW o \in Orders, MarkSubmitting(o) PROVE AgentInv'
  <2>1. record' \in [Orders -> AgentReports \cup {"none", "SUBMITTING"}]
    BY <1>4, NoteTypes DEF MarkSubmitting, TypesInv
  <2> QED
    BY <1>4, <2>1 DEF MarkSubmitting, TypesInv, AgentInv, PCs
<1>5. CASE Escape
  <2>1. late' \subseteq late \cup Acks
    BY <1>5, EscapesLate
  <2> QED
    BY <1>5, <2>1 DEF Escape, store, TypesInv, AgentInv, PCs
<1> QED
  BY <1>1, <1>2, <1>3, <1>4, <1>5

LEMMA SyncTypes ==
  ASSUME TypesInv,
         SyncBrokerEvents \/ AskForCommands \/ ReportCommand \/ CommandsDone \/ Crash
           \/ \E job \in Orders \X Commands : CancelOrder(job)
  PROVE  AgentInv'
<1> USE DEF TypesInv, AgentInv
<1>1. CASE SyncBrokerEvents
  <2>1. outbox' \in Seq(Events)
    BY <1>1, PolledFacts, SeqMonotonic DEF SyncBrokerEvents
  <2> QED
    BY <1>1, <2>1 DEF SyncBrokerEvents, PCs, Posts, store
<1>2. CASE AskForCommands
  BY <1>2 DEF AskForCommands, LeasedCommands, CommandsIn, PCs, store
<1>3. CASE ReportCommand \/ CommandsDone
  <2>1. pc' \in PCs \ {"complete"} /\ (answer' = <<>> \/ UNCHANGED answer)
    BY <1>3 DEF ReportCommand, CommandsDone, AfterCommands, Goto, PCs
  <2> QED
    BY <1>3, <2>1 DEF ReportCommand, CommandsDone, Goto, store
<1>4. CASE Crash
  <2>1. pc' = "off" /\ pc' \in PCs
    BY <1>4 DEF Crash, PCs
  <2>2. outbox' \in Seq(Events)
    BY <1>4, EmptySeq DEF Crash
  <2>3. answer' = <<>>
    BY <1>4 DEF Crash
  <2> QED
    BY <1>4, <2>1, <2>2, <2>3 DEF Crash, store
<1>5. ASSUME NEW job \in Orders \X Commands, CancelOrder(job) PROVE AgentInv'
  <2>1. answer' \in (Orders \X Commands) \X BOOLEAN
    <3>1. PICK ok \in BOOLEAN : answer' = <<job, ok>>
      BY <1>5 DEF CancelOrder
    <3> QED
      BY <3>1
  <2>2. pc' \in PCs /\ jobs' \subseteq Orders \X Commands
    BY <1>5 DEF CancelOrder, PCs
  <2> QED
    BY <1>5, <2>1, <2>2 DEF CancelOrder, store
<1> QED
  BY <1>1, <1>2, <1>3, <1>4, <1>5

LEMMA AgentTypesStep == ASSUME TypesInv, [Next]_vars PROVE AgentInv'
<1>1. ServerTypeOK'
  BY BookKeeps DEF BookInv
<1>2. CASE Market \/ NewDay \/ UNCHANGED <<store, market, agent, late>>
  <2>1. UNCHANGED <<pc, current, lease, todo, outbox, jobs, answer, trading, record, late>>
    BY <1>2 DEF Market, NewDay, vars, store, agent
  <2> QED
    BY <2>1 DEF TypesInv, AgentInv
<1>3. CASE AgentSteps
  BY <1>1, <1>3, PostTypes, RecoverTypes, LeaseTypes, ExecuteTypes, SyncTypes DEF AgentSteps
<1> QED
  BY <1>2, <1>3 DEF Next, vars

LEMMA TypesInit == ASSUME Init PROVE TypesInv
<1>1. BookInv
  BY BookInit DEF Init
<1>2. PlacementInv
  BY DEF Init, PlacementInv, StoreInv, Working, Deciding, StatusOf
<1>3. MarketInv
  BY QuantityAssumption DEF Init, MarketInv, LiveAtBroker
<1>4. AgentInv
  <2>1. outbox \in Seq(Events) /\ answer = <<>>
    BY EmptySeq DEF Init
  <2> QED
    <3>1. lease \in [Orders -> 0..MaxLeases]
      BY BoundsAssumption DEF Init
    <3>2. record \in [Orders -> AgentReports \cup {"none", "SUBMITTING"}]
      BY DEF Init
    <3>3. pc = "off" /\ pc \in PCs
      BY DEF Init, PCs
    <3> QED
      BY <2>1, <3>1, <3>2, <3>3 DEF Init, AgentInv
<1> QED
  BY <1>1, <1>2, <1>3, <1>4 DEF TypesInv

THEOREM TypesInvariant == Spec => []TypesInv
<1>1. TypesInv /\ [Next]_vars => TypesInv'
  BY BookKeeps, PlacementStep, MarketStep, AgentTypesStep DEF TypesInv
<1> QED
  BY <1>1, TypesInit, PTL DEF Spec

\* Type correctness of the agent together with the server.
THEOREM AgentTypeCorrect == Spec => []TypeOK
BY TypesInvariant, TypesInvIsTypeOK, PTL

\* The order book keeps its promise whatever this agent loses, repeats or asks
\* for too late: without a report an order goes forward only as an approved one,
\* in a request that found trading on.
THEOREM AgentKeepsOrderPromise == Spec => KeepsOrderPromise
<1>1. Init => Promise!Init
  BY PhaseFacts DEF Init, ServerInit, Promise!Init, Phase
<1>2. TypesInv /\ [Next]_vars => [Promise!Next]_(Promise!vars)
  BY AgentBook DEF Kept
<1> QED
  BY <1>1, <1>2, TypesInvariant, PTL DEF Spec, KeepsOrderPromise, Promise!Spec

----------------------------------------------------------------------------
\* What the agent tells is true, and stays true on the way.

\* The order has its record and the agent is past its submission without one.
NeverPlaced(o) ==
  /\ broker[o] = "none" /\ record[o] # "none"
  /\ ~(pc \in Deciding /\ current = o)

\* A recovery settled its outcome by another broker order.
Foreign(o) == record[o] \notin Unresolved \cup {"none"} /\ match[o] \notin {o, NoOrder}

Truthful(e) ==
  /\ e.status = "FAILED" => NeverPlaced(e.order)
  /\ e.status = "FILLED" => broker[e.order] = "succeeded" \/ Foreign(e.order)
  /\ e.status = "CANCELED" => broker[e.order] = "canceled" \/ Foreign(e.order)
  /\ e.trades \subseteq {e.order} \X (1..traded[e.order])

MessagesTrue ==
  /\ \A i \in 1..Len(outbox) : Truthful(outbox[i])
  /\ \A m \in late \ Acks : Truthful(m)

LEMMA NeverPlacedStays ==
  ASSUME TypesInv, [Next]_vars, NEW o \in Orders, NeverPlaced(o)
  PROVE  NeverPlaced(o)'
<1> USE DEF TypesInv, PlacementInv, StoreInv, Working, Deciding, NeverPlaced
<1>1. broker'[o] = "none"
  <2>1. broker' \in [Orders -> DOMAIN StatusOf]
    BY PlacementStep
  <2> QED
    BY BrokerStep
<1>2. CASE Aside
  BY <1>1, <1>2 DEF Aside
<1>3. CASE AskSubmitting \/ Validate \/ RecordOutcome
  <2>1. current \in Orders
    BY <1>3 DEF AskSubmitting, Validate, RecordOutcome
  <2>2. CASE \E s : \E m : s # "none" /\ Record(s, m)
    BY <1>1, <2>1, <2>2, NoOrderAssumption DEF Record, Note
  <2>3. CASE pc \in {"ack", "validate"} /\ current' = current /\ record' = record
    BY <1>1, <2>3
  <2> QED
    BY <1>3, <2>2, <2>3 DEF AskSubmitting, Validate, RecordOutcome, Goto, store, agent, RECON
<1>4. CASE Submit
  BY <1>1, <1>4 DEF Submit, Goto, store
<1>5. ASSUME NEW p \in Orders, MarkSubmitting(p) PROVE NeverPlaced(o)'
  BY <1>1, <1>5 DEF MarkSubmitting, IsNew, Note
<1>6. ASSUME NEW p \in Orders, RecoverOne(p) PROVE NeverPlaced(o)'
  <2>1. PICK f \in Findings(p) : Note(p, f[2], f[1])
    BY <1>6 DEF RecoverOne
  <2>2. f[2] # "none"
    BY FindingFacts
  <2>3. record'[o] # "none"
    BY <2>1, <2>2 DEF Note
  <2> QED
    BY <1>1, <1>6, <2>3 DEF RecoverOne
<1>7. CASE Market \/ \E job \in Orders \X Commands : CancelOrder(job)
  <2>1. record' = record /\ (pc' \in Deciding => pc' = pc /\ current' = current)
    BY <1>7 DEF Market, CancelOrder, store, agent
  <2> QED
    BY <1>1, <2>1
<1> QED
  <2> HIDE DEF TypesInv, PlacementInv, StoreInv, Working, Deciding, NeverPlaced
  <2>1. PlacementInv
    BY DEF TypesInv
  <2> QED
    BY <1>2, <1>3, <1>4, <1>5, <1>6, <1>7, <2>1, LoopIsAside DEF Next, AgentSteps

\* A settled record is not opened again.
LEMMA ForeignStays ==
  ASSUME TypesInv, [Next]_vars, NEW o \in Orders, Foreign(o)
  PROVE  Foreign(o)'
<1> USE DEF TypesInv, PlacementInv, StoreInv, Foreign
<1>1. CASE Aside
  BY <1>1 DEF Aside
<1>2. ASSUME pc \in Working, NEW s, NEW m, Record(s, m) PROVE Foreign(o)'
  <2>1. current \in Orders /\ current # o
    BY <1>2 DEF Unresolved
  <2> QED
    BY <1>2, <2>1 DEF Record, Note
<1>3. CASE AskSubmitting \/ Validate \/ RecordOutcome
  <2>1. pc \in Working
    BY <1>3 DEF AskSubmitting, Validate, RecordOutcome, Working, Deciding
  <2>2. \/ UNCHANGED <<record, match>>
        \/ \E s : \E m : Record(s, m)
    BY <1>3 DEF AskSubmitting, Validate, RecordOutcome, store
  <2> QED
    BY <1>2, <2>1, <2>2
<1>4. CASE Submit \/ Market \/ \E job \in Orders \X Commands : CancelOrder(job)
  BY <1>4 DEF Submit, Market, CancelOrder, store
<1>5. ASSUME NEW p \in Orders, MarkSubmitting(p) PROVE Foreign(o)'
  BY <1>5 DEF MarkSubmitting, IsNew, Note
<1>6. ASSUME NEW p \in Orders, RecoverOne(p) PROVE Foreign(o)'
  <2>1. p # o
    BY <1>6 DEF RecoverOne
  <2> QED
    BY <1>6, <2>1 DEF RecoverOne, Note
<1> QED
  <2> HIDE DEF TypesInv, PlacementInv, StoreInv, Foreign
  <2>1. PlacementInv
    BY DEF TypesInv
  <2> QED
    BY <1>1, <1>3, <1>4, <1>5, <1>6, <2>1, LoopIsAside DEF Next, AgentSteps

LEMMA TruthStays ==
  ASSUME TypesInv, [Next]_vars, NEW e \in Events, Truthful(e)
  PROVE  Truthful(e)'
<1>1. e.order \in Orders
  BY DEF Events
<1>2. MarketKept
  BY MarketStep
<1>3. 1..traded[e.order] \subseteq 1..traded'[e.order]
  BY <1>1, <1>2 DEF MarketKept
<1> QED
  BY <1>1, <1>2, <1>3, NeverPlacedStays, ForeignStays DEF Truthful, MarketKept, Ended

\* Where the messages after a step come from.
OutboxFrom ==
  \A i \in 1..Len(outbox') :
    \E e : outbox'[i] = e /\ ((\E j \in 1..Len(outbox) : e = outbox[j]) \/ Truthful(e)')
LateFrom ==
  \A m \in late' \ Acks : m \in late \/ \E j \in 1..Len(outbox) : m = outbox[j]

LEMMA FromSources ==
  ASSUME TypesInv, MessagesTrue, [Next]_vars, OutboxFrom, LateFrom
  PROVE  MessagesTrue'
<1>1. \A j \in 1..Len(outbox) : outbox[j] \in Events /\ Truthful(outbox[j])
  BY ElementOfSeq DEF TypesInv, AgentInv, MessagesTrue
<1>2. \A e : (\E j \in 1..Len(outbox) : e = outbox[j]) => Truthful(e)'
  BY <1>1, TruthStays
<1>3. \A m \in late \ Acks : Truthful(m)'
  BY TruthStays DEF TypesInv, AgentInv, MessagesTrue
<1> QED
  BY <1>2, <1>3 DEF MessagesTrue, OutboxFrom, LateFrom

\* A step that leaves the two alone, or empties the outbox.
Quiet == (outbox' = outbox \/ outbox' = <<>>) /\ late' \subseteq late \cup Acks

LEMMA QuietSources == ASSUME Quiet PROVE OutboxFrom /\ LateFrom
<1> USE DEF Quiet
<1>1. OutboxFrom
  <2>1. CASE outbox' = outbox
    BY <2>1 DEF OutboxFrom
  <2>2. CASE outbox' = <<>>
    <3>1. Len(outbox') = 0
      BY <2>2
    <3> QED
      BY <3>1 DEF OutboxFrom
  <2> QED
    BY <2>1, <2>2
<1> QED
  BY <1>1 DEF LateFrom

\* What the statuses of the broker are called.
LEMMA StatusTruth ==
  ASSUME NEW b \in DOMAIN StatusOf
  PROVE  /\ StatusOf[b] # "FAILED"
         /\ StatusOf[b] = "FILLED" => b = "succeeded"
         /\ StatusOf[b] = "CANCELED" => b = "canceled"
BY DEF StatusOf, BrokerStates, RECON

LEMMA PostSources ==
  ASSUME TypesInv, Deliver \/ PostEnds \/ DeliverLate
  PROVE  OutboxFrom /\ LateFrom
<1>1. CASE Deliver
  <2>1. /\ outbox \in Seq(Events) /\ outbox # <<>> /\ outbox' = Tail(outbox)
        /\ UNCHANGED late
    BY <1>1 DEF Deliver, TypesInv, AgentInv
  <2>2. /\ Len(outbox') = Len(outbox) - 1 /\ Len(outbox) \in Nat
        /\ \A i \in 1..Len(outbox') : outbox'[i] = outbox[i + 1]
    BY <2>1, HeadTailProperties, LenProperties
  <2>3. OutboxFrom
    BY <2>2 DEF OutboxFrom
  <2> QED
    BY <2>1, <2>3 DEF LateFrom
<1>2. CASE PostEnds
  <2>1. outbox' = <<>> /\ (late' \subseteq late \/ late' \subseteq late \cup ToSet(outbox))
    BY <1>2 DEF PostEnds, GiveUp, store
  <2>2. \A m \in ToSet(outbox) : \E j \in 1..Len(outbox) : m = outbox[j]
    BY LenProperties DEF ToSet, TypesInv, AgentInv
  <2>3. OutboxFrom
    BY <2>1 DEF OutboxFrom
  <2> QED
    BY <2>1, <2>2, <2>3 DEF LateFrom
<1>3. CASE DeliverLate
  BY <1>3, QuietSources DEF Quiet, DeliverLate, store, agent
<1> QED
  BY <1>1, <1>2, <1>3

\* A recovery tells what it found, of the order or of another.
LEMMA RecoverSources ==
  ASSUME TypesInv, MessagesTrue, NEW o \in Orders, RecoverOne(o)
  PROVE  OutboxFrom /\ LateFrom
<1>1. PICK f \in Findings(o) :
        Note(o, f[2], f[1]) /\ outbox' = Append(outbox, RecoveryEvent(o, f[2], f[1]))
  BY DEF RecoverOne
<1>2. PICK e : e = RecoveryEvent(o, f[2], f[1])
  OBVIOUS
<1>3. UNCHANGED <<broker, traded, late>>
  BY DEF RecoverOne, market
<1>4. e.order = o /\ e.status = f[2] /\ e.trades = {}
  BY <1>2 DEF RecoveryEvent, Event
<1>5. /\ f[2] \notin {"FAILED", "none"}
      /\ f[1] = o => /\ f[2] = "FILLED" => broker[o] = "succeeded"
                     /\ f[2] = "CANCELED" => broker[o] = "canceled"
      /\ f[1] = NoOrder => f[2] = RECON
  BY FindingFacts DEF TypesInv
<1>6. record'[o] = f[2] /\ match'[o] = f[1]
  BY <1>1 DEF Note, TypesInv, PlacementInv, StoreInv
<1>7. ASSUME f[2] \in {"FILLED", "CANCELED"}, f[1] # o PROVE Foreign(o)'
  BY <1>5, <1>6, <1>7 DEF Foreign, Unresolved, RECON
<1>8. Truthful(e)'
  BY <1>3, <1>4, <1>5, <1>7 DEF Truthful
<1>9. outbox \in Seq(Events \cup {e}) /\ outbox' = Append(outbox, e)
  BY <1>1, <1>2, SeqMonotonic DEF TypesInv, AgentInv
<1>10. OutboxFrom
  <2>1. /\ Len(outbox') = Len(outbox) + 1 /\ Len(outbox) \in Nat /\ outbox'[Len(outbox) + 1] = e
        /\ \A i \in 1..Len(outbox) : outbox'[i] = outbox[i]
    BY <1>9, AppendProperties, LenProperties
  <2>2. ASSUME NEW i \in 1..Len(outbox') PROVE i \in 1..Len(outbox) \/ i = Len(outbox) + 1
    BY <2>1
  <2> QED
    BY <1>8, <2>1, <2>2 DEF OutboxFrom
<1> QED
  BY <1>3, <1>10 DEF LateFrom

\* A report tells FAILED only of an order that was validated and never sent.
LEMMA RecordSources ==
  ASSUME TypesInv, pc \in Working, NEW s, NEW m \in {current, NoOrder}, Record(s, m),
         UNCHANGED market, \A x \in late' \ late : x \in Acks,
         s \in {RECON, "SUBMITTED", "BROKER_REJECTED"} \/ (s = "FAILED" /\ pc \in Deciding)
  PROVE  OutboxFrom /\ LateFrom
<1>0. PICK e, o : e = ReportEvent(current, s) /\ o = current
  OBVIOUS
<1>1. o \in Orders /\ current = o /\ Note(o, s, m) /\ outbox' = <<e>> /\ pc' = "report"
  BY <1>0 DEF Record, TypesInv, PlacementInv, StoreInv
<1>2. e.order = o /\ e.status = s /\ e.trades = {}
  BY <1>0 DEF ReportEvent, Event
<1>3. s = "FAILED" => NeverPlaced(o)'
  <2> SUFFICES ASSUME s = "FAILED" PROVE NeverPlaced(o)'
    OBVIOUS
  <2>1. broker[o] = "none" /\ pc \in Deciding
    BY <1>1 DEF TypesInv, PlacementInv, MarketInv, RECON
  <2> QED
    BY <1>1, <2>1 DEF NeverPlaced, Note, TypesInv, PlacementInv, StoreInv, Deciding, market
<1>4. Truthful(e)'
  BY <1>2, <1>3 DEF Truthful, RECON
<1>5. OutboxFrom
  BY <1>1, <1>4 DEF OutboxFrom
<1> QED
  BY <1>5 DEF LateFrom

\* What the agent polls is what the broker has just said.
LEMMA PolledSources ==
  ASSUME TypesInv, SyncBrokerEvents
  PROVE  OutboxFrom /\ LateFrom
<1>0. PICK unsure \in SUBSET Unsure : outbox' = Polled(unsure)
  BY DEF SyncBrokerEvents
<1>1. UNCHANGED <<broker, traded, late, match>>
  BY DEF SyncBrokerEvents, market, store
<1>2. \A i \in 1..Len(outbox') : outbox'[i] \in TradeEvents \cup OrderEvents(unsure)
  BY <1>0, PolledFacts, ElementOfSeq
<1>3. ASSUME NEW e \in TradeEvents PROVE Truthful(e)'
  <2>1. PICK o \in Orders, n \in 1..Quantity :
          e = TradeEvent(o, n) /\ e.id[3] <= traded[e.order]
    BY DEF TradeEvents
  <2>2. e.order = o /\ e.status = "" /\ e.trades = {<<o, n>>} /\ n <= traded[o]
    BY <2>1 DEF TradeEvent, Event
  <2>3. traded[o] \in Nat /\ traded'[o] = traded[o] /\ n \in Nat \ {0}
    <3>1. traded[o] \in 0..Quantity /\ traded' = traded
      BY <1>1 DEF TypesInv, MarketInv
    <3>2. n \in Nat \ {0} /\ 0..Quantity \subseteq Nat
      BY QuantityAssumption
    <3> QED
      BY <3>1, <3>2
  <2>4. <<o, n>> \in {o} \X (1..traded'[o])
    <3>1. n <= traded[o]
      BY <2>2
    <3>2. n \in 1..traded'[o]
      BY <2>3, <3>1
    <3> QED
      BY <3>2
  <2> QED
    BY <2>2, <2>4 DEF Truthful
<1>4. ASSUME NEW e \in OrderEvents(unsure) PROVE Truthful(e)'
  <2>1. PICK o \in Orders : \E b \in {broker[o], "unknown"} : e = OrderEvent(o, b)
    BY DEF OrderEvents
  <2>2. PICK b \in {broker[o], "unknown"} : e = OrderEvent(o, b)
    BY <2>1
  <2>3. e.order = o /\ e.status = StatusOf[b] /\ e.trades = {}
    BY <2>2 DEF OrderEvent, Event
  <2>4. broker[o] \in DOMAIN StatusOf /\ b \in DOMAIN StatusOf
    BY DEF TypesInv, PlacementInv, StoreInv, StatusOf, BrokerStates
  <2>5. StatusOf["unknown"] = RECON
    BY DEF StatusOf, BrokerStates
  <2> QED
    BY <1>1, <2>3, <2>4, <2>5, StatusTruth DEF Truthful, RECON
<1> QED
  BY <1>1, <1>2, <1>3, <1>4 DEF OutboxFrom, LateFrom

LEMMA ExecuteSources ==
  ASSUME TypesInv, AskSubmitting \/ Validate \/ Escape \/ Submit \/ RecordOutcome
                     \/ \E o \in Orders : MarkSubmitting(o)
  PROVE  OutboxFrom /\ LateFrom
<1>1. CASE AskSubmitting
  <2>1. pc \in Working /\ current \in Orders /\ UNCHANGED market
    BY <1>1 DEF AskSubmitting, TypesInv, PlacementInv, StoreInv, Working, Deciding
  <2>2. CASE Goto("validate") /\ UNCHANGED <<store, late>>
    BY <2>2, QuietSources DEF Quiet, Goto, store
  <2>3. [order |-> current, token |-> lease[current]] \in Acks
    BY <2>1 DEF Acks, TypesInv, AgentInv
  <2>4. CASE Record(RECON, NoOrder) /\ \A x \in late' \ late : x \in Acks
    BY <2>1, <2>4, RecordSources
  <2>5. CASE UNCHANGED <<agent, store, late>>
    BY <2>5, QuietSources DEF Quiet, agent
  <2> QED
    BY <1>1, <2>2, <2>3, <2>4, <2>5 DEF AskSubmitting, AckFails, GiveUp
<1>2. CASE Validate \/ RecordOutcome
  <2>1. pc \in Working /\ UNCHANGED <<market, late>>
    BY <1>2 DEF Validate, RecordOutcome, Working, Deciding
  <2>2. CASE Goto("submit") /\ UNCHANGED store
    BY <2>1, <2>2, QuietSources DEF Quiet, Goto, store
  <2>3. CASE pc = "validate" /\ Record("FAILED", NoOrder)
    BY <2>1, <2>3, RecordSources DEF Deciding
  <2>4. ASSUME NEW s \in {"SUBMITTED", "BROKER_REJECTED", RECON}, NEW m \in {current, NoOrder},
               Record(s, m)
        PROVE  OutboxFrom /\ LateFrom
    BY <2>1, <2>4, RecordSources
  <2> QED
    BY <1>2, <2>2, <2>3, <2>4 DEF Validate, RecordOutcome
<1>3. CASE Submit
  BY <1>3, QuietSources DEF Quiet, Submit, Goto, store
<1>4. ASSUME NEW o \in Orders, MarkSubmitting(o) PROVE OutboxFrom /\ LateFrom
  BY <1>4, QuietSources DEF Quiet, MarkSubmitting
<1>5. CASE Escape
  BY <1>5, EscapesLate, QuietSources DEF Quiet, Escape
<1> QED
  BY <1>1, <1>2, <1>3, <1>4, <1>5

LEMMA MessagesStep ==
  ASSUME TypesInv, MessagesTrue, [Next]_vars
  PROVE  MessagesTrue'
<1> USE DEF Quiet
<1>1. ASSUME Start \/ Recovered \/ Heartbeat \/ AskForOrders \/ ReceiveOrders \/ LeaseUnheard
             \/ OrdersDone \/ AskForCommands
      PROVE  Quiet
  BY <1>1 DEF Start, Recovered, Heartbeat, AskForOrders, ReceiveOrders, LeaseUnheard, OrdersDone,
      AskForCommands, Goto, store, agent
<1>2. ASSUME ReportCommand \/ CommandsDone \/ Crash
      PROVE  Quiet
  BY <1>2 DEF ReportCommand, CommandsDone, Crash, Goto, store
<1>3. ASSUME \E o \in Orders : SkipOrder(o) \/ AcknowledgeUnheard(o)
      PROVE  Quiet
  BY <1>3 DEF SkipOrder, AcknowledgeUnheard, agent
<1>4. ASSUME \E job \in Orders \X Commands : CancelOrder(job)
      PROVE  Quiet
  BY <1>4 DEF CancelOrder, store
<1>5. ASSUME Market \/ NewDay \/ UNCHANGED <<store, market, agent, late>>
      PROVE  Quiet
  BY <1>5 DEF Market, NewDay, store, agent
<1>6. OutboxFrom /\ LateFrom
  BY <1>1, <1>2, <1>3, <1>4, <1>5, PostSources, RecoverSources, ExecuteSources, PolledSources,
     QuietSources
  DEF Next, AgentSteps, vars
<1> QED
  BY <1>6, FromSources

----------------------------------------------------------------------------
\* The server's rows tell what the broker did.

OutcomeInv ==
  /\ \A o \in Orders : status[o] = "FAILED" => NeverPlaced(o)
  /\ \A o \in Orders : fills[o] \subseteq {o} \X (1..traded[o])
  /\ \A o \in Orders :
       /\ status[o] = "FILLED" => broker[o] = "succeeded" \/ Foreign(o)
       /\ status[o] = "CANCELED" => broker[o] \in {"none", "canceled"} \/ Foreign(o)
  /\ pc \in Onway => status[current] \notin {"FILLED", "CANCELED"}

Told == {"FAILED", "FILLED", "CANCELED"}

\* Where a row's outcome and fills come from: a human cancels what was never
\* acknowledged, the rest is told by an event.
RowFrom(o) ==
  \/ fills'[o] = fills[o] /\ (status'[o] = status[o] \/ status'[o] \notin Told)
  \/ fills'[o] = fills[o] /\ status'[o] = "CANCELED" /\ status[o] \notin Acknowledged
  \/ \E e \in Events : /\ Truthful(e) /\ e.order = o
                       /\ fills'[o] \subseteq fills[o] \cup e.trades
                       /\ status'[o] \in {status[o], RECON, e.status}
RowsFrom == \A o \in Orders : RowFrom(o)

\* One write of a status that is not told.
LEMMA WriteFrom ==
  ASSUME StatusTyped, NEW o, NEW s, Set(o, s), UNCHANGED fills,
         \/ s \notin Told
         \/ o \in Orders => s = status[o] \/ (s = "CANCELED" /\ status[o] \notin Acknowledged)
  PROVE  RowsFrom
BY DEF StatusTyped, Set, SetStatuses, RowsFrom, RowFrom

LEMMA SameFrom == ASSUME UNCHANGED <<status, fills>> PROVE RowsFrom
BY DEF RowsFrom, RowFrom

LEMMA OfficeFrom == ASSUME StatusTyped, OfficeSteps PROVE RowsFrom
<1>1. CASE \/ Stop \/ Resume \/ ReleaseLeases
           \/ \E o \in Orders :
                OrderExpires(o) \/ LeaseExpires(o) \/ CheckCreate(o) \/ CheckApprove(o)
  BY <1>1, SameFrom DEF Stop, Resume, ReleaseLeases, OrderExpires, LeaseExpires, CheckCreate,
     CheckApprove, FindsNoStop
<1>2. CASE ExpireOrders
  <2>1. UNCHANGED fills /\ \A o \in Orders : status'[o] \in {status[o], "EXPIRED"}
    BY <1>2 DEF ExpireOrders, SetStatuses, Expire
  <2> QED
    BY <2>1 DEF RowsFrom, RowFrom, Told
<1>3. ASSUME NEW o \in Orders, Create(o, "WAITING_APPROVAL") PROVE RowsFrom
  BY <1>3, WriteFrom DEF Create, Told
<1>4. ASSUME NEW o \in Orders, NEW action, Mutate(o, action) PROVE RowsFrom
  <2> DEFINE target == ActionTarget(o, action)
  <2>1. Set(o, target) /\ UNCHANGED fills
    BY <1>4 DEF Mutate
  <2>2. target \notin Told \/ (target = "CANCELED" /\ status[o] \notin Acknowledged)
    BY AcknowledgedIsClosed DEF ActionTarget, Told
  <2> QED
    BY <2>1, <2>2, WriteFrom
<1> QED
  BY <1>1, <1>2, <1>3, <1>4 DEF OfficeSteps

LEMMA EventFrom ==
  ASSUME TypesInv, NEW e \in Events, Truthful(e), ServeEvent(e) PROVE RowsFrom
<1>1. CASE UNCHANGED server
  BY <1>1, SameFrom DEF server
<1>2. CASE ApplyEvent(e.order, e.id, e.status, e.trades)
  <2>1. PICK s : Set(e.order, s) /\ s \in {status[e.order], RECON, e.status}
    BY <1>2 DEF ApplyEvent, EventTarget
  <2>2. fills' = [fills EXCEPT ![e.order] = @ \cup e.trades] /\ e.order \in Orders
    BY <1>2 DEF ApplyEvent, Events
  <2>3. StatusTyped /\ fills \in [Orders -> SUBSET Trades]
    BY DEF TypesInv, BookInv, ServerTypeOK, StatusTyped
  <2>4. ASSUME NEW o \in Orders PROVE RowFrom(o)
    BY <2>1, <2>2, <2>3 DEF RowFrom, StatusTyped, Set, SetStatuses
  <2> QED
    BY <2>4 DEF RowsFrom
<1> QED
  BY <1>1, <1>2 DEF ServeEvent

LEMMA RequestFrom == ASSUME TypesInv, MessagesTrue, Request PROVE RowsFrom
<1>1. StatusTyped
  BY DEF TypesInv, BookInv, ServerTypeOK, StatusTyped
<1>2. CASE \/ UNCHANGED server \/ LeaseCheck \/ \E o, t : CheckSubmit(o, t)
           \/ \E old \in SUBSET LeasedCommands : LeaseCommands(old)
  BY <1>2, SameFrom DEF server, LeaseCheck, CheckSubmit, FindsNoStop, LeaseCommands
<1>3. CASE LeaseOrders
  <2>1. UNCHANGED fills /\ \A o \in Orders : status'[o] \in {status[o], "LEASED", "EXPIRED"}
    BY <1>3 DEF LeaseOrders, SetStatuses
  <2> QED
    BY <2>1 DEF RowsFrom, RowFrom, Told
<1>4. ASSUME NEW o, Acknowledge(o) PROVE RowsFrom
  BY <1>1, <1>4, WriteFrom DEF Acknowledge, Told
<1>5. ASSUME NEW e \in Events \cap (ToSet(outbox) \cup (late \ Acks)), ServeEvent(e) PROVE RowsFrom
  <2>1. Truthful(e)
    <3>1. outbox \in Seq(Events)
      BY DEF TypesInv, AgentInv
    <3> QED
      BY <3>1, LenProperties DEF ToSet, MessagesTrue
  <2> QED
    BY <1>5, <2>1, EventFrom
<1>6. ASSUME NEW o, NEW c, NEW ok, CompleteCommand(o, c, ok) PROVE RowsFrom
  BY <1>1, <1>6, WriteFrom, SameFrom DEF CompleteCommand, Told, RECON
<1> QED
  BY <1>2, <1>3, <1>4, <1>5, <1>6 DEF Request

LEMMA StepFrom == ASSUME TypesInv, MessagesTrue, [Next]_vars PROVE RowsFrom
<1>1. CASE AgentSteps
  BY <1>1, RequestsAreTyped, RequestFrom
<1>2. CASE Market \/ NewDay \/ UNCHANGED vars
  BY <1>2, RequestFrom DEF Market, NewDay, vars, Request
<1>3. CASE OfficeSteps
  BY <1>3, OfficeFrom DEF TypesInv, BookInv, ServerTypeOK, StatusTyped
<1> QED
  BY <1>1, <1>2, <1>3 DEF Next

----------------------------------------------------------------------------
LEMMA OutcomeStep ==
  ASSUME TypesInv, MessagesTrue, SentInv, OutcomeInv, [Next]_vars
  PROVE  OutcomeInv'
<1>1. RowsFrom /\ MarketKept /\ MarketInv' /\ PlacementInv
  BY StepFrom, MarketStep DEF TypesInv
<1>2. ASSUME NEW o \in Orders, status'[o] = "FAILED" PROVE NeverPlaced(o)'
  <2>1. NeverPlaced(o)
    BY <1>1, <1>2 DEF RowsFrom, RowFrom, Told, OutcomeInv, Truthful, RECON
  <2> QED
    BY <2>1, NeverPlacedStays
<1>3. ASSUME NEW o \in Orders PROVE fills'[o] \subseteq {o} \X (1..traded'[o])
  <2>1. fills'[o] \subseteq {o} \X (1..traded[o])
    BY <1>1 DEF RowsFrom, RowFrom, OutcomeInv, Truthful
  <2>2. 1..traded[o] \subseteq 1..traded'[o]
    BY <1>1 DEF MarketKept
  <2> QED
    BY <2>1, <2>2
\* What the broker may have of an order a human cancels: nothing, now and later.
<1>4. ASSUME NEW o \in Orders, status[o] \notin Acknowledged PROVE broker'[o] = "none"
  <2>1. broker[o] = "none" /\ ~(pc = "submit" /\ o = current)
    BY <1>4 DEF SentInv, PlacedOrdersAreSent, Onway, Cleared
  <2> QED
    BY <1>1, <2>1, BrokerStep
<1>5. ASSUME NEW o \in Orders, status'[o] = "FILLED"
      PROVE  broker'[o] = "succeeded" \/ Foreign(o)'
  <2>1. broker[o] = "succeeded" \/ Foreign(o)
    BY <1>1, <1>5 DEF RowsFrom, RowFrom, Told, OutcomeInv, Truthful, RECON
  <2> QED
    BY <1>1, <2>1, ForeignStays DEF MarketKept, Ended
<1>6. ASSUME NEW o \in Orders, status'[o] = "CANCELED"
      PROVE  broker'[o] \in {"none", "canceled"} \/ Foreign(o)'
  <2>1. CASE status[o] \notin Acknowledged
    BY <1>4, <2>1
  <2>2. CASE broker[o] = "canceled" \/ Foreign(o)
    BY <1>1, <2>2, ForeignStays DEF MarketKept, Ended
  <2>3. CASE status[o] = "CANCELED" /\ broker[o] = "none"
    <3>1. ~(pc = "submit" /\ o = current)
      BY <2>3 DEF OutcomeInv, Onway
    <3> QED
      BY <1>1, <2>3, <3>1, BrokerStep
  <2>4. \/ status[o] \notin Acknowledged \/ broker[o] = "canceled" \/ Foreign(o)
        \/ status[o] = "CANCELED" /\ broker[o] = "none"
    BY <1>1, <1>6 DEF RowsFrom, RowFrom, Told, OutcomeInv, Truthful, RECON
  <2> QED
    BY <2>1, <2>2, <2>3, <2>4
<1>7. ASSUME pc' \in Onway PROVE (status[current] \notin {"FILLED", "CANCELED"})'
  <2>1. current' = current /\ current \in Orders
    BY <1>1, <1>7, PathStep
  <2>2. CASE pc \in Onway
    <3>1. broker[current] = "none" /\ ~Foreign(current)
      BY <1>1, <2>1, <2>2
      DEF Onway, PlacementInv, StoreInv, Deciding, Working, TypesInv, MarketInv, Foreign, Unresolved
    <3>2. status[current] \in Acknowledged /\ status[current] \notin {"FILLED", "CANCELED"}
      BY <1>7, <2>2 DEF SentInv, OutcomeInv, Cleared
    <3>3. status'[current] \notin {"FILLED", "CANCELED"}
      BY <1>1, <2>1, <3>1, <3>2 DEF RowsFrom, RowFrom, Told, Truthful, RECON
    <3> QED
      BY <2>1, <3>3
  <2>3. CASE approved[current] /\ Acknowledge(current)
    <3>1. status'[current] = "SUBMITTING"
      BY <2>1, <2>3 DEF Acknowledge, Set, SetStatuses, SentInv, StatusTyped
    <3> QED
      BY <2>1, <3>1
  <2> QED
    BY <1>1, <1>7, <2>2, <2>3, PathStep
<1> QED
  BY <1>2, <1>3, <1>5, <1>6, <1>7 DEF OutcomeInv

THEOREM OutcomeInvariant == Spec => [](TypesInv /\ SentInv /\ MessagesTrue /\ OutcomeInv)
<1>1. Init => TypesInv /\ SentInv /\ MessagesTrue /\ OutcomeInv
  <2> SUFFICES ASSUME Init PROVE TypesInv /\ SentInv /\ MessagesTrue /\ OutcomeInv
    OBVIOUS
  <2>1. SentInv
    BY DEF Init, ServerInit, SentInv, StatusTyped, Statuses, Onway, PlacedOrdersAreSent
  <2>2. MessagesTrue
    <3>1. Len(outbox) = 0 /\ late = {}
      BY DEF Init
    <3> QED
      BY <3>1 DEF Init, MessagesTrue
  <2>3. OutcomeInv
    BY DEF Init, ServerInit, OutcomeInv, Onway
  <2> QED
    BY TypesInit, <2>1, <2>2, <2>3
<1>2. TypesInv /\ SentInv /\ MessagesTrue /\ OutcomeInv /\ [Next]_vars
        => TypesInv' /\ SentInv' /\ MessagesTrue' /\ OutcomeInv'
  <2> SUFFICES ASSUME TypesInv, SentInv, MessagesTrue, OutcomeInv, [Next]_vars
               PROVE  TypesInv' /\ SentInv' /\ MessagesTrue' /\ OutcomeInv'
    OBVIOUS
  <2>1. TypesInv'
    BY BookKeeps, PlacementStep, MarketStep, AgentTypesStep DEF TypesInv
  <2>2. SentInv'
    BY SentStep DEF TypesInv
  <2> QED
    BY <2>1, <2>2, MessagesStep, OutcomeStep
<1> QED
  BY <1>1, <1>2, PTL DEF Spec

\* An order the server calls FAILED is not at the broker and will not be, whatever
\* the recoveries find and whatever reports are lost or late.
THEOREM FailedIsNotPlaced == Spec => []FailedWasNotPlaced
<1>1. OutcomeInv => FailedWasNotPlaced
  BY DEF OutcomeInv, NeverPlaced, FailedWasNotPlaced
<1> QED
  BY <1>1, OutcomeInvariant, PTL

\* A final status of the server is what the broker did, unless a recovery took
\* another broker order for this one, and every fill is a trade of that order.
THEOREM OutcomesAreTheBrokers == Spec => []OutcomeIsTheBrokers
<1>1. OutcomeInv => OutcomeIsTheBrokers
  BY DEF OutcomeInv, OutcomeIsTheBrokers, Foreign
<1> QED
  BY <1>1, OutcomeInvariant, PTL
=============================================================================
