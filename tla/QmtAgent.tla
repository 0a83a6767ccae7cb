------------------------------ MODULE QmtAgent ------------------------------
(***************************************************************************)
(* The QMT agent (QmtAgentExecutor and its SQLite AgentStateStore) between *)
(* the live-order server and the broker.  Requests may fail before or      *)
(* after the server handled them, or be handled after the agent gave up;   *)
(* the process may die at any step and starts again with its store.        *)
(*                                                                         *)
(* A broker order is identified by the client order that placed it; what   *)
(* others placed in the same account are strangers.                        *)
(***************************************************************************)
EXTENDS LiveOrder, Sequences, SequencesExt

CONSTANTS
  NoOrder,     \* no order, no broker order
  Strangers,   \* broker orders of the account that no order of the book placed
  Strange,     \* broker states these may be in
  Unsure,      \* orders the broker may show in ORDER_UNKNOWN
  PollLimit,   \* events of one poll that are posted (200)
  MaxLate      \* bound: requests handled after the agent gave up

BrokerStates == {"reported", "partsucc", "succeeded", "canceling", "canceled", "junk",
                 "unknown"}

ASSUME OrdersAssumption == IsFiniteSet(Orders)
ASSUME NoOrderAssumption == NoOrder \notin Orders
ASSUME StrangersAssumption == Strangers \cap (Orders \cup {NoOrder}) = {}
ASSUME UnsureAssumption == Unsure \subseteq Orders
ASSUME StrangeAssumption == Strange \subseteq BrokerStates
ASSUME LimitsAssumption == PollLimit \in Nat /\ MaxLate \in Nat

VARIABLES
  pc,         \* where the agent is in initialize and run_once
  held,       \* leased orders still to be executed
  current,    \* the order execute_order works on
  lease,      \* the lease token the agent was handed for each order
  record,     \* submissions.status of the local store
  match,      \* submissions.broker_order_id of the local store
  todo,       \* unresolved records the recovery has still to look at
  outbox,     \* events of the POST under way
  jobs,       \* leased commands still to be processed
  answer,     \* the cancel command under way and what cancel_order returned
  trading,    \* this cycle leases orders
  late,       \* requests on the way that nobody waits for
  broker,     \* the broker's order for each client order
  traded,     \* units it has traded
  placements, \* how often it was placed
  past        \* orders placed on an earlier day

store == <<record, match>>
market == <<broker, traded, placements, past>>
agent == <<pc, held, current, lease, todo, outbox, jobs, answer, trading>>
vars == <<server, store, market, agent, late>>

Posts == {"report", "recoverPost", "syncPost"}
PCs == {"off", "recover", "top", "lease", "leasing", "execute", "ack", "validate", "submit",
        "accepted", "refused", "raised", "sync", "commands", "cancel", "complete"} \cup Posts

\* _qmt_order_status_map
StatusOf == [b \in BrokerStates \cup {"none"} |->
  CASE b = "reported"  -> "SUBMITTED"
    [] b = "partsucc"  -> "PARTIALLY_FILLED"
    [] b = "succeeded" -> "FILLED"
    [] b = "canceling" -> "CANCEL_PENDING"
    [] b = "canceled"  -> "CANCELED"
    [] b = "junk"      -> "BROKER_REJECTED"
    [] OTHER           -> RECON]
Unresolved == {"SUBMITTING", RECON}

\* The statuses the agent reports.
AgentReports == {"", "SUBMITTED", "PARTIALLY_FILLED", "FILLED", "CANCEL_PENDING", "CANCELED",
                 "BROKER_REJECTED", "FAILED", RECON}

\* The events the agent builds; equal ids mean equal content.
Event(o, id, s, trades) == [order |-> o, id |-> id, status |-> s, trades |-> trades]
ReportEvent(o, s) == Event(o, <<"report", o>>, s, {})
RecoveryEvent(o, s, m) == Event(o, <<"recovery", o, s, m>>, s, {})
OrderEvent(o, b) == Event(o, <<"order", o, b, traded[o]>>, StatusOf[b], {})
TradeEvent(o, n) == Event(o, <<"trade", o, n>>, "", {<<o, n>>})

BrokerOrders == Orders \cup Strangers
AgentTrades == Orders \X (1..Quantity)
AgentEventIds ==
  {<<"report", o>> : o \in Orders}
    \cup ({"recovery"} \X Orders \X AgentReports \X (BrokerOrders \cup {NoOrder}))
    \cup ({"order"} \X Orders \X (DOMAIN StatusOf) \X (0..Quantity))
    \cup ({"trade"} \X Orders \X (1..Quantity))

ASSUME EventIdsAssumption == AgentEventIds \subseteq EventIds
ASSUME AgentTradesAssumption == AgentTrades \subseteq Trades

Events == [order : Orders, id : AgentEventIds, status : AgentReports,
           trades : SUBSET AgentTrades]
Acks   == [order : Orders, token : 0..MaxLeases]

TypeOK ==
  /\ ServerTypeOK
  /\ pc \in PCs
  /\ held \subseteq Orders /\ todo \subseteq Orders
  /\ current \in Orders \cup {NoOrder}
  /\ lease \in [Orders -> 0..MaxLeases]
  /\ record \in [Orders -> AgentReports \cup {"none", "SUBMITTING"}]
  /\ match \in [Orders -> BrokerOrders \cup {NoOrder}]
  /\ outbox \in Seq(Events)
  /\ jobs \subseteq Orders \X Commands
  /\ answer \in {<<>>} \cup ((Orders \X Commands) \X BOOLEAN)
  /\ trading \in BOOLEAN
  /\ late \subseteq Events \cup Acks
  /\ broker \in [Orders -> DOMAIN StatusOf]
  /\ traded \in [Orders -> 0..Quantity]
  /\ placements \in [Orders -> Nat]
  /\ past \subseteq Orders

Init ==
  /\ ServerInit
  /\ pc = "off"
  /\ held = {} /\ todo = {} /\ jobs = {} /\ late = {}
  /\ current = NoOrder
  /\ lease = [o \in Orders |-> 0]
  /\ record = [o \in Orders |-> "none"]
  /\ match = [o \in Orders |-> NoOrder]
  /\ outbox = <<>>
  /\ answer = <<>>
  /\ trading = FALSE
  /\ broker = [o \in Orders |-> "none"]
  /\ traded = [o \in Orders |-> 0]
  /\ placements = [o \in Orders |-> 0]
  /\ past = {}

----------------------------------------------------------------------------
\* The broker, modelled from the statuses qmt_adapter.py maps.

BrokerTrades(o) ==
  /\ broker[o] \in {"reported", "partsucc", "canceling"}
  /\ traded' = [traded EXCEPT ![o] = @ + 1]
  /\ broker' = [broker EXCEPT ![o] =
                  IF traded'[o] = Quantity THEN "succeeded"
                  ELSE IF @ = "canceling" THEN @ ELSE "partsucc"]

BrokerEnds(o) ==
  /\ \/ broker[o] \in {"reported", "partsucc", "canceling"}
        /\ broker' = [broker EXCEPT ![o] = "canceled"]
     \/ broker[o] = "reported" /\ broker' = [broker EXCEPT ![o] = "junk"]
  /\ UNCHANGED traded

\* The broker's queries answer with the orders and trades of the day.
Visible(o) == broker[o] # "none" /\ o \notin past

Market ==
  /\ \E o \in Orders : Visible(o) /\ (BrokerTrades(o) \/ BrokerEnds(o))
  /\ UNCHANGED <<server, store, placements, past, agent, late>>

NewDay ==
  /\ past' = {o \in Orders : broker[o] # "none"}
  /\ UNCHANGED <<server, store, broker, traded, placements, agent, late>>

----------------------------------------------------------------------------
\* Requests.  The server's part of one event: applied, or skipped as known.

ServeEvent(e) ==
  IF e.id \in applied
  THEN UNCHANGED server
  ELSE ApplyEvent(e.order, e.id, e.status, e.trades)

\* run_once: with trading, orders, events, commands; else commands, events.
AfterSync     == IF trading THEN "commands" ELSE "top"
AfterCommands == IF trading THEN "top" ELSE "sync"

\* Where a POST of events leads: the exception of a failed one ends the cycle,
\* in execute_order only the order, in initialize the process.
AfterPost(ok) ==
  CASE pc = "report"      -> "execute"
    [] pc = "recoverPost" -> IF ok THEN "top" ELSE "off"
    [] OTHER              -> IF ok THEN AfterSync ELSE "top"

Deliver ==
  /\ pc \in Posts /\ outbox # <<>>
  /\ ServeEvent(Head(outbox))
  /\ outbox' = Tail(outbox)
  /\ UNCHANGED <<store, market, pc, held, current, lease, todo, jobs, answer, trading, late>>

\* What the server has not handled when the agent gives up may be handled
\* later, or never.
GiveUp(requests) == late' \in {late, late \cup requests} /\ Cardinality(late') <= MaxLate

\* The request fails, or an event raises on the server, which has committed
\* those before it and drops those after it.
PostEnds ==
  /\ pc \in Posts
  /\ \/ outbox = <<>> /\ pc' = AfterPost(TRUE) /\ UNCHANGED late
     \/ pc' = AfterPost(FALSE) /\ GiveUp(ToSet(outbox))
  /\ outbox' = <<>>
  /\ UNCHANGED <<server, store, market, held, current, lease, todo, jobs, answer, trading>>

\* A late acknowledgement is checked or refused, and written when it passed.
ServeAck(m) == CheckSubmit(m.order, m.token) \/ UNCHANGED server

DeliverLate ==
  /\ \E m \in late :
       /\ late' = late \ {m}
       /\ IF m \in Acks THEN ServeAck(m) ELSE ServeEvent(m)
  /\ UNCHANGED <<store, market, agent>>

AcknowledgeUnheard(o) == Acknowledge(o) /\ UNCHANGED <<store, market, agent, late>>

----------------------------------------------------------------------------
\* initialize and recover_uncertain_submissions.

Start ==
  /\ pc = "off"
  /\ pc' = "recover"
  /\ todo' = {o \in Orders : record[o] \in Unresolved}
  /\ UNCHANGED <<server, store, market, held, current, lease, outbox, jobs, answer, trading,
                 late>>

\* The statuses a broker order shows: a stranger may be in any strange state.
Shown(p) ==
  IF p \in Orders THEN {StatusOf[broker[p]]} \cup {RECON : u \in Unsure \cap {p}}
  ELSE {StatusOf[b] : b \in Strange}

\* query_order: by the recorded broker order id or by the order remark.
Found(o) == {p \in {o, match[o]} : p \in Strangers \/ (p \in Orders /\ Visible(p))}

\* find_order_candidates: by asset, quantity and price; a single one is kept.
\* Which orders agree in these is left open.
Candidate(o) == {NoOrder} \cup Strangers \cup {p \in Orders : Visible(p)}

\* What the two find; a stranger may be one of an earlier day.
Findings(o) ==
  {f \in Found(o) \X AgentReports : f[2] \in Shown(f[1])}
    \cup (IF Found(o) \subseteq Strangers THEN Candidate(o) \X {RECON} ELSE {})

Note(o, s, m) ==
  /\ record' = [record EXCEPT ![o] = s]
  /\ match' = [match EXCEPT ![o] = m]

RecoverOne(o) ==
  /\ pc = "recover" /\ o \in todo
  /\ \E f \in Findings(o) :
       /\ Note(o, f[2], f[1])
       /\ outbox' = Append(outbox, RecoveryEvent(o, f[2], f[1]))
  /\ todo' = todo \ {o}
  /\ UNCHANGED <<server, market, pc, held, current, lease, jobs, answer, trading, late>>

Recovered ==
  /\ pc = "recover" /\ todo = {}
  /\ pc' = IF outbox = <<>> THEN "top" ELSE "recoverPost"
  /\ UNCHANGED <<server, store, market, held, current, lease, todo, outbox, jobs, answer,
                 trading, late>>

----------------------------------------------------------------------------
\* run_once: the heartbeat and the orders.

Goto(step) ==
  /\ pc' = step
  /\ UNCHANGED <<held, current, lease, todo, outbox, jobs, answer, trading>>

\* A stop on the server, a local STOP file or a pause: no orders this time.
Heartbeat ==
  /\ pc = "top"
  /\ \/ ~stopped /\ pc' = "lease" /\ trading' = TRUE
     \/ pc' = "commands" /\ trading' = FALSE
  /\ UNCHANGED <<server, store, market, held, current, lease, todo, outbox, jobs, answer, late>>

\* The request meets a stop, is refused or is lost.
AskForOrders ==
  /\ pc = "lease"
  /\ \/ LeaseCheck /\ Goto("leasing")
     \/ stopped /\ Goto("sync") /\ UNCHANGED server
     \/ Goto("top") /\ UNCHANGED server
  /\ UNCHANGED <<store, market, late>>

ReceiveOrders ==
  /\ pc = "leasing"
  /\ LeaseOrders
  /\ held' = {o \in Orders : token'[o] # token[o]}
  /\ lease' = token'
  /\ pc' = "execute"
  /\ UNCHANGED <<store, market, current, todo, outbox, jobs, answer, trading, late>>

\* The answer is lost, or the agent that asked is no more.
LeaseUnheard ==
  /\ LeaseOrders
  /\ IF pc = "leasing" THEN Goto("top") ELSE UNCHANGED agent
  /\ UNCHANGED <<store, market, late>>

\* The validation may refuse an order at any time.
SkipOrder(o) ==
  /\ pc = "execute" /\ o \in held
  /\ held' = held \ {o}
  /\ UNCHANGED <<server, store, market, pc, current, lease, todo, outbox, jobs, answer,
                 trading, late>>

IsNew(o) == record[o] = "none"

MarkSubmitting(o) ==
  /\ pc = "execute" /\ o \in held
  /\ IsNew(o)
  /\ Note(o, "SUBMITTING", NoOrder)
  /\ held' = held \ {o}
  /\ current' = o
  /\ pc' = "ack"
  /\ UNCHANGED <<server, market, lease, todo, outbox, jobs, answer, trading, late>>

\* mark_result, then _report_submission.
Record(s, m) ==
  /\ Note(current, s, m)
  /\ outbox' = <<ReportEvent(current, s)>>
  /\ pc' = "report"
  /\ current' = NoOrder
  /\ UNCHANGED <<held, lease, todo, jobs, answer, trading>>

\* The exception of a request the server may still handle, if it has not begun to.
AckFails ==
  GiveUp(IF passed[current] = "submit" THEN {}
         ELSE {[order |-> current, token |-> lease[current]]})

\* Mutant: a failed acknowledgement is taken for a success.
AskSubmitting_Unacked ==
  /\ pc = "ack"
  /\ \/ CheckSubmit(current, lease[current]) /\ UNCHANGED <<agent, store, late>>
     \/ (Acknowledge(current) \/ UNCHANGED server) /\ Goto("validate") /\ UNCHANGED <<store, late>>
  /\ UNCHANGED market

\* The server checks, writes and accepts; or it refuses, or its answer is lost,
\* or the request is, or it is handled later: the agent cannot tell which.
AskSubmitting ==
  /\ pc = "ack"
  /\ \/ CheckSubmit(current, lease[current]) /\ UNCHANGED <<agent, store, late>>
     \/ /\ approved[current] /\ Acknowledge(current)
        /\ Goto("validate") /\ UNCHANGED <<store, late>>
     \/ AckFails /\ Record(RECON, NoOrder) /\ UNCHANGED server
  /\ UNCHANGED market

\* The server's echo and the order are validated again.
Validate ==
  /\ pc = "validate"
  /\ \/ Goto("submit") /\ UNCHANGED store
     \/ Record("FAILED", NoOrder)
  /\ UNCHANGED <<server, market, late>>

\* An exception execute_order does not catch, of the validation or of the local
\* store, ends the work on the order: its record stays SUBMITTING.
Escape ==
  /\ pc \in {"ack", "validate", "accepted", "refused", "raised"}
  /\ IF pc = "ack" THEN AckFails ELSE UNCHANGED late
  /\ pc' = "execute"
  /\ current' = NoOrder
  /\ UNCHANGED <<server, store, market, held, lease, todo, outbox, jobs, answer, trading>>

Place(o) ==
  /\ broker' = [broker EXCEPT ![o] = "reported"]
  /\ placements' = [placements EXCEPT ![o] = @ + 1]
  /\ UNCHANGED <<traded, past>>

\* Mutant: a call that raises is made again.
Submit_Retries ==
  /\ pc = "submit"
  /\ \/ Place(current) /\ Goto("accepted")
     \/ UNCHANGED market /\ Goto("refused")
     \/ (Place(current) \/ UNCHANGED market) /\ Goto("submit")
  /\ UNCHANGED <<server, store, late>>

\* submit_order accepts, refuses, or raises before or after the order is placed.
Submit ==
  /\ pc = "submit"
  /\ \/ Place(current) /\ Goto("accepted")
     \/ UNCHANGED market /\ Goto("refused")
     \/ (Place(current) \/ UNCHANGED market) /\ Goto("raised")
  /\ UNCHANGED <<server, store, late>>

\* Mutant: an exception of the broker call counts as a failed submission.
RecordOutcome_Failed ==
  /\ \/ pc = "accepted" /\ Record("SUBMITTED", current)
     \/ pc = "refused" /\ Record("BROKER_REJECTED", NoOrder)
     \/ pc = "raised" /\ Record("FAILED", NoOrder)
  /\ UNCHANGED <<server, market, late>>

RecordOutcome ==
  /\ \/ pc = "accepted" /\ Record("SUBMITTED", current)
     \/ pc = "refused" /\ Record("BROKER_REJECTED", NoOrder)
     \/ pc = "raised" /\ Record(RECON, NoOrder)
  /\ UNCHANGED <<server, market, late>>

OrdersDone ==
  /\ pc = "execute" /\ held = {}
  /\ Goto("sync")
  /\ UNCHANGED <<server, store, market, late>>

----------------------------------------------------------------------------
\* run_once: broker events and cancel commands.

\* poll_events: trades first, then order states, and the first PollLimit of
\* them; known events change nothing on the server.
TradeEvents == {e \in {TradeEvent(o, n) : o \in {p \in Orders : Visible(p)}, n \in 1..Quantity} :
                  e.id[3] <= traded[e.order]}
OrderEvents(unsure) == {OrderEvent(o, IF o \in unsure THEN "unknown" ELSE broker[o]) :
                          o \in {p \in Orders : Visible(p)}}
Polled(unsure) ==
  LET all == SetToSeq(TradeEvents) \o SetToSeq(OrderEvents(unsure))
      posted == {all[i] : i \in {j \in DOMAIN all : j <= PollLimit}}
      New(events) == SetToSeq({e \in events \cap posted : e.id \notin applied})
  IN New(TradeEvents) \o New(OrderEvents(unsure))

\* unsure: those it shows so this time.
SyncBrokerEvents ==
  /\ pc = "sync"
  /\ \E unsure \in SUBSET Unsure : outbox' = Polled(unsure)
  /\ pc' = "syncPost"
  /\ UNCHANGED <<server, store, market, held, current, lease, todo, jobs, answer, trading, late>>

\* process_commands.  old: leased more than two minutes ago.
AskForCommands ==
  /\ pc = "commands"
  /\ \/ \E old \in SUBSET LeasedCommands :
          /\ LeaseCommands(old)
          /\ \/ jobs' = old \cup CommandsIn("pending") /\ pc' = "cancel"
             \/ pc' = "top" /\ UNCHANGED jobs
     \/ pc' = "top" /\ UNCHANGED <<server, jobs>>
  /\ UNCHANGED <<store, market, held, current, lease, todo, outbox, answer, trading, late>>

\* cancel_order: the broker takes the request or refuses it.  It is for the broker
\* order last reported for the order, which recovery may have mistaken.
CancelOrder(job) ==
  /\ pc = "cancel" /\ job \in jobs
  /\ \/ /\ \E p \in Orders :
             /\ Visible(p) /\ broker[p] \in {"reported", "partsucc"}
             /\ broker' = [broker EXCEPT ![p] = "canceling"]
        /\ answer' = <<job, TRUE>>
     \/ answer' \in {<<job, FALSE>>, <<job, TRUE>>} /\ UNCHANGED broker
  /\ jobs' = jobs \ {job}
  /\ pc' = "complete"
  /\ UNCHANGED <<server, store, traded, placements, past, held, current, lease, todo, outbox,
                 trading, late>>

ReportCommand ==
  /\ pc = "complete"
  /\ LET o == answer[1][1]  c == answer[1][2] IN
     \/ command[o][c] = "leased" /\ CompleteCommand(o, c, answer[2])
     \/ UNCHANGED server
  /\ pc' \in {"cancel", "top"}
  /\ answer' = <<>>
  /\ UNCHANGED <<store, market, held, current, lease, todo, outbox, jobs, trading, late>>

CommandsDone ==
  /\ pc = "cancel" /\ jobs = {}
  /\ Goto(AfterCommands)
  /\ UNCHANGED <<server, store, market, late>>

\* The process dies; only the store remains.
Crash ==
  /\ pc # "off"
  /\ pc' = "off"
  /\ held' = {} /\ jobs' = {} /\ todo' = {}
  /\ outbox' = <<>> /\ answer' = <<>>
  /\ current' = NoOrder
  /\ trading' = FALSE
  /\ UNCHANGED <<server, store, market, lease, late>>

----------------------------------------------------------------------------
AgentSteps ==
  \/ Deliver \/ PostEnds \/ DeliverLate \/ Start \/ Recovered
  \/ Heartbeat \/ AskForOrders \/ ReceiveOrders \/ LeaseUnheard
  \/ AskSubmitting \/ Validate \/ Escape \/ Submit \/ RecordOutcome \/ OrdersDone
  \/ SyncBrokerEvents \/ AskForCommands \/ ReportCommand \/ CommandsDone \/ Crash
  \/ \E o \in Orders :
       RecoverOne(o) \/ SkipOrder(o) \/ MarkSubmitting(o) \/ AcknowledgeUnheard(o)
  \/ \E job \in Orders \X Commands : CancelOrder(job)

\* Humans and the clock.  A commit or a resume is one step with its preview
\* here: LiveOrder shows what may come between the two.
Resume ==
  /\ stopped /\ NoBlocker
  /\ stopped' = FALSE
  /\ UNCHANGED <<status, seen, expired, token, hold, approved, passed, stopRead, resumeRead,
                 fills, command, applied>>

OfficeSteps ==
  \/ Stop \/ Resume \/ ExpireOrders \/ ReleaseLeases
  \/ \E o \in Orders :
       \/ CheckCreate(o) \/ Create(o, "WAITING_APPROVAL") \/ CheckApprove(o)
       \/ OrderExpires(o) \/ LeaseExpires(o)
       \/ \E action \in {"approve", "reject", "cancel"} : Mutate(o, action)

Next ==
  \/ AgentSteps
  \/ Market \/ NewDay
  \/ OfficeSteps /\ UNCHANGED <<store, market, agent, late>>

Spec == Init /\ [][Next]_vars

----------------------------------------------------------------------------
\* No order is placed at the broker twice, whatever requests are lost, late or
\* repeated and however often the agent dies and is leased the order again.
AtMostOnePlacement == \A o \in Orders : placements[o] <= 1

\* An order at the broker is one a human approved and whose submission the server
\* acknowledged, and neither maintenance nor a human nor a late event or request
\* returns it to the queue.
Acknowledged == Sent \cup {"FILLED", "CANCELED", "BROKER_REJECTED", "FAILED"}
PlacedOrdersAreSent ==
  \A o \in Orders : broker[o] # "none" => status[o] \in Acknowledged /\ approved[o]

\* "FAILED is only for orders that did not enter the broker".
FailedWasNotPlaced == \A o \in Orders : status[o] = "FAILED" => broker[o] = "none"

\* A final status the server holds for an order that was sent is the broker's,
\* however late or out of order the events arrived; only a recovery that took
\* another broker order for this one may have reported that order's.
OutcomeIsTheBrokers ==
  \A o \in Orders :
    /\ match[o] \in {o, NoOrder} =>
         /\ status[o] = "FILLED" => broker[o] = "succeeded"
         /\ status[o] = "CANCELED" => broker[o] \in {"none", "canceled"}
    /\ fills[o] \subseteq {o} \X (1..traded[o])
=============================================================================
