-------------------------- MODULE LiveOrderProofs --------------------------
(***************************************************************************)
(* What the order book guarantees for every number of orders, trades,      *)
(* leases and cancel commands, whatever the agent asks for and reports.    *)
(***************************************************************************)
EXTENDS LiveOrder, FiniteSetTheorems, TLAPS

\* The facts about the orders' graph the proofs below rest on.
LEMMA EdgeFacts ==
  /\ Edges \in [Statuses -> SUBSET Statuses]
  /\ \A s \in Final \cup {"absent"} : Edges[s] = {}
  /\ Edges["WAITING_APPROVAL"] = {"REJECTED", "CANCELED", "READY", "EXPIRED", RECON}
  /\ Edges["READY"] = {"CANCELED", "LEASED", "EXPIRED", RECON}
  /\ Edges["LEASED"] = {"CANCELED", "READY", "SUBMITTING", "EXPIRED", RECON}
  /\ Edges["SUBMITTING"] = {"BROKER_REJECTED", "FAILED", RECON, "SUBMITTED"}
  /\ Edges["SUBMITTED"] = {"BROKER_REJECTED", "PARTIALLY_FILLED", "FILLED",
                           "CANCEL_PENDING", "CANCELED", RECON}
  /\ Edges["PARTIALLY_FILLED"] = {"FILLED", "CANCEL_PENDING", "CANCELED", RECON}
  /\ Edges["CANCEL_PENDING"] = {"CANCELED", "PARTIALLY_FILLED", "FILLED", RECON}
  /\ Edges[RECON] = {"SUBMITTED", "PARTIALLY_FILLED", "FILLED", "CANCELED", "BROKER_REJECTED"}
BY DEF Edges, Statuses, Final, Waiting, Queue, Sent, RECON

\* What an event may lead to.
LEMMA TargetFacts ==
  ASSUME NEW o \in Orders, NEW reported \in Reportable, status[o] \in Statuses
  PROVE  /\ EventTarget(o, reported) \in Statuses \cup {""}
         /\ EventTarget(o, reported) \in {"", status[o]} \cup Edges[status[o]]
         /\ Overfilled(o) /\ status[o] = RECON => EventTarget(o, reported) \in {"", RECON}
<1>1. Edges \in [Statuses -> SUBSET Statuses] /\ RECON \in Statuses /\ RECON # ""
  BY EdgeFacts DEF Statuses, Sent, RECON
<1>2. CASE reported = ""
  BY <1>2 DEF EventTarget
<1>3. CASE reported # ""
  <2> DEFINE target == IF Overfilled(o) THEN RECON ELSE reported
  <2>1. CASE target \in Edges[status[o]] \/ target = status[o]
    <3>1. EventTarget(o, reported) = target
      BY <1>3, <2>1 DEF EventTarget
    <3> QED
      BY <1>1, <2>1, <3>1
  <2>2. CASE ~(target \in Edges[status[o]] \/ target = status[o])
    <3>1. EventTarget(o, reported) = IF RECON \in Edges[status[o]] THEN RECON ELSE status[o]
      BY <1>3, <2>2 DEF EventTarget
    <3> QED
      BY <1>1, <2>2, <3>1
  <2> QED
    BY <2>1, <2>2
<1> QED
  BY <1>2, <1>3

----------------------------------------------------------------------------
\* The invariant.  A preview is current as every write of a status bumps the
\* version.
BookInv == ServerTypeOK /\ PreviewsAreCurrent

\* Every step lets requests end but for the one it lets through.
Drops == \A o \in Orders : passed'[o] \in {passed[o], "none"}

\* Every write of statuses keeps the previews current.
LEMMA WritesKeepPreviews ==
  ASSUME ServerTypeOK, PreviewsAreCurrent,
         NEW new \in [Orders -> Statuses], NEW bumped,
         \A o \in Orders \ bumped : new[o] = status[o],
         SetStatuses(new, bumped)
  PROVE  /\ status' = new
         /\ seen' \in [Orders -> Statuses \cup {"none"}]
         /\ passed' \in [Orders -> Requests] /\ Drops
         /\ PreviewsAreCurrent'
BY DEF SetStatuses, Requests, Drops, ServerTypeOK, PreviewsAreCurrent

LEMMA WriteKeepsPreviews ==
  ASSUME ServerTypeOK, PreviewsAreCurrent, NEW o \in Orders, NEW s \in Statuses, Set(o, s)
  PROVE  /\ status' = [status EXCEPT ![o] = s]
         /\ status' \in [Orders -> Statuses]
         /\ seen' \in [Orders -> Statuses \cup {"none"}]
         /\ passed' \in [Orders -> Requests] /\ Drops /\ passed'[o] = "none"
         /\ PreviewsAreCurrent'
<1> DEFINE new == [status EXCEPT ![o] = s]
<1>1. new \in [Orders -> Statuses] /\ \A p \in Orders \ {o} : new[p] = status[p]
  BY DEF ServerTypeOK
<1>2. SetStatuses(new, {o})
  BY DEF Set
<1>3. passed'[o] = "none"
  BY DEF Set, SetStatuses
<1> QED
  BY <1>1, <1>2, <1>3, WritesKeepPreviews

\* What a step does to the row of one order.
RowMove(o) ==
  /\ \/ status'[o] = status[o]
     \/ status'[o] \in Edges[status[o]]
     \/ status[o] = "absent" /\ status'[o] \in {"WAITING_APPROVAL", "RISK_REJECTED"}
     \/ status[o] \in Final /\ status'[o] = RECON /\ Overfilled(o)'
     \/ Returned(o)
  /\ Overfilled(o)' /\ (~Overfilled(o) \/ status[o] = RECON)
       => status'[o] = RECON \/ Returned(o)

Types == ServerTypeOK' /\ PreviewsAreCurrent'
Rows == \A o \in Orders : RowMove(o)

\* A step that leaves statuses and fills alone moves no row.
LEMMA NoMove ==
  ASSUME BookInv, UNCHANGED <<status, fills>>
  PROVE  Rows
BY DEF Rows, RowMove, Overfilled

\* A step that writes one status along an edge and leaves the fills alone.
LEMMA OneMove ==
  ASSUME BookInv, NEW o \in Orders, NEW s, status' = [status EXCEPT ![o] = s],
         UNCHANGED fills, status[o] = RECON => s = RECON \/ Returned(o),
         \/ s = status[o] \/ s \in Edges[status[o]] \/ Returned(o)
         \/ status[o] = "absent" /\ s \in {"WAITING_APPROVAL", "RISK_REJECTED"}
  PROVE  Rows
BY DEF BookInv, ServerTypeOK, Rows, RowMove, Overfilled

----------------------------------------------------------------------------
\* Each operation.

LEMMA CreateStep ==
  ASSUME BookInv, NEW o \in Orders, NEW s \in Statuses, Create(o, s)
  PROVE  Types /\ Rows
<1>1. Types
  BY WriteKeepsPreviews DEF Create, BookInv, Types, ServerTypeOK
<1>2. status[o] = "absent"
  BY DEF Create
<1> QED
  BY <1>1, <1>2, WriteKeepsPreviews, OneMove DEF Create, BookInv, RECON

LEMMA MutateStep ==
  ASSUME BookInv, NEW o \in Orders, NEW action \in {"approve", "reject", "cancel"},
         Mutate(o, action)
  PROVE  Types /\ Rows
<1> DEFINE target == ActionTarget(o, action)
<1>1. /\ target \in {"READY", "REJECTED", "CANCELED", "CANCEL_PENDING"}
      /\ target = "CANCELED" => status[o] \in Waiting \cup Queue
  BY DEF ActionTarget
<1>2. target \in Statuses
  BY <1>1 DEF Statuses, Final, Queue, Sent
<1>3. Set(o, target) /\ target \in Edges[status[o]]
  BY DEF Mutate
<1>4. status[o] # RECON
  BY <1>1, <1>3, EdgeFacts DEF Waiting, Queue, RECON
<1>5. command' \in [Orders -> [Commands -> CmdState]]
  <2>1. command \in [Orders -> [Commands -> CmdState]] /\ "pending" \in CmdState
    BY DEF BookInv, ServerTypeOK, CmdState
  <2>2. \/ UNCHANGED command
        \/ \E c \in Commands : command' = [command EXCEPT ![o][c] = "pending"]
    BY DEF Mutate
  <2> QED
    BY <2>1, <2>2
<1> HIDE DEF target
<1>6. Types
  <2>1. approved' \in [Orders -> BOOLEAN]
    BY DEF Mutate, BookInv, ServerTypeOK
  <2> QED
    BY <1>2, <1>3, <1>5, <2>1, WriteKeepsPreviews DEF Mutate, BookInv, Types, ServerTypeOK
<1>7. Rows
  BY <1>2, <1>3, <1>4, WriteKeepsPreviews, OneMove DEF Mutate, BookInv
<1> QED
  BY <1>6, <1>7

LEMMA ExpireStep == ASSUME BookInv, ExpireOrders PROVE Types /\ Rows
<1>1. Expire \in [Orders -> Statuses] /\ \A o \in Orders \ Overdue : Expire[o] = status[o]
  BY DEF Expire, BookInv, ServerTypeOK, Statuses, Final
<1>2. SetStatuses(Expire, Overdue)
  BY DEF ExpireOrders
<1>3. /\ status' = Expire /\ seen' \in [Orders -> Statuses \cup {"none"}]
      /\ passed' \in [Orders -> Requests] /\ PreviewsAreCurrent'
  BY <1>1, <1>2, WritesKeepPreviews DEF BookInv
<1>4. Types
  BY <1>1, <1>3 DEF ExpireOrders, BookInv, Types, ServerTypeOK
<1>5. ASSUME NEW o \in Orders PROVE RowMove(o)
  BY <1>3, EdgeFacts
  DEF ExpireOrders, Expire, Overdue, RowMove, Overfilled, Waiting, Queue, RECON
<1> QED
  BY <1>4, <1>5 DEF Rows

LEMMA LeaseStep == ASSUME BookInv, LeaseOrders PROVE Types /\ Rows
<1> DEFINE granted == {o \in Leasable : ~expired[o]}
           new == [o \in Orders |-> IF o \in granted THEN "LEASED"
                                    ELSE IF o \in Leasable THEN "EXPIRED"
                                    ELSE status[o]]
<1>2. new \in [Orders -> Statuses] /\ \A o \in Orders \ Leasable : new[o] = status[o]
  BY DEF BookInv, ServerTypeOK, Statuses, Final, Queue
<1>3. SetStatuses(new, Leasable)
  BY DEF LeaseOrders
<1>4. /\ status' = new /\ seen' \in [Orders -> Statuses \cup {"none"}]
      /\ passed' \in [Orders -> Requests] /\ PreviewsAreCurrent'
  BY <1>2, <1>3, WritesKeepPreviews DEF BookInv
<1>5. hold' \in [Orders -> Holds]
  BY DEF LeaseOrders, Released, BookInv, ServerTypeOK, Holds
<1>6. token' \in [Orders -> 0..MaxLeases]
  BY BoundsAssumption DEF LeaseOrders, BookInv, ServerTypeOK
<1>7. Types
  BY <1>2, <1>4, <1>5, <1>6 DEF LeaseOrders, BookInv, Types, ServerTypeOK
<1>8. ASSUME NEW o \in Orders PROVE RowMove(o)
  <2>1. o \in Leasable => status[o] \in {"READY", "LEASED"}
    BY DEF Leasable, Reclaimed
  <2> QED
    BY <1>4, <2>1, EdgeFacts
    DEF LeaseOrders, RowMove, Overfilled, RECON
<1> QED
  BY <1>7, <1>8 DEF Rows

LEMMA AcknowledgeStep ==
  ASSUME BookInv, NEW o \in Orders, Acknowledge(o)
  PROVE  Types /\ Rows
<1>1. {"SUBMITTING", "WAITING_APPROVAL"} \subseteq Statuses
  BY DEF Statuses, Sent, Waiting
<1>2. CASE approved[o]
  <2>1. Set(o, "SUBMITTING") /\ "SUBMITTING" \in Edges[status[o]]
    BY <1>2 DEF Acknowledge
  <2>2. status[o] # RECON
    BY <2>1, EdgeFacts
  <2>3. Types
    BY <1>1, <2>1, WriteKeepsPreviews DEF Acknowledge, BookInv, Types, ServerTypeOK
  <2> QED
    BY <1>1, <2>1, <2>2, <2>3, WriteKeepsPreviews, OneMove DEF Acknowledge, BookInv
<1>3. CASE ~approved[o]
  <2>1. Set(o, "WAITING_APPROVAL")
    BY <1>3 DEF Acknowledge
  <2>2. status' = [status EXCEPT ![o] = "WAITING_APPROVAL"]
    BY <1>1, <2>1, WriteKeepsPreviews DEF BookInv
  <2>3. Returned(o)
    BY <1>3, <2>2 DEF Returned, BookInv, ServerTypeOK
  <2>4. Types
    BY <1>1, <2>1, WriteKeepsPreviews DEF Acknowledge, BookInv, Types, ServerTypeOK
  <2> QED
    BY <2>2, <2>3, <2>4, OneMove DEF Acknowledge
<1> QED
  BY <1>2, <1>3

LEMMA EventStep ==
  ASSUME BookInv, NEW o \in Orders, NEW id \in EventIds, NEW reported \in Reportable,
         NEW trades \in SUBSET Trades, ApplyEvent(o, id, reported, trades)
  PROVE  Types /\ Rows
<1> DEFINE target == EventTarget(o, reported)
           over   == trades # {} /\ Cardinality(fills[o] \cup trades) > Quantity
           final  == IF over THEN RECON ELSE IF target = "" THEN status[o] ELSE target
<1>1. /\ target \in Statuses \cup {""}
      /\ target \in {"", status[o]} \cup Edges[status[o]]
      /\ Overfilled(o) /\ status[o] = RECON => target \in {"", RECON}
  BY TargetFacts DEF BookInv, ServerTypeOK
<1>2. Set(o, final) /\ fills' = [fills EXCEPT ![o] = @ \cup trades]
  BY DEF ApplyEvent
<1> HIDE DEF target
<1>3. final \in Statuses
  BY <1>1 DEF BookInv, ServerTypeOK, Statuses, Sent
<1>4. fills' \in [Orders -> SUBSET Trades] /\ fills'[o] = fills[o] \cup trades
      /\ \A p \in Orders \ {o} : fills'[p] = fills[p]
  BY <1>2 DEF BookInv, ServerTypeOK
<1>5. Overfilled(o)' /\ (~Overfilled(o) \/ status[o] = RECON) => final = RECON
  <2>1. CASE trades = {}
    BY <1>1, <1>4, <2>1 DEF Overfilled
  <2>2. CASE trades # {}
    BY <1>4, <2>2 DEF Overfilled
  <2> QED
    BY <2>1, <2>2
<1>6. over => Overfilled(o)'
  BY <1>4 DEF Overfilled
<1>7. (final = RECON /\ over) \/ final = status[o] \/ final \in Edges[status[o]]
  BY <1>1
<1>8. /\ status' = [status EXCEPT ![o] = final]
      /\ status' \in [Orders -> Statuses]
      /\ seen' \in [Orders -> Statuses \cup {"none"}]
      /\ passed' \in [Orders -> Requests]
      /\ PreviewsAreCurrent'
  <2> HIDE DEF final
  <2> QED
    BY <1>2, <1>3, WriteKeepsPreviews DEF BookInv
<1>9. Types
  <2>1. stopped' \in BOOLEAN /\ applied' \subseteq EventIds
    BY DEF ApplyEvent, BookInv, ServerTypeOK
  <2> QED
    BY <1>4, <1>8, <2>1 DEF ApplyEvent, BookInv, Types, ServerTypeOK
<1> HIDE DEF final, over
<1>10. ASSUME NEW p \in Orders \ {o} PROVE RowMove(p)
  BY <1>4, <1>8 DEF RowMove, Overfilled, BookInv, ServerTypeOK
<1>11. RowMove(o)
  <2>1. status'[o] = final
    BY <1>8 DEF BookInv, ServerTypeOK
  <2>2. status[o] \in Final \/ status[o] = RECON \/ status[o] = "absent" \/ RECON \in Edges[status[o]]
    BY EdgeFacts DEF BookInv, ServerTypeOK, Statuses, Waiting, Queue, Sent, RECON
  <2>3. status[o] # "absent"
    BY DEF ApplyEvent
  <2> QED
    BY <1>5, <1>6, <1>7, <2>1, <2>2, <2>3 DEF RowMove
<1> QED
  BY <1>9, <1>10, <1>11 DEF Rows

LEMMA CommandSteps ==
  ASSUME BookInv,
         \/ \E old \in SUBSET LeasedCommands : LeaseCommands(old)
         \/ \E o \in Orders, c \in Commands, success \in BOOLEAN : CompleteCommand(o, c, success)
  PROVE  Types /\ Rows
<1>1. ASSUME NEW old \in SUBSET LeasedCommands, LeaseCommands(old) PROVE Types /\ Rows
  <2>1. command' \in [Orders -> [Commands -> CmdState]]
    BY <1>1 DEF LeaseCommands, BookInv, ServerTypeOK, CmdState
  <2> QED
    BY <1>1, <2>1, NoMove
    DEF LeaseCommands, BookInv, ServerTypeOK, PreviewsAreCurrent, Types
<1>2. ASSUME NEW o \in Orders, NEW c \in Commands, NEW success \in BOOLEAN,
             CompleteCommand(o, c, success)
      PROVE  Types /\ Rows
  <2>1. command' \in [Orders -> [Commands -> CmdState]]
    BY <1>2 DEF CompleteCommand, BookInv, ServerTypeOK, CmdState
  <2>2. CASE UNCHANGED <<status, seen, passed>>
    BY <1>2, <2>1, <2>2, NoMove
    DEF CompleteCommand, BookInv, ServerTypeOK, PreviewsAreCurrent, Types
  <2>3. CASE status[o] = "CANCEL_PENDING" /\ Set(o, RECON)
    <3>1. RECON \in Statuses /\ RECON \in Edges[status[o]]
      BY <2>3, EdgeFacts DEF Statuses, Sent
    <3>2. Types
      BY <1>2, <2>1, <2>3, <3>1, WriteKeepsPreviews
      DEF CompleteCommand, BookInv, Types, ServerTypeOK
    <3> QED
      BY <1>2, <2>3, <3>1, <3>2, WriteKeepsPreviews, OneMove DEF CompleteCommand, BookInv
  <2> QED
    BY <1>2, <2>2, <2>3 DEF CompleteCommand
<1> QED
  BY <1>1, <1>2

\* Previews, the clock, the switch and its reads, and the release of leases.
QuietStep ==
  \/ Stop \/ ResumeRead \/ ResumeCommit \/ LeaseCheck \/ ReleaseLeases
  \/ \E o \in Orders : Preview(o) \/ OrderExpires(o) \/ LeaseExpires(o)

CheckStep ==
  \E o \in Orders :
    CheckCreate(o) \/ CheckApprove(o) \/ \E t : CheckSubmit(o, t)

LEMMA QuietSteps == ASSUME BookInv, QuietStep PROVE Types /\ Rows
<1>1. Types
  BY DEF QuietStep, Stop, ResumeRead, ResumeCommit, LeaseCheck, ReleaseLeases, Released, Preview,
     OrderExpires, LeaseExpires, BookInv, ServerTypeOK, PreviewsAreCurrent, Types, Holds
<1>2. UNCHANGED <<status, fills>>
  BY DEF QuietStep, Stop, ResumeRead, ResumeCommit, LeaseCheck, ReleaseLeases, Preview,
     OrderExpires, LeaseExpires
<1> QED
  BY <1>1, <1>2, NoMove

\* A check lets one request through.
LEMMA CheckFinds ==
  ASSUME CheckStep
  PROVE  \E o \in Orders, request \in {"create", "approve", "submit"} : FindsNoStop(o, request)
BY DEF CheckStep, CheckCreate, CheckApprove, CheckSubmit

LEMMA CheckSteps == ASSUME BookInv, CheckStep PROVE Types /\ Rows
<1>1. PICK o \in Orders, request \in {"create", "approve", "submit"} : FindsNoStop(o, request)
  BY CheckFinds
<1>2. Types
  BY <1>1 DEF FindsNoStop, BookInv, ServerTypeOK, PreviewsAreCurrent, Types, Requests
<1>3. UNCHANGED <<status, fills>>
  BY <1>1 DEF FindsNoStop
<1> QED
  BY <1>2, <1>3, NoMove

\* Every step of the order book.
LEMMA BookStep == ASSUME BookInv, ServerNext PROVE Types /\ Rows
<1>1. ASSUME NEW o \in Orders, NEW id \in EventIds, NEW reported \in Reportable,
             NEW trades \in {{}} \cup {{t} : t \in Trades}, ApplyEvent(o, id, reported, trades)
      PROVE  Types /\ Rows
  <2>1. trades \in SUBSET Trades
    OBVIOUS
  <2> QED
    BY <1>1, <2>1, EventStep
<1>2. ASSUME NEW o \in Orders, NEW action \in {"approve", "reject", "cancel"}, Commit(o, action)
      PROVE  Types /\ Rows
  BY <1>2, MutateStep DEF Commit
<1>3. CASE QuietStep
  BY <1>3, QuietSteps
<1>4. CASE CheckStep
  BY <1>4, CheckSteps
<1> QED
  BY <1>1, <1>2, <1>3, <1>4, CreateStep, ExpireStep, LeaseStep, AcknowledgeStep, CommandSteps
  DEF ServerNext, ServerSteps, AnyAgent, QuietStep, CheckStep

\* Stuttering.
LEMMA BookStutter == ASSUME BookInv, UNCHANGED server PROVE Types /\ Rows
<1>1. Types
  BY DEF server, BookInv, ServerTypeOK, PreviewsAreCurrent, Types
<1> QED
  BY <1>1, NoMove DEF server

\* The empty book.
LEMMA BookInit == ASSUME ServerInit PROVE BookInv
<1>1. command \in [Orders -> [Commands -> CmdState]]
  BY DEF ServerInit, CmdState
<1>2. token \in [Orders -> 0..MaxLeases]
  BY BoundsAssumption DEF ServerInit
<1> QED
  BY <1>1, <1>2
  DEF BookInv, ServerInit, ServerTypeOK, PreviewsAreCurrent, Statuses, Holds, Requests

----------------------------------------------------------------------------
\* Theorems.

\* The invariant of the order book: its rows keep their types and the
\* versions guard the previews.
THEOREM BookInvariant == ServerSpec => []BookInv
<1>1. ServerInit => BookInv
  BY BookInit
<1>2. BookInv /\ [ServerNext]_server => BookInv'
  BY BookStep, BookStutter DEF BookInv, Types
<1> QED
  BY <1>1, <1>2, PTL DEF ServerSpec

\* Type correctness of the order book.
THEOREM ServerTypeCorrect == ServerSpec => []ServerTypeOK
BY BookInvariant, PTL DEF BookInv

\* Whatever else happens to an order, a human commits on what he saw.
THEOREM CommitsOnWhatWasSeen == ServerSpec => []PreviewsAreCurrent
BY BookInvariant, PTL DEF BookInv

\* No later report hides an overfill, for any number of fills and reports.
THEOREM OverfillStaysPinned == ServerSpec => OverfillPinned
<1>1. BookInv /\ [ServerNext]_server =>
        [\A o \in Orders :
           Overfilled(o)' /\ (~Overfilled(o) \/ status[o] = RECON)
             => status'[o] = RECON \/ Returned(o)]_server
  BY BookStep, BookStutter DEF Rows, RowMove
<1> QED
  BY <1>1, BookInvariant, PTL DEF ServerSpec, OverfillPinned

\* A final order stays final but for an overfill, or that nobody approved it.
THEOREM FinalStays == ServerSpec => FinalOrdersStay
<1>1. BookInv /\ [ServerNext]_server =>
        [\A o \in Orders :
           status[o] \in Final => \/ status'[o] = status[o]
                                 \/ (status'[o] = RECON /\ Overfilled(o)')
                                 \/ Returned(o)]_server
  <2> SUFFICES ASSUME BookInv, [ServerNext]_server
               PROVE  \A o \in Orders :
                        status[o] \in Final => \/ status'[o] = status[o]
                                              \/ (status'[o] = RECON /\ Overfilled(o)')
                                              \/ Returned(o)
    OBVIOUS
  <2>1. Rows
    BY BookStep, BookStutter
  <2> QED
    BY <2>1, EdgeFacts DEF Rows, RowMove, Final
<1> QED
  BY <1>1, BookInvariant, PTL DEF ServerSpec, FinalOrdersStay

----------------------------------------------------------------------------
\* The order book implements the abstract promise.

LEMMA PhaseFacts ==
  /\ PhaseOf("absent") = "none"
  /\ PhaseOf("WAITING_APPROVAL") = "waiting"
  /\ \A s \in {"READY", "LEASED"} : PhaseOf(s) = "queued"
  /\ \A s \in Sent \ {RECON} : PhaseOf(s) = "sent"
  /\ PhaseOf(RECON) = "unclear"
  /\ \A s \in Final : PhaseOf(s) = "done"
BY DEF PhaseOf, Waiting, Queue, Sent, Final, RECON

\* Writing one status writes one phase.
LEMMA PhaseWrite ==
  ASSUME ServerTypeOK, NEW o \in Orders, NEW s, status' = [status EXCEPT ![o] = s]
  PROVE  Phase' = [Phase EXCEPT ![o] = PhaseOf(s)]
BY DEF ServerTypeOK, Phase

\* A phase stays the same when its order moves inside of it.
LEMMA SamePhase ==
  ASSUME ServerTypeOK, NEW o \in Orders, NEW s, status' = [status EXCEPT ![o] = s],
         PhaseOf(s) = Phase[o]
  PROVE  Phase' = Phase
BY PhaseWrite DEF Phase

\* One waiting or queued order comes to its end.
LEMMA OneEnds ==
  ASSUME ServerTypeOK, NEW o \in Orders, NEW s, status' = [status EXCEPT ![o] = s], Drops,
         PhaseOf(s) = "done", Phase[o] \in {"waiting", "queued"},
         UNCHANGED <<approved, stopped, applied>>
  PROVE  Promise!Next
<1>1. Phase' = [p \in Orders |-> IF p \in {o} THEN "done" ELSE Phase[p]]
  <2>1. Phase' = [Phase EXCEPT ![o] = PhaseOf(s)] /\ Phase = [p \in Orders |-> Phase[p]]
    BY PhaseWrite DEF Phase
  <2> QED
    BY <2>1
<1>2. Promise!Finish({o}) /\ {o} \in SUBSET Orders
  BY <1>1 DEF Promise!Finish
<1> QED
  BY <1>2 DEF Promise!Next, Promise!Moves, Drops

\* A phase the graph of the orders leads to.
LEMMA OnwardFacts ==
  ASSUME NEW s \in Statuses \ {"absent"}, NEW t \in {s, RECON} \cup Edges[s]
  PROVE  PhaseOf(t) \in Promise!Onward(PhaseOf(s))
<1>1. CASE s = "WAITING_APPROVAL"
  BY <1>1, EdgeFacts, PhaseFacts DEF Promise!Onward, Final
<1>2. CASE s \in Queue
  <2>1. t \in {"READY", "LEASED", "CANCELED", "EXPIRED", "SUBMITTING", RECON}
    BY <1>2, EdgeFacts DEF Queue
  <2>2. PhaseOf(t) \in {"queued", "sent", "done", "unclear"} /\ PhaseOf(s) = "queued"
    BY <1>2, <2>1, PhaseFacts DEF Final, Queue, Sent, RECON
  <2> QED
    BY <2>2 DEF Promise!Onward
<1>3. CASE s \in Sent \ {RECON}
  <2>1. t \in (Sent \ {RECON}) \cup Final \cup {RECON}
    BY <1>3, EdgeFacts DEF Sent, Final, RECON
  <2>2. PhaseOf(t) \in {"sent", "done", "unclear"} /\ PhaseOf(s) = "sent"
    BY <1>3, <2>1, PhaseFacts
  <2> QED
    BY <2>2 DEF Promise!Onward
<1>4. CASE s = RECON
  <2>1. t \in (Sent \ {RECON}) \cup Final \cup {RECON}
    BY <1>4, EdgeFacts DEF Sent, Final, RECON
  <2>2. PhaseOf(t) \in {"sent", "done", "unclear"} /\ PhaseOf(s) = "unclear"
    BY <1>4, <2>1, PhaseFacts
  <2> QED
    BY <2>2 DEF Promise!Onward
<1>5. CASE s \in Final
  <2>1. t \in {s, RECON}
    BY <1>5, EdgeFacts
  <2>2. PhaseOf(t) \in {"done", "unclear"} /\ PhaseOf(s) = "done"
    BY <1>5, <2>1, PhaseFacts
  <2> QED
    BY <2>2 DEF Promise!Onward
<1> QED
  BY <1>1, <1>2, <1>3, <1>4, <1>5 DEF Statuses, Waiting

Kept == [Promise!Next]_(Promise!vars)

LEMMA CreateKept ==
  ASSUME BookInv, NEW o \in Orders, NEW s \in Statuses, Create(o, s)
  PROVE  Kept
<1>1. /\ status' = [status EXCEPT ![o] = s] /\ UNCHANGED <<approved, stopped, applied>>
      /\ s \in {"WAITING_APPROVAL", "RISK_REJECTED"} /\ Phase[o] = "none"
      /\ Drops /\ passed[o] = "create" /\ passed'[o] = "none"
  BY WriteKeepsPreviews, PhaseFacts DEF Create, BookInv, Phase
<1>2. Phase' = [Phase EXCEPT ![o] = PhaseOf(s)] /\ PhaseOf(s) \in {"waiting", "done"}
  BY <1>1, PhaseWrite, PhaseFacts DEF BookInv, Final
<1>3. Promise!Create(o)
  BY <1>1, <1>2 DEF Promise!Create, Promise!Move, Promise!Spends
<1> QED
  BY <1>1, <1>3 DEF Kept, Promise!Next, Promise!Moves, Drops

LEMMA MutateKept ==
  ASSUME BookInv, NEW o \in Orders, NEW action \in {"approve", "reject", "cancel"},
         Mutate(o, action)
  PROVE  Kept
<1> DEFINE target == ActionTarget(o, action)
<1>1. /\ target \in {"READY", "REJECTED", "CANCELED", "CANCEL_PENDING"}
      /\ target = "READY" <=> action = "approve"
      /\ target = "CANCELED" => status[o] \in {"WAITING_APPROVAL", "READY", "LEASED"}
  BY DEF ActionTarget, Waiting, Queue
<1>2. /\ target \in Statuses /\ Set(o, target) /\ target \in Edges[status[o]]
      /\ UNCHANGED <<stopped, applied>>
  BY <1>1 DEF Mutate, Statuses, Final, Queue, Sent
<1>3. /\ target = "READY" => /\ passed[o] = "approve"
                             /\ approved' = [approved EXCEPT ![o] = TRUE]
      /\ target # "READY" => UNCHANGED approved
  BY <1>1 DEF Mutate, BookInv, ServerTypeOK
<1> HIDE DEF target
<1>4. /\ status' = [status EXCEPT ![o] = target] /\ Phase[o] = PhaseOf(status[o])
      /\ Drops /\ passed'[o] = "none"
  BY <1>2, WriteKeepsPreviews DEF BookInv, Phase
<1>5. status[o] \in Statuses
  BY DEF BookInv, ServerTypeOK
<1>6. CASE target = "READY"
  <2>1. status[o] \in {"WAITING_APPROVAL", "LEASED"}
    BY <1>2, <1>5, <1>6, EdgeFacts DEF Statuses, Waiting, Queue, Sent, RECON
  <2>2. Phase' = [Phase EXCEPT ![o] = "queued"]
    <3>1. PhaseOf(target) = "queued"
      BY <1>6, PhaseFacts
    <3> QED
      BY <1>4, <3>1, PhaseWrite DEF BookInv
  <2>3. Phase[o] \in {"waiting", "queued"}
    BY <1>4, <2>1, PhaseFacts
  <2>4. Promise!Approve(o)
    BY <1>2, <1>3, <1>4, <1>6, <2>2, <2>3
    DEF Promise!Approve, Promise!Move, Promise!Spends
  <2> QED
    BY <1>4, <2>4 DEF Kept, Promise!Next, Promise!Moves, Drops
<1>7. CASE target \in {"REJECTED", "CANCELED"}
  <2>1. status[o] \in {"WAITING_APPROVAL", "READY", "LEASED"}
    BY <1>1, <1>2, <1>5, <1>7, EdgeFacts DEF Statuses, Waiting, Queue, Sent, RECON
  <2>2. PhaseOf(target) = "done" /\ Phase[o] \in {"waiting", "queued"}
    BY <1>4, <1>7, <2>1, PhaseFacts DEF Final
  <2> QED
    BY <1>2, <1>3, <1>4, <1>7, <2>2, OneEnds DEF BookInv, Kept
<1>8. CASE target = "CANCEL_PENDING"
  <2>1. status[o] \in {"SUBMITTED", "PARTIALLY_FILLED"}
    BY <1>2, <1>5, <1>8, EdgeFacts DEF Statuses, Waiting, Queue, Sent, RECON
  <2>2. PhaseOf(target) = Phase[o]
    BY <1>4, <1>8, <2>1, PhaseFacts DEF Sent, RECON
  <2>3. Phase' = Phase
    BY <1>4, <2>2, SamePhase DEF BookInv
  <2> QED
    BY <1>2, <1>3, <1>4, <1>8, <2>3 DEF Kept, Promise!Next, Promise!Moves, Promise!Rest, Drops
<1> QED
  BY <1>1, <1>6, <1>7, <1>8

LEMMA ExpireKept == ASSUME BookInv, ExpireOrders PROVE Kept
<1>1. status' = Expire /\ UNCHANGED <<approved, stopped, applied>> /\ Drops
  BY DEF ExpireOrders, SetStatuses, Drops
<1>2. Phase' = [o \in Orders |-> IF o \in Overdue THEN "done" ELSE Phase[o]]
  BY <1>1, PhaseFacts DEF Phase, Final, Expire
<1>3. \A o \in Overdue : Phase[o] \in {"waiting", "queued"}
  BY PhaseFacts DEF Phase, Waiting, Queue, Overdue
<1>4. Promise!Finish(Overdue) /\ Overdue \in SUBSET Orders
  BY <1>1, <1>2, <1>3 DEF Promise!Finish, Overdue
<1> QED
  BY <1>1, <1>4 DEF Kept, Promise!Next, Promise!Moves, Drops

LEMMA LeaseKept == ASSUME BookInv, LeaseOrders PROVE Kept
<1> DEFINE granted == {o \in Leasable : ~expired[o]}
           old == Leasable \ granted
<1>1. /\ status' = [o \in Orders |-> IF o \in granted THEN "LEASED"
                                    ELSE IF o \in Leasable THEN "EXPIRED"
                                    ELSE status[o]]
      /\ UNCHANGED <<approved, stopped, applied>> /\ Drops
  BY DEF LeaseOrders, SetStatuses, Drops
<1>2. \A o \in Leasable : o \in Orders /\ Phase[o] = "queued"
  BY PhaseFacts DEF Leasable, Reclaimed, Phase
<1>3. Phase' = [o \in Orders |-> IF o \in old THEN "done" ELSE Phase[o]]
  <2>1. PhaseOf("LEASED") = "queued" /\ PhaseOf("EXPIRED") = "done"
    BY PhaseFacts DEF Final
  <2>2. Phase' = [o \in Orders |-> PhaseOf(status'[o])]
    BY DEF Phase
  <2>3. Phase = [o \in Orders |-> PhaseOf(status[o])]
    BY DEF Phase
  <2>4. ASSUME NEW o \in Orders PROVE Phase'[o] = IF o \in old THEN "done" ELSE Phase[o]
    BY <1>1, <1>2, <2>1, <2>2, <2>3
  <2> QED
    BY <2>2, <2>4
<1>4. Promise!Finish(old) /\ old \in SUBSET Orders
  BY <1>1, <1>2, <1>3 DEF Promise!Finish
<1> HIDE DEF old
<1> QED
  BY <1>1, <1>4 DEF Kept, Promise!Next, Promise!Moves, Drops

LEMMA AcknowledgeKept == ASSUME BookInv, NEW o \in Orders, Acknowledge(o) PROVE Kept
<1>1. /\ {"SUBMITTING", "WAITING_APPROVAL"} \subseteq Statuses /\ status[o] \in Statuses
      /\ Phase[o] = PhaseOf(status[o]) /\ UNCHANGED <<approved, stopped, applied>>
  BY DEF Acknowledge, Statuses, Sent, Waiting, BookInv, ServerTypeOK, Phase
<1>2. Phase[o] # "none"
  BY <1>1 DEF Acknowledge, Statuses, PhaseOf
<1>3. CASE approved[o]
  <2>1. Set(o, "SUBMITTING") /\ "SUBMITTING" \in Edges[status[o]]
    BY <1>3 DEF Acknowledge
  <2>2. status[o] = "LEASED"
    BY <1>1, <2>1, EdgeFacts DEF Statuses, Waiting, Queue, Sent, RECON
  <2>3. Phase' = [Phase EXCEPT ![o] = "sent"] /\ Phase[o] = "queued"
    BY <1>1, <2>1, <2>2, WriteKeepsPreviews, PhaseWrite, PhaseFacts DEF BookInv, Sent, RECON
  <2>4. Drops /\ passed'[o] = "none" /\ passed[o] = "submit"
    BY <1>1, <2>1, WriteKeepsPreviews DEF Acknowledge, BookInv
  <2>5. Promise!Submit(o)
    BY <1>1, <1>2, <1>3, <2>3, <2>4 DEF Promise!Submit, Promise!Move, Promise!Spends
  <2> QED
    BY <2>4, <2>5 DEF Kept, Promise!Next, Promise!Moves, Drops
<1>4. CASE ~approved[o]
  <2>1. Set(o, "WAITING_APPROVAL")
    BY <1>4 DEF Acknowledge
  <2>2. Phase' = [Phase EXCEPT ![o] = "waiting"]
    BY <1>1, <2>1, WriteKeepsPreviews, PhaseWrite, PhaseFacts DEF BookInv
  <2>3. Drops /\ passed'[o] = "none" /\ passed[o] = "submit"
    BY <1>1, <2>1, WriteKeepsPreviews DEF Acknowledge, BookInv
  <2>4. Promise!Submit(o)
    BY <1>1, <1>2, <1>4, <2>2, <2>3 DEF Promise!Submit, Promise!Spends
  <2> QED
    BY <2>3, <2>4 DEF Kept, Promise!Next, Promise!Moves, Drops
<1> QED
  BY <1>3, <1>4

\* Whatever the agent reports is a step of Report.
LEMMA EventKept ==
  ASSUME BookInv, NEW o \in Orders, NEW id \in EventIds, NEW reported \in Reportable,
         NEW trades \in SUBSET Trades, ApplyEvent(o, id, reported, trades)
  PROVE  Kept
<1> DEFINE target == EventTarget(o, reported)
           over   == trades # {} /\ Cardinality(fills[o] \cup trades) > Quantity
           final  == IF over THEN RECON ELSE IF target = "" THEN status[o] ELSE target
<1>1. stopped \in BOOLEAN /\ status[o] \in Statuses \ {"absent"}
  BY DEF ApplyEvent, BookInv, ServerTypeOK
<1>2. target \in Statuses \cup {""} /\ target \in {"", status[o]} \cup Edges[status[o]]
  BY <1>1, TargetFacts
<1>3. /\ Set(o, final) /\ stopped' = (stopped \/ over \/ target = RECON)
      /\ applied' = applied \cup {id} /\ id \notin applied /\ UNCHANGED approved
  BY DEF ApplyEvent
<1> HIDE DEF target
<1>4. /\ final \in Statuses /\ final \in {status[o], RECON} \cup Edges[status[o]]
      /\ over \/ target = RECON => final = RECON
      /\ final = RECON => over \/ target = RECON \/ status[o] = RECON
  BY <1>1, <1>2 DEF Statuses, Sent, RECON
<1> HIDE DEF final, over
<1>5. /\ status' = [status EXCEPT ![o] = final] /\ Phase[o] = PhaseOf(status[o]) /\ Drops
  BY <1>3, <1>4, WriteKeepsPreviews DEF BookInv, Phase
<1>6. Phase' = [Phase EXCEPT ![o] = PhaseOf(final)]
  BY <1>5, PhaseWrite DEF BookInv
<1>7. PhaseOf(final) \in Promise!Onward(Phase[o])
  BY <1>1, <1>4, <1>5, OnwardFacts
<1>8. ASSUME NEW s \in Statuses PROVE PhaseOf(s) = "unclear" <=> s = RECON
  BY PhaseFacts DEF Statuses, Waiting, Queue, Sent, RECON
<1>9. IF PhaseOf(final) = "unclear"
      THEN stopped' \in {stopped, TRUE} /\ (Phase[o] # "unclear" => stopped')
      ELSE UNCHANGED stopped
  BY <1>1, <1>3, <1>4, <1>5, <1>8
<1>10. applied \subseteq applied' /\ applied' # applied
  BY <1>3
<1>11. Promise!Report(o)
  BY <1>3, <1>6, <1>7, <1>9, <1>10 DEF Promise!Report
<1> QED
  BY <1>5, <1>11 DEF Kept, Promise!Next, Promise!Moves, Drops

LEMMA CommandsKept ==
  ASSUME BookInv,
         \/ \E old \in SUBSET LeasedCommands : LeaseCommands(old)
         \/ \E o \in Orders, c \in Commands, success \in BOOLEAN : CompleteCommand(o, c, success)
  PROVE  Kept
<1>1. UNCHANGED <<approved, stopped, applied>>
  BY DEF LeaseCommands, CompleteCommand
<1>2. CASE UNCHANGED <<status, passed>>
  BY <1>1, <1>2 DEF Kept, Promise!vars, Phase
<1>3. ASSUME NEW o \in Orders, status[o] = "CANCEL_PENDING", Set(o, RECON) PROVE Kept
  <2>1. RECON \in Statuses /\ Phase[o] = "sent"
    BY <1>3, PhaseFacts DEF Phase, Statuses, Sent, RECON
  <2>2. Phase' = [Phase EXCEPT ![o] = "unclear"] /\ Drops
    BY <1>3, <2>1, WriteKeepsPreviews, PhaseWrite, PhaseFacts DEF BookInv
  <2>3. Promise!Unconfirmed(o)
    BY <1>1, <2>1, <2>2 DEF Promise!Unconfirmed, Promise!Move
  <2> QED
    BY <2>2, <2>3 DEF Kept, Promise!Next, Promise!Moves, Drops
<1> QED
  BY <1>2, <1>3 DEF LeaseCommands, CompleteCommand

LEMMA QuietKept == ASSUME BookInv, QuietStep PROVE Kept
<1>1. Phase' = Phase /\ UNCHANGED <<approved, passed, applied>>
  BY DEF QuietStep, Stop, ResumeRead, ResumeCommit, LeaseCheck, ReleaseLeases, Preview,
     OrderExpires, LeaseExpires, Phase
<1>2. stopped \in BOOLEAN /\ stopped' \in BOOLEAN
  BY DEF QuietStep, Stop, ResumeRead, ResumeCommit, LeaseCheck, ReleaseLeases, Preview,
     OrderExpires, LeaseExpires, BookInv, ServerTypeOK
<1>3. UNCHANGED stopped \/ Promise!Switch
  BY <1>1, <1>2 DEF Promise!Switch
<1> QED
  BY <1>1, <1>3 DEF Kept, Promise!Next, Promise!Moves, Promise!vars

LEMMA CheckKept == ASSUME BookInv, CheckStep PROVE Kept
<1>1. PICK o \in Orders, request \in {"create", "approve", "submit"} : FindsNoStop(o, request)
  BY CheckFinds
<1>2. Promise!Pass(o, request)
  BY <1>1 DEF FindsNoStop, Promise!Pass, Phase
<1> QED
  BY <1>2 DEF Kept, Promise!Next

\* Seen from outside, the book itself takes an order forward only as an approved
\* one, in a request that found trading on; a report takes no order backwards;
\* and an order becomes unclear only with trading stopped or by a cancellation
\* that failed.
THEOREM BookKeepsPromise == ServerSpec => KeepsOrderPromise
<1>1. ServerInit => Promise!Init
  BY PhaseFacts DEF ServerInit, Promise!Init, Phase
<1>2. ASSUME BookInv, ServerNext PROVE Kept
  <2>1. ASSUME NEW o \in Orders, NEW id \in EventIds, NEW reported \in Reportable,
               NEW trades \in {{}} \cup {{t} : t \in Trades}, ApplyEvent(o, id, reported, trades)
        PROVE  Kept
    <3>1. trades \in SUBSET Trades
      OBVIOUS
    <3> QED
      BY <1>2, <2>1, <3>1, EventKept
  <2>2. ASSUME NEW o \in Orders, NEW action \in {"approve", "reject", "cancel"},
               Commit(o, action)
        PROVE  Kept
    BY <1>2, <2>2, MutateKept DEF Commit
  <2>3. CASE QuietStep
    BY <1>2, <2>3, QuietKept
  <2>4. CASE CheckStep
    BY <1>2, <2>4, CheckKept
  <2> QED
    BY <1>2, <2>1, <2>2, <2>3, <2>4, CreateKept, ExpireKept, LeaseKept, AcknowledgeKept,
       CommandsKept
    DEF ServerNext, ServerSteps, AnyAgent, QuietStep, CheckStep
<1>3. UNCHANGED server => UNCHANGED Promise!vars
  BY DEF server, Promise!vars, Phase
<1>4. BookInv /\ [ServerNext]_server => [Promise!Next]_(Promise!vars)
  BY <1>2, <1>3 DEF Kept
<1> QED
  BY <1>1, <1>4, BookInvariant, PTL DEF ServerSpec, KeepsOrderPromise, Promise!Spec
=============================================================================
