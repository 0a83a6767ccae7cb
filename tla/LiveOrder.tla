----------------------------- MODULE LiveOrder -----------------------------
(***************************************************************************)
(* Live orders of one trading account, as DjangoBrokerExecutionRepository  *)
(* keeps them: creation, human preview and commit, leases to the QMT agent,*)
(* the SUBMITTING acknowledgement, agent events, cancel commands, the      *)
(* trading stop and the maintenance task.  A transaction that writes one   *)
(* row holds its lock; it reads the kill switches without one, so          *)
(* creation, approval and acknowledgement take two actions: the read of    *)
(* the switches and the write.  (A creation also locks the account's       *)
(* binding, which holds off a human's stop but not an automatic one.)      *)
(*                                                                         *)
(* The approval digest covers fields no code changes once the row exists   *)
(* (the Admin is read-only): it fits whenever a human approved the order.  *)
(***************************************************************************)
EXTENDS Integers, FiniteSets

CONSTANTS
  Orders,              \* client order ids
  EventIds,            \* event_id: ids of agent events, never used twice
  Trades,              \* broker trade ids; a trade fills one unit
  Quantity,            \* units an order asks for
  MaxLeases,           \* bound: lease tokens issued per order
  MaxCommands,         \* bound: cancel commands per order
  EvidenceIntegrated   \* broker_order_evidence_integrated()

ASSUME QuantityAssumption == Quantity \in Nat \ {0}
ASSUME BoundsAssumption == MaxLeases \in Nat \ {0} /\ MaxCommands \in Nat \ {0}
ASSUME TradesAssumption == IsFiniteSet(Trades)
ASSUME GateAssumption == EvidenceIntegrated \in BOOLEAN

VARIABLES
  status,     \* status of the row, "absent" before it exists
  seen,       \* status in a human's preview of the current version, or "none"
  expired,    \* expires_at has passed
  token,      \* number of the last lease token issued
  hold,       \* the lease row of that token
  approved,   \* approval_digest fits the order
  passed,     \* the transaction on the row that found no kill switch active
  stopped,    \* kill_switch_active of the account
  stopRead,   \* a lease request has read the kill switches and found none
  resumeRead, \* a resume request has found no blocker
  fills,      \* broker trades attached to the order
  command,    \* the cancel commands of the order
  applied     \* event ids stored

server == <<status, seen, expired, token, hold, approved, passed, stopped, stopRead,
            resumeRead, fills, command, applied>>

RECON    == "RECONCILIATION_REQUIRED"
Final    == {"RISK_REJECTED", "REJECTED", "EXPIRED", "BROKER_REJECTED", "FAILED",
             "FILLED", "CANCELED"}
Waiting  == {"WAITING_APPROVAL"}
Queue    == {"READY", "LEASED"}
Sent     == {"SUBMITTING", "SUBMITTED", "PARTIALLY_FILLED", "CANCEL_PENDING", RECON}
Statuses == {"absent"} \cup Waiting \cup Queue \cup Sent \cup Final

\* _TRANSITIONS, the orders' graph.
Edges == [s \in Statuses |->
  CASE s = "WAITING_APPROVAL" -> {"REJECTED", "CANCELED", "READY", "EXPIRED", RECON}
    [] s = "READY"            -> {"CANCELED", "LEASED", "EXPIRED", RECON}
    [] s = "LEASED"           -> {"CANCELED", "READY", "SUBMITTING", "EXPIRED", RECON}
    [] s = "SUBMITTING"       -> {"BROKER_REJECTED", "FAILED", RECON, "SUBMITTED"}
    [] s = "SUBMITTED"        -> {"BROKER_REJECTED", "PARTIALLY_FILLED", "FILLED",
                                  "CANCEL_PENDING", "CANCELED", RECON}
    [] s = "PARTIALLY_FILLED" -> {"FILLED", "CANCEL_PENDING", "CANCELED", RECON}
    [] s = "CANCEL_PENDING"   -> {"CANCELED", "PARTIALLY_FILLED", "FILLED", RECON}
    [] s = RECON              -> {"SUBMITTED", "PARTIALLY_FILLED", "FILLED", "CANCELED",
                                  "BROKER_REJECTED"}
    [] OTHER                  -> {}]

Holds    == {"none", "open", "overdue", "released"}
CmdState == {"none", "pending", "leased", "completed", "failed"}
Commands == 1..MaxCommands
Requests == {"none", "create", "approve", "submit"}

ServerTypeOK ==
  /\ status \in [Orders -> Statuses]
  /\ seen \in [Orders -> Statuses \cup {"none"}]
  /\ expired \in [Orders -> BOOLEAN]
  /\ token \in [Orders -> 0..MaxLeases]
  /\ hold \in [Orders -> Holds]
  /\ approved \in [Orders -> BOOLEAN]
  /\ passed \in [Orders -> Requests]
  /\ stopped \in BOOLEAN /\ stopRead \in BOOLEAN /\ resumeRead \in BOOLEAN
  /\ fills \in [Orders -> SUBSET Trades]
  /\ command \in [Orders -> [Commands -> CmdState]]
  /\ applied \subseteq EventIds

ServerInit ==
  /\ status = [o \in Orders |-> "absent"]
  /\ seen = [o \in Orders |-> "none"]
  /\ expired = [o \in Orders |-> FALSE]
  /\ token = [o \in Orders |-> 0]
  /\ hold = [o \in Orders |-> "none"]
  /\ approved = [o \in Orders |-> FALSE]
  /\ passed = [o \in Orders |-> "none"]
  /\ stopped = FALSE /\ stopRead = FALSE /\ resumeRead = FALSE
  /\ fills = [o \in Orders |-> {}]
  /\ command = [o \in Orders |-> [c \in Commands |-> "none"]]
  /\ applied = {}

----------------------------------------------------------------------------
\* Every write of a status bumps the version, which outdates the previews.  It
\* needs the row's lock: a transaction that had it before is over by then.
SetStatuses(new, bumped) ==
  /\ status' = new
  /\ seen' = [o \in Orders |-> IF o \in bumped THEN "none" ELSE seen[o]]
  /\ passed' = [o \in Orders |-> IF o \in bumped THEN "none" ELSE passed[o]]

Set(o, s) == SetStatuses([status EXCEPT ![o] = s], {o})

Overfilled(o) == Cardinality(fills[o]) > Quantity

\* Mutant: the switches are not read.
FindsNoStop_Unread(o, request) ==
  /\ EvidenceIntegrated
  /\ passed' = [passed EXCEPT ![o] = request]
  /\ UNCHANGED <<status, seen, expired, token, hold, approved, stopped, stopRead, resumeRead,
                 fills, command, applied>>

\* A transaction reads the kill switches, without a lock, and finds none active.
FindsNoStop(o, request) ==
  /\ EvidenceIntegrated
  /\ ~stopped
  /\ passed' = [passed EXCEPT ![o] = request]
  /\ UNCHANGED <<status, seen, expired, token, hold, approved, stopped, stopRead, resumeRead,
                 fills, command, applied>>

----------------------------------------------------------------------------
\* Humans.

\* create_live_order.
CheckCreate(o) == status[o] = "absent" /\ FindsNoStop(o, "create")

Create(o, s) ==
  /\ passed[o] = "create"
  /\ status[o] = "absent"
  /\ s \in {"WAITING_APPROVAL", "RISK_REJECTED"}
  /\ Set(o, s)
  /\ UNCHANGED <<expired, token, hold, approved, stopped, stopRead, resumeRead, fills, command,
                 applied>>

\* A human reads the order and with it the version a commit must name.
Preview(o) ==
  /\ status[o] # "absent"
  /\ seen' = [seen EXCEPT ![o] = status[o]]
  /\ UNCHANGED <<status, expired, token, hold, approved, passed, stopped, stopRead, resumeRead,
                 fills, command, applied>>

\* Mutant: a cancel takes effect at once wherever the graph allows it.
ActionTarget_Immediate(o, action) ==
  CASE action = "approve" -> "READY"
    [] action = "reject"  -> "REJECTED"
    [] OTHER -> "CANCELED"

\* target_status_for_order_action.
ActionTarget(o, action) ==
  CASE action = "approve" -> "READY"
    [] action = "reject"  -> "REJECTED"
    [] OTHER -> IF status[o] \in Waiting \cup Queue THEN "CANCELED" ELSE "CANCEL_PENDING"

NewCommand(o, c) == \A d \in Commands : d < c <=> command[o][d] # "none"

\* mutate_order: an approval has read the switches under the row's lock.
CheckApprove(o) == "READY" \in Edges[status[o]] /\ FindsNoStop(o, "approve")

Mutate(o, action) ==
  LET target == ActionTarget(o, action) IN
  /\ target \in Edges[status[o]]
  /\ action = "approve" => passed[o] = "approve"
  /\ Set(o, target)
  /\ approved' = [approved EXCEPT ![o] = @ \/ action = "approve"]
  /\ IF target = "CANCEL_PENDING"
     THEN \E c \in Commands :
            NewCommand(o, c) /\ command' = [command EXCEPT ![o][c] = "pending"]
     ELSE UNCHANGED command
  /\ UNCHANGED <<expired, token, hold, stopped, stopRead, resumeRead, fills, applied>>

\* The version the commit names is the current one.
Commit(o, action) == seen[o] # "none" /\ Mutate(o, action)

\* The stop: a human, or a P0 difference found by generate_reconciliation_runs.
Stop ==
  /\ stopped' = TRUE
  /\ UNCHANGED <<status, seen, expired, token, hold, approved, passed, stopRead, resumeRead,
                 fills, command, applied>>

Exceptions == {"SUBMITTING", RECON, "CANCEL_PENDING"}
NoBlocker == \A o \in Orders : status[o] \notin Exceptions

\* A resume reads the blockers, then asks for the password and clears the stop.
ResumeRead ==
  /\ stopped
  /\ NoBlocker
  /\ resumeRead' = TRUE
  /\ UNCHANGED <<status, seen, expired, token, hold, approved, passed, stopped, stopRead, fills,
                 command, applied>>

ResumeCommit ==
  /\ resumeRead
  /\ resumeRead' = FALSE
  /\ stopped' = FALSE
  /\ UNCHANGED <<status, seen, expired, token, hold, approved, passed, stopRead, fills, command,
                 applied>>

----------------------------------------------------------------------------
\* The clock and run_maintenance.  A deadline that passes when it can make no
\* difference counts as one that has not passed: when the order is sent or over,
\* the lease not the one it is LEASED by, or an acknowledgement has read the clock.

Ticks(o) == status[o] \in Waiting \cup Queue /\ passed[o] # "submit"

OrderExpires(o) ==
  /\ Ticks(o)
  /\ ~expired[o]
  /\ expired' = [expired EXCEPT ![o] = TRUE]
  /\ UNCHANGED <<status, seen, token, hold, approved, passed, stopped, stopRead, resumeRead,
                 fills, command, applied>>

LeaseExpires(o) ==
  /\ Ticks(o) /\ status[o] = "LEASED"
  /\ hold[o] = "open"
  /\ hold' = [hold EXCEPT ![o] = "overdue"]
  /\ UNCHANGED <<status, seen, expired, token, approved, passed, stopped, stopRead, resumeRead,
                 fills, command, applied>>

Overdue == {o \in Orders : expired[o] /\ status[o] \in Waiting \cup Queue}
Expire  == [o \in Orders |-> IF o \in Overdue THEN "EXPIRED" ELSE status[o]]

\* Mutant: the bulk update leaves the versions alone.
ExpireOrders_NoBump ==
  /\ SetStatuses(Expire, {})
  /\ UNCHANGED <<expired, token, hold, approved, stopped, stopRead, resumeRead, fills, command,
                 applied>>

\* run_maintenance is two updates, each a transaction: it expires orders, ...
ExpireOrders ==
  /\ SetStatuses(Expire, Overdue)
  /\ UNCHANGED <<expired, token, hold, approved, stopped, stopRead, resumeRead, fills, command,
                 applied>>

Released == [o \in Orders |-> IF hold[o] = "overdue" THEN "released" ELSE hold[o]]

\* ... then it releases overdue leases.
ReleaseLeases ==
  /\ hold' = Released
  /\ UNCHANGED <<status, seen, expired, token, approved, passed, stopped, stopRead, resumeRead,
                 fills, command, applied>>

----------------------------------------------------------------------------
\* The agent's requests.

\* lease_agent_orders reads the kill switches before its transaction.
LeaseCheck ==
  /\ EvidenceIntegrated
  /\ ~stopped
  /\ ~stopRead
  /\ stopRead' = TRUE
  /\ UNCHANGED <<status, seen, expired, token, hold, approved, passed, stopped, resumeRead,
                 fills, command, applied>>

\* Orders the reclaim of stale leases leaves or puts in READY.
Reclaimed == {o \in Orders : status[o] = "LEASED" /\ hold[o] = "overdue"}
Leasable  == {o \in Orders : status[o] = "READY"} \cup Reclaimed

\* The transaction: stale leases are reclaimed, READY orders expired or leased.
LeaseOrders ==
  LET granted == {o \in Leasable : ~expired[o]} IN
  /\ stopRead
  /\ stopRead' = FALSE
  /\ \A o \in granted : token[o] < MaxLeases
  /\ SetStatuses([o \in Orders |-> IF o \in granted THEN "LEASED"
                                   ELSE IF o \in Leasable THEN "EXPIRED"
                                   ELSE status[o]], Leasable)
  /\ hold' = [o \in Orders |-> IF o \in granted THEN "open" ELSE Released[o]]
  /\ token' = [o \in Orders |-> IF o \in granted THEN token[o] + 1 ELSE token[o]]
  /\ UNCHANGED <<expired, approved, stopped, resumeRead, fills, command, applied>>

\* acknowledge_submitting: the lease, the switches and the expiry are checked
\* under the row's lock, which holds off none of them; the limits it also
\* checks may refuse at any time.
CheckSubmit(o, t) ==
  /\ token[o] = t /\ hold[o] = "open"
  /\ ~expired[o]
  /\ FindsNoStop(o, "submit")

\* An order without a human's approval goes back to be approved, from whatever
\* status it has by now.
Acknowledge(o) ==
  /\ passed[o] = "submit"
  /\ status[o] # "absent"
  /\ IF approved[o]
     THEN "SUBMITTING" \in Edges[status[o]] /\ Set(o, "SUBMITTING")
     ELSE Set(o, "WAITING_APPROVAL")
  /\ UNCHANGED <<expired, token, hold, approved, stopped, stopRead, resumeRead, fills, command,
                 applied>>

\* Mutant: an overfilled order follows the broker's next status.
EventTarget_Unpinned(o, reported) ==
  CASE reported = "" -> ""
    [] reported # "" /\ (reported \in Edges[status[o]] \/ reported = status[o]) -> reported
    [] OTHER -> IF RECON \in Edges[status[o]] THEN RECON ELSE status[o]

\* Mutant: the broker is believed without asking the graph.
EventTarget_Trusting(o, reported) == reported

\* The status an event leads to: an edge that is not in the graph leads to
\* reconciliation, and where that is no edge either, nowhere.
EventTarget(o, reported) ==
  LET target == IF Overfilled(o) THEN RECON ELSE reported IN
  CASE reported = "" -> ""
    [] reported # "" /\ (target \in Edges[status[o]] \/ target = status[o]) -> target
    [] OTHER -> IF RECON \in Edges[status[o]] THEN RECON ELSE status[o]

\* report_agent_events, one event.  trades is empty or the one fill it carries.
ApplyEvent(o, id, reported, trades) ==
  LET target == EventTarget(o, reported)
      over   == trades # {} /\ Cardinality(fills[o] \cup trades) > Quantity
      final  == IF over THEN RECON ELSE IF target = "" THEN status[o] ELSE target
  IN
  /\ status[o] # "absent"
  /\ id \notin applied
  /\ \A p \in Orders \ {o} : fills[p] \cap trades = {}
  /\ applied' = applied \cup {id}
  /\ fills' = [fills EXCEPT ![o] = @ \cup trades]
  /\ Set(o, final)
  /\ stopped' = (stopped \/ over \/ target = RECON)
  /\ UNCHANGED <<expired, token, hold, approved, stopRead, resumeRead, command>>

\* lease_agent_commands: old are the commands leased more than two minutes ago.
LeaseCommands(old) ==
  /\ command' = [o \in Orders |-> [c \in Commands |->
                   IF command[o][c] = "pending" \/ <<o, c>> \in old
                   THEN "leased" ELSE command[o][c]]]
  /\ UNCHANGED <<status, seen, expired, token, hold, approved, passed, stopped, stopRead,
                 resumeRead, fills, applied>>

\* complete_agent_command: a failed cancel makes the outcome unknown.
CompleteCommand(o, c, success) ==
  /\ command[o][c] = "leased"
  /\ command' = [command EXCEPT ![o][c] = IF success THEN "completed" ELSE "failed"]
  /\ IF ~success /\ status[o] = "CANCEL_PENDING"
     THEN Set(o, RECON)
     ELSE UNCHANGED <<status, seen, passed>>
  /\ UNCHANGED <<expired, token, hold, approved, stopped, stopRead, resumeRead, fills, applied>>

----------------------------------------------------------------------------
\* The endpoint takes any string for a status: one the enumeration does not know
\* counts as RECON, the others are tried on the graph.
Reportable == (Statuses \ {"absent"}) \cup {""}

CommandsIn(state) == {job \in Orders \X Commands : command[job[1]][job[2]] = state}
LeasedCommands == CommandsIn("leased")

\* What happens without the agent.
ServerSteps ==
  \/ Stop \/ ResumeRead \/ ResumeCommit \/ ExpireOrders \/ ReleaseLeases
  \/ \E o \in Orders :
       \/ CheckCreate(o) \/ \E s \in Statuses : Create(o, s)
       \/ seen[o] # "none" /\ CheckApprove(o)
       \/ Preview(o) \/ OrderExpires(o) \/ LeaseExpires(o)
       \/ \E action \in {"approve", "reject", "cancel"} : Commit(o, action)

\* Any agent: whatever it asks for and reports, in whatever order.
AnyAgent ==
  \/ LeaseCheck \/ LeaseOrders
  \/ \E old \in SUBSET LeasedCommands : LeaseCommands(old)
  \/ \E o \in Orders :
       \/ \E t \in 1..MaxLeases : CheckSubmit(o, t)
       \/ Acknowledge(o)
       \/ \E id \in EventIds, reported \in Reportable,
             trades \in {{}} \cup {{t} : t \in Trades} : ApplyEvent(o, id, reported, trades)
       \/ \E c \in Commands, success \in BOOLEAN : CompleteCommand(o, c, success)

ServerNext == ServerSteps \/ AnyAgent

ServerSpec == ServerInit /\ [][ServerNext]_server

----------------------------------------------------------------------------
\* A commit acts on the status the human saw in the preview, whatever the
\* maintenance task, the agent or another human did to the order meanwhile.
PreviewsAreCurrent == \A o \in Orders : seen[o] \in {"none", status[o]}

\* The server sees that no human approved an order it was about to submit.
Returned(o) == ~approved[o] /\ status'[o] = "WAITING_APPROVAL"

\* An order goes to reconciliation when its fills exceed the approved quantity,
\* and whatever is reported afterwards it stays there: no later event hides the
\* overfill.  Only an order nobody approved goes back to be approved.
OverfillPinned ==
  [][\A o \in Orders :
       Overfilled(o)' /\ (~Overfilled(o) \/ status[o] = RECON)
         => status'[o] = RECON \/ Returned(o)]_server

\* A final status is final for late, repeated and contradictory events: only an
\* overfill reopens the order, or that nobody approved it.
FinalOrdersStay ==
  [][\A o \in Orders :
       status[o] \in Final => \/ status'[o] = status[o]
                             \/ (status'[o] = RECON /\ Overfilled(o)')
                             \/ Returned(o)]_server

\* What the order book promises (module OrderPromise).
PhaseOf(s) ==
  CASE s = "absent"  -> "none"
    [] s \in Waiting -> "waiting"
    [] s \in Queue   -> "queued"
    [] s = RECON     -> "unclear"
    [] s \in Sent \ {RECON} -> "sent"
    [] OTHER         -> "done"

Phase == [o \in Orders |-> PhaseOf(status[o])]

Promise == INSTANCE OrderPromise WITH phase <- Phase, reports <- applied

\* Without a report of the agent an order goes forward only as an approved one
\* whose request found trading on, and a sent order goes nowhere; a report takes
\* no order backwards, and doubt it causes stops trading.
KeepsOrderPromise == Promise!Spec

=============================================================================
