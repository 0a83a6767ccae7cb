---------------------------- MODULE OrderPromise ----------------------------
(***************************************************************************)
(* What the live-order book promises of every order of an account.  The    *)
(* book itself takes an order from waiting to queued and sent only as a    *)
(* human approved it and in a request that found trading on: a request     *)
(* that begins after a stop does neither.  What the agent reports it takes *)
(* for a fact about the order, which goes onward and never back; doubt     *)
(* about what the broker did makes the order unclear and stops trading.    *)
(***************************************************************************)
CONSTANT Orders

VARIABLES
  phase,     \* where the order is
  approved,  \* a human approved it
  passed,    \* the request on it that found trading on
  stopped,   \* trading is stopped
  reports    \* what the agent has reported

vars == <<phase, approved, passed, stopped, reports>>

Init ==
  /\ phase = [o \in Orders |-> "none"]
  /\ approved = [o \in Orders |-> FALSE]
  /\ passed = [o \in Orders |-> "none"]
  /\ stopped = FALSE
  /\ reports = {}

\* A request finds trading on.
Pass(o, request) ==
  /\ ~stopped
  /\ passed' = [passed EXCEPT ![o] = request]
  /\ UNCHANGED <<phase, approved, stopped, reports>>

Move(o, from, to) == phase[o] \in from /\ phase' = [phase EXCEPT ![o] = to]
Spends(o, request) == passed[o] = request /\ passed'[o] = "none"

Create(o) ==
  /\ Spends(o, "create")
  /\ Move(o, {"none"}, "waiting") \/ Move(o, {"none"}, "done")
  /\ UNCHANGED <<approved, stopped, reports>>

Approve(o) ==
  /\ Spends(o, "approve")
  /\ Move(o, {"waiting", "queued"}, "queued")
  /\ approved' = [approved EXCEPT ![o] = TRUE]
  /\ UNCHANGED <<stopped, reports>>

\* What nobody approved is not submitted: it goes back to be approved.
Submit(o) ==
  /\ Spends(o, "submit")
  /\ phase[o] # "none"
  /\ IF approved[o]
     THEN Move(o, {"queued"}, "sent")
     ELSE phase' = [phase EXCEPT ![o] = "waiting"]
  /\ UNCHANGED <<approved, stopped, reports>>

\* Orders are rejected, canceled or expire, several at once, but no sent one.
Finish(S) ==
  /\ \A o \in S : phase[o] \in {"waiting", "queued"}
  /\ phase' = [o \in Orders |-> IF o \in S THEN "done" ELSE phase[o]]
  /\ UNCHANGED <<approved, stopped, reports>>

\* A cancellation failed, and nobody knows what became of the order.
Unconfirmed(o) == Move(o, {"sent"}, "unclear") /\ UNCHANGED <<approved, stopped, reports>>

Onward(p) ==
  CASE p = "waiting" -> {"waiting", "queued", "done", "unclear"}
    [] p = "queued"  -> {"queued", "sent", "done", "unclear"}
    [] p = "sent"    -> {"sent", "done", "unclear"}
    [] p = "unclear" -> {"unclear", "sent", "done"}
    [] p = "done"    -> {"done", "unclear"}
    [] OTHER         -> {}

\* The agent reports something new of an order.
Report(o) ==
  /\ reports \subseteq reports' /\ reports' # reports
  /\ \E p \in Onward(phase[o]) :
       /\ phase' = [phase EXCEPT ![o] = p]
       /\ IF p = "unclear"
          THEN stopped' \in {stopped, TRUE} /\ (phase[o] # "unclear" => stopped')
          ELSE UNCHANGED stopped
  /\ UNCHANGED approved

\* Trading is stopped, by a human or by a reconciliation, and resumed.
Switch == stopped' = ~stopped /\ UNCHANGED <<phase, approved, reports>>

Rest == UNCHANGED <<phase, approved, stopped, reports>>

\* Any step may end requests that had passed.
Moves ==
  /\ \A o \in Orders : passed'[o] \in {passed[o], "none"}
  /\ \/ \E o \in Orders : Create(o) \/ Approve(o) \/ Submit(o) \/ Unconfirmed(o) \/ Report(o)
     \/ \E S \in SUBSET Orders : Finish(S)
     \/ Switch \/ Rest

Next == Moves \/ \E o \in Orders, request \in {"create", "approve", "submit"} : Pass(o, request)

Spec == Init /\ [][Next]_vars
=============================================================================
