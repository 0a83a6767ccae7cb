--------------------------- MODULE AgentProposal ----------------------------
(***************************************************************************)
(* One proposal of an Agent and the web requests that submit, approve,     *)
(* reject and execute it.  Every use case reads the proposal, validates    *)
(* the transition against what it read, and writes the new status with an  *)
(* update of its own, so requests may overlap between any two of these.    *)
(***************************************************************************)
EXTENDS Naturals

CONSTANTS
  Requests,   \* web requests, used again and again
  MaxCalls,   \* bound: executions
  MaxLost     \* bound: requests that end between an execution and its status

ASSUME BoundsAssumption == MaxCalls \in Nat /\ MaxLost \in Nat

VARIABLES
  status,     \* AgentProposalModel.status
  approval,   \* AgentProposalModel.approval_status
  records,    \* outcomes with an execution record
  pc,         \* the status a request means to write, or its place in execute
  \* what no code stores
  calls,      \* executions so far
  approvals,  \* approvals written so far
  lost,       \* requests that ended after an execution and before its status
  overlapped  \* two requests were under way at once

history == <<calls, approvals, lost, overlapped>>
vars == <<status, approval, records, pc, history>>

Statuses == {"draft", "generated", "submitted", "approved", "rejected",
             "executed", "execution_failed", "expired"}

Transitions == [s \in Statuses |->
  CASE s = "draft"            -> {"generated", "expired"}
    [] s = "generated"        -> {"submitted", "expired"}
    [] s = "submitted"        -> {"approved", "rejected", "expired"}
    [] s = "approved"         -> {"executed", "execution_failed", "expired"}
    [] s = "rejected"         -> {"draft"}
    [] s = "execution_failed" -> {"approved"}
    [] OTHER                  -> {}]

\* The status each use case asks for.
Targets == {"submitted", "approved", "rejected", "executed"}
Places == Targets \cup {"idle", "succeeded", "raised", "finish", "fail"}

\* The row that CreateProposalUseCase makes.
Init ==
  /\ status = "generated" /\ approval \in {"pending", "not_required"}
  /\ records = {}
  /\ pc = [r \in Requests |-> "idle"]
  /\ calls = 0 /\ approvals = 0 /\ lost = 0 /\ overlapped = FALSE

Alone(r) == \A q \in Requests \ {r} : pc[q] = "idle"
Goto(r, place) == pc' = [pc EXCEPT ![r] = place]

----------------------------------------------------------------------------
\* _validate_proposal_transition.  Mutant: nothing is validated.
Valid_Always(target) == TRUE
Valid(target) == target \in Transitions[status]

\* get_proposal and the validation; a refused request leaves nothing behind.
Read(r) ==
  /\ pc[r] = "idle"
  /\ \E target \in Targets : Valid(target) /\ Goto(r, target)
  /\ overlapped' = (overlapped \/ ~Alone(r))
  /\ UNCHANGED <<status, approval, records, calls, approvals, lost>>

\* A guardrail blocks; the decision is recorded and the request refused.
Blocked(r) ==
  /\ pc[r] \in {"submitted", "executed"}
  /\ Goto(r, "idle")
  /\ UNCHANGED <<status, approval, records, history>>

Submit(r) ==
  /\ pc[r] = "submitted"
  /\ status' = "submitted"
  /\ Goto(r, "idle")
  /\ UNCHANGED <<approval, records, history>>

\* Mutant: the decision is not written beside the status.
Decision_Pending(target) == "pending"
Decision(target) == target

\* Approve and reject write the status and the decision in one update.
Decide(r) ==
  /\ pc[r] \in {"approved", "rejected"}
  /\ status' = pc[r] /\ approval' = Decision(pc[r])
  /\ approvals' = IF pc[r] = "approved" THEN approvals + 1 ELSE approvals
  /\ Goto(r, "idle")
  /\ UNCHANGED <<records, calls, lost, overlapped>>

\* The guardrails pass and the capability is called; it may raise with or
\* without effect.  Types without a capability only succeed.
Call(r) ==
  /\ pc[r] = "executed"
  /\ calls < MaxCalls
  /\ calls' = calls + 1
  /\ \E outcome \in {"succeeded", "raised"} : Goto(r, outcome)
  /\ UNCHANGED <<status, approval, records, approvals, lost, overlapped>>

\* Mutant: only a success is recorded.
Recorded_SuccessOnly(outcome) == records \cup ({outcome} \cap {"succeeded"})
Recorded(outcome) == records \cup {outcome}

\* create_execution_record, before the status.
Record(r) ==
  /\ pc[r] \in {"succeeded", "raised"}
  /\ records' = Recorded(pc[r])
  /\ Goto(r, IF pc[r] = "succeeded" THEN "finish" ELSE "fail")
  /\ UNCHANGED <<status, approval, history>>

\* Mutant: a failure leaves the proposal open for another attempt.
Result_Retryable(place) == IF place = "finish" THEN "executed" ELSE "approved"
Result(place) == IF place = "finish" THEN "executed" ELSE "execution_failed"

Finish(r) ==
  /\ pc[r] \in {"finish", "fail"}
  /\ status' = Result(pc[r])
  /\ Goto(r, "idle")
  /\ UNCHANGED <<approval, records, history>>

\* The process dies, or a call to the database raises.
Die(r) ==
  /\ pc[r] # "idle"
  /\ Goto(r, "idle")
  /\ IF pc[r] \in Targets THEN lost' = lost ELSE lost < MaxLost /\ lost' = lost + 1
  /\ UNCHANGED <<status, approval, records, calls, approvals, overlapped>>

Next ==
  \E r \in Requests :
    \/ Read(r) \/ Blocked(r) \/ Submit(r) \/ Decide(r)
    \/ Call(r) \/ Record(r) \/ Finish(r) \/ Die(r)

Spec == Init /\ [][Next]_vars

----------------------------------------------------------------------------
\* Types.
TypeOK ==
  /\ status \in Statuses
  /\ approval \in {"pending", "not_required", "approved", "rejected"}
  /\ records \subseteq {"succeeded", "raised"}
  /\ pc \in [Requests -> Places]
  /\ calls \in 0..MaxCalls /\ approvals \in Nat /\ lost \in 0..MaxLost
  /\ overlapped \in BOOLEAN

\* However requests overlap or die, nothing is executed before an operator
\* approved; as long as they do not overlap, an approval is good for one
\* execution, and for another only after a request was lost on the way.
CallsAreLicensed ==
  /\ calls > 0 => approvals > 0
  /\ ~overlapped => calls <= approvals + lost

\* What the proposal says of its execution, the execution records confirm:
\* no stale write and no crash shows an outcome that was not recorded.
OutcomesAreRecorded ==
  /\ status = "executed" => "succeeded" \in records
  /\ status = "execution_failed" => "raised" \in records

\* Status and decision are written together: a proposal that shows approved or
\* rejected was so decided last, also after two operators decided at once.  While
\* requests do not overlap the decision also stays in force: an approved proposal
\* is approved or went on to its outcome, a rejected one is rejected.  When they do
\* overlap this is lost: a stale submission reopens what an operator has decided.
DecisionShown ==
  /\ approval = "approved" => status \in {"approved", "executed", "execution_failed"}
  /\ approval = "rejected" => status = "rejected"

DecisionsAgree ==
  /\ status = "approved" => approval = "approved"
  /\ status = "rejected" => approval = "rejected"
  /\ ~overlapped => DecisionShown

\* "transitions enforced server-side" (M3-proposal-approval-execution.md:65).
Enforced == status' = status \/ status' \in Transitions[status]
TransitionsEnforced == [][Enforced]_vars

\* They are, as long as no two requests on the proposal overlap.
EnforcedAlone == [][~overlapped' => Enforced]_vars
=============================================================================
