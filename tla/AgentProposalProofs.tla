------------------------ MODULE AgentProposalProofs -------------------------
(* Theorems about AgentProposal, for any number of requests and all bounds. *)
EXTENDS AgentProposal, TLAPS

\* The transition table and the places, as facts the provers can use.
LEMMA Table ==
  /\ \A s \in Statuses : Transitions[s] \subseteq Statuses
  /\ \A s \in Statuses : "approved" \in Transitions[s] => s \in {"submitted", "execution_failed"}
  /\ \A s \in Statuses : "executed" \in Transitions[s] => s = "approved"
  /\ \A s \in Statuses : "rejected" \in Transitions[s] => s = "submitted"
  /\ \A s \in Statuses : "submitted" \in Transitions[s] => s = "generated"
  /\ {"executed", "execution_failed"} \subseteq Transitions["approved"]
BY DEF Statuses, Transitions

LEMMA InitTyped == Init => TypeOK
<1> SUFFICES ASSUME Init PROVE TypeOK
  OBVIOUS
<1>1. calls \in 0..MaxCalls /\ approvals \in Nat /\ lost \in 0..MaxLost
  BY BoundsAssumption DEF Init
<1>2. pc \in [Requests -> Places]
  BY DEF Init, Places
<1>3. status \in Statuses /\ records \subseteq {"succeeded", "raised"}
  BY DEF Init, Statuses
<1>4. approval \in {"pending", "not_required", "approved", "rejected"}
  BY DEF Init
<1>5. overlapped \in BOOLEAN
  BY DEF Init
<1>6. QED
  BY <1>1, <1>2, <1>3, <1>4, <1>5 DEF TypeOK

----------------------------------------------------------------------------
\* The proposal, its records and the requests keep their types, for any number
\* of requests on AgentProposalModel that overlap at will.
THEOREM ProposalTypeCorrect == Spec => []TypeOK
<1>1. Init => TypeOK
  BY InitTyped
<1>2. TypeOK /\ [Next]_vars => TypeOK'
  <2> SUFFICES ASSUME TypeOK, [Next]_vars PROVE TypeOK'
    OBVIOUS
  <2> USE BoundsAssumption DEF TypeOK, Goto, history
  <2>1. CASE UNCHANGED vars
    BY <2>1 DEF vars
  <2>2. ASSUME NEW r \in Requests, Read(r) PROVE TypeOK'
    BY <2>2 DEF Read, Places, Targets, Alone
  <2>3. ASSUME NEW r \in Requests, Blocked(r) PROVE TypeOK'
    BY <2>3 DEF Blocked, Places
  <2>4. ASSUME NEW r \in Requests, Submit(r) PROVE TypeOK'
    BY <2>4 DEF Submit, Places, Statuses
  <2>5. ASSUME NEW r \in Requests, Decide(r) PROVE TypeOK'
    BY <2>5 DEF Decide, Decision, Places, Statuses
  <2>6. ASSUME NEW r \in Requests, Call(r) PROVE TypeOK'
    BY <2>6 DEF Call, Places
  <2>7. ASSUME NEW r \in Requests, Record(r) PROVE TypeOK'
    BY <2>7 DEF Record, Recorded, Places
  <2>8. ASSUME NEW r \in Requests, Finish(r) PROVE TypeOK'
    BY <2>8 DEF Finish, Result, Places, Statuses
  <2>9. ASSUME NEW r \in Requests, Die(r) PROVE TypeOK'
    BY <2>9 DEF Die, Places
  <2>10. QED
    BY <2>1, <2>2, <2>3, <2>4, <2>5, <2>6, <2>7, <2>8, <2>9 DEF Next
<1>3. QED
  BY <1>1, <1>2, PTL DEF Spec

----------------------------------------------------------------------------
\* A request that is about to write an outcome has recorded it.
RecordFirst ==
  /\ OutcomesAreRecorded
  /\ \A r \in Requests :
       /\ pc[r] = "finish" => "succeeded" \in records
       /\ pc[r] = "fail" => "raised" \in records

\* create_execution_record comes before the status in every execution, and no
\* other update writes an outcome.
THEOREM OutcomesBacked == Spec => []OutcomesAreRecorded
<1>1. Init => RecordFirst
  BY DEF Init, RecordFirst, OutcomesAreRecorded
<1>2. TypeOK /\ RecordFirst /\ [Next]_vars => RecordFirst'
  <2> SUFFICES ASSUME TypeOK, RecordFirst, [Next]_vars PROVE RecordFirst'
    OBVIOUS
  <2> USE DEF TypeOK, RecordFirst, OutcomesAreRecorded, Goto, history
  <2>1. CASE UNCHANGED vars
    BY <2>1 DEF vars
  <2>2. ASSUME NEW r \in Requests, Read(r) PROVE RecordFirst'
    BY <2>2 DEF Read, Targets
  <2>3. ASSUME NEW r \in Requests, Blocked(r) \/ Submit(r) \/ Die(r) PROVE RecordFirst'
    BY <2>3 DEF Blocked, Submit, Die
  <2>4. ASSUME NEW r \in Requests, Decide(r) PROVE RecordFirst'
    BY <2>4 DEF Decide
  <2>5. ASSUME NEW r \in Requests, Call(r) PROVE RecordFirst'
    BY <2>5 DEF Call
  <2>6. ASSUME NEW r \in Requests, Record(r) PROVE RecordFirst'
    BY <2>6 DEF Record, Recorded
  <2>7. ASSUME NEW r \in Requests, Finish(r) PROVE RecordFirst'
    BY <2>7 DEF Finish, Result
  <2>8. QED
    BY <2>1, <2>2, <2>3, <2>4, <2>5, <2>6, <2>7 DEF Next
<1>3. RecordFirst => OutcomesAreRecorded
  BY DEF RecordFirst
<1>4. QED
  BY <1>1, <1>2, <1>3, ProposalTypeCorrect, PTL DEF Spec


----------------------------------------------------------------------------
\* Why an execution was approved: a status and a request that come after an
\* approval know that there was one.
Licence ==
  /\ status \in {"approved", "executed", "execution_failed"} => approvals > 0
  /\ \A r \in Requests :
       pc[r] \in {"executed", "succeeded", "raised", "finish", "fail"} => approvals > 0
  /\ calls > 0 => approvals > 0

Executing(r) == pc[r] \in {"succeeded", "raised", "finish", "fail"}

\* What holds of a proposal whose requests never overlapped: one request at a
\* time, what it read is still true, and an approval that was not used yet
\* leaves one execution.
Sequential ==
  /\ \A q, r \in Requests : pc[q] # "idle" /\ pc[r] # "idle" => q = r
  /\ \A r \in Requests : pc[r] \in Targets => pc[r] \in Transitions[status]
  /\ \A r \in Requests : Executing(r) => status = "approved"
  /\ calls <= approvals + lost
  /\ status = "approved" /\ (\A r \in Requests : ~Executing(r)) => calls < approvals + lost
  /\ DecisionShown

LicenceInv == TypeOK /\ Licence /\ (~overlapped => Sequential)

LEMMA LicenceStep == LicenceInv /\ [Next]_vars => Licence'
<1> SUFFICES ASSUME LicenceInv, [Next]_vars PROVE Licence'
  OBVIOUS
<1> USE DEF LicenceInv, TypeOK, Licence, Goto, history
<1>1. CASE UNCHANGED vars
  BY <1>1 DEF vars
<1>2. ASSUME NEW r \in Requests, Read(r) PROVE Licence'
  BY <1>2, Table DEF Read, Valid, Targets
<1>3. ASSUME NEW r \in Requests, Blocked(r) \/ Submit(r) \/ Die(r) PROVE Licence'
  BY <1>3 DEF Blocked, Submit, Die
<1>4. ASSUME NEW r \in Requests, Decide(r) PROVE Licence'
  BY <1>4 DEF Decide
<1>5. ASSUME NEW r \in Requests, Call(r) PROVE Licence'
  BY <1>5 DEF Call
<1>6. ASSUME NEW r \in Requests, Record(r) PROVE Licence'
  BY <1>6 DEF Record
<1>7. ASSUME NEW r \in Requests, Finish(r) PROVE Licence'
  BY <1>7 DEF Finish, Result
<1>8. QED
  BY <1>1, <1>2, <1>3, <1>4, <1>5, <1>6, <1>7 DEF Next

LEMMA SequentialStep == LicenceInv /\ [Next]_vars => (~overlapped' => Sequential')
<1> SUFFICES ASSUME LicenceInv, [Next]_vars, ~overlapped' PROVE Sequential'
  OBVIOUS
<1>0. ~overlapped /\ Sequential
  BY DEF LicenceInv, TypeOK, Next, vars, history, Read, Blocked, Submit, Decide,
         Call, Record, Finish, Die
<1> USE <1>0 DEF LicenceInv, TypeOK, Sequential, Executing, DecisionShown, Goto, history
<1>1. CASE UNCHANGED vars
  BY <1>1 DEF vars
<1>2. ASSUME NEW r \in Requests, Read(r) PROVE Sequential'
  <2>1. Alone(r)
    BY <1>2 DEF Read
  <2>2. QED
    BY <1>2, <2>1 DEF Read, Valid, Alone, Targets
<1>3. ASSUME NEW r \in Requests, Blocked(r) PROVE Sequential'
  BY <1>3 DEF Blocked, Targets
<1>4. ASSUME NEW r \in Requests, Submit(r) PROVE Sequential'
  BY <1>4, Table DEF Submit, Targets
<1>5. ASSUME NEW r \in Requests, Decide(r) PROVE Sequential'
  BY <1>5, Table DEF Decide, Decision, Targets
<1>6. ASSUME NEW r \in Requests, Call(r) PROVE Sequential'
  BY <1>6, Table DEF Call, Targets
<1>7. ASSUME NEW r \in Requests, Record(r) PROVE Sequential'
  BY <1>7 DEF Record, Targets
<1>8. ASSUME NEW r \in Requests, Finish(r) PROVE Sequential'
  BY <1>8 DEF Finish, Result, Targets
<1>9. ASSUME NEW r \in Requests, Die(r) PROVE Sequential'
  BY <1>9 DEF Die, Targets
<1>10. QED
  BY <1>1, <1>2, <1>3, <1>4, <1>5, <1>6, <1>7, <1>8, <1>9 DEF Next

LEMMA LicenceInvariant == Spec => []LicenceInv
<1>1. Init => LicenceInv
  <2> SUFFICES ASSUME Init PROVE Licence /\ Sequential
    BY InitTyped DEF LicenceInv
  <2>1. status = "generated" /\ (\A r \in Requests : pc[r] = "idle")
        /\ calls = 0 /\ approvals = 0 /\ lost = 0 /\ approval \in {"pending", "not_required"}
    BY DEF Init
  <2>2. Licence
    BY <2>1 DEF Licence
  <2>3. Sequential
    BY <2>1 DEF Sequential, Executing, DecisionShown, Targets
  <2>4. QED
    BY <2>2, <2>3
<1>2. TypeOK' /\ LicenceInv /\ [Next]_vars => LicenceInv'
  BY LicenceStep, SequentialStep DEF LicenceInv
<1>3. QED
  BY <1>1, <1>2, ProposalTypeCorrect, PTL DEF Spec

\* Nothing is executed that no operator approved; and while requests on the
\* proposal do not overlap, one approval is good for one execution.
THEOREM CallsLicensed == Spec => []CallsAreLicensed
<1>1. LicenceInv => CallsAreLicensed
  BY DEF LicenceInv, Licence, Sequential, CallsAreLicensed
<1>2. QED
  BY <1>1, LicenceInvariant, PTL

\* Approve and reject write both columns in one update and nothing else writes
\* approval_status, so a status that names a decision is never contradicted by it;
\* and no request that read the status alone writes over a decision.
THEOREM DecisionsAlwaysAgree == Spec => []DecisionsAgree
<1> DEFINE Written == /\ status = "approved" => approval = "approved"
                      /\ status = "rejected" => approval = "rejected"
<1>1. Init => Written
  BY DEF Init
<1>2. Written /\ [Next]_vars => Written'
  BY DEF Next, vars, history, Read, Blocked, Submit, Decide, Decision,
         Call, Record, Finish, Result, Die
<1>3. LicenceInv /\ Written => DecisionsAgree
  BY DEF LicenceInv, Sequential, DecisionsAgree, DecisionShown
<1>4. QED
  BY <1>1, <1>2, <1>3, LicenceInvariant, PTL DEF Spec

\* As long as no two requests overlap, the validation against the status that
\* was read keeps every write inside _PROPOSAL_TRANSITIONS.
THEOREM TransitionsEnforcedAlone == Spec => EnforcedAlone
<1>1. LicenceInv /\ [Next]_vars => (~overlapped' => Enforced)
  <2> SUFFICES ASSUME LicenceInv, [Next]_vars, ~overlapped' PROVE Enforced
    OBVIOUS
  <2>1. ~overlapped /\ Sequential
    BY DEF LicenceInv, TypeOK, Next, vars, history, Read, Blocked, Submit, Decide,
           Call, Record, Finish, Die
  <2>2. ASSUME NEW r \in Requests, Submit(r) \/ Decide(r) PROVE Enforced
    BY <2>1, <2>2 DEF Submit, Decide, Sequential, Enforced, Targets
  <2>3. ASSUME NEW r \in Requests, Finish(r) PROVE Enforced
    BY <2>1, <2>3, Table DEF Finish, Result, Sequential, Executing, Enforced
  <2>4. QED
    BY <2>2, <2>3 DEF Next, vars, Read, Blocked, Call, Record, Die, Enforced
<1>2. QED
  BY <1>1, LicenceInvariant, PTL DEF Spec, EnforcedAlone
=============================================================================
