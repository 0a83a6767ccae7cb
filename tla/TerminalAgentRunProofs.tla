----------------------- MODULE TerminalAgentRunProofs -----------------------
(***************************************************************************)
(* What the queued terminal-agent runtime guarantees for every number of   *)
(* runs, actors, workers, messages and events.                             *)
(***************************************************************************)
EXTENDS TerminalAgentRun, TLAPS, RunLedgerProofs

\* The runtime's own state only: every action of the runtime is one operation
\* of the ledger or leaves the ledger alone.
LEMMA LedgerOperation ==
  ASSUME TypeOK, HoldsClaim, LogSoFar, Next
  PROVE  LedgerNext \/ UNCHANGED ledger
<1> USE DEF ledger, rows
<1>1. ASSUME NEW r \in Runs,
             \/ Submit(r) \/ Count(r) \/ Admit(r) \/ Refuse(r) \/ Replay(r) \/ Cancel(r)
             \/ Republish(r) \/ Age(r) \/ LoseMessage(r)
      PROVE  LedgerNext \/ UNCHANGED ledger
  BY <1>1 DEF Submit, Count, Admit, Refuse, Replay, Cancel, Republish, Age, LoseMessage, LedgerNext
<1>2. ASSUME (\E old \in SUBSET Runs : Reconcile(old)) \/ Reap \/ SetEmergencyStop
      PROVE  LedgerNext \/ UNCHANGED ledger
  BY <1>2 DEF Reconcile, Reap, SetEmergencyStop, LedgerNext
<1>3. ASSUME NEW w \in Workers, Crash(w) \/ \E r \in Runs : Deliver(w, r)
      PROVE  LedgerNext \/ UNCHANGED ledger
  BY <1>3 DEF Crash, LeaveWorker, Deliver
<1>4. ASSUME NEW w \in Workers, WorkerStep(w)
      PROVE  LedgerNext \/ UNCHANGED ledger
  <2>1. CASE Claim(w) \/ Start(w)
    BY <2>1 DEF Claim, Start, HoldsClaim, LedgerNext, TypeOK
  <2>2. CASE \E e \in EventTypes : NextEvent(w, e)
    BY <2>2 DEF NextEvent, HoldsClaim, LedgerNext
  <2>3. CASE AppendEvent(w)
    BY <2>3 DEF AppendEvent, HoldsClaim, LogSoFar, Before, LedgerNext
  <2>4. CASE Yield(w)
    BY <2>4 DEF Yield, TransitionTarget, WorkerTargets, HoldsClaim, LedgerNext
  <2>5. CASE Complete(w) \/ Fail(w)
    BY <2>5 DEF Complete, Fail, WorkerOutcomes, HoldsClaim, LedgerNext
  <2>6. CASE ClaimNothing(w) \/ StartAgent(w) \/ TurnAway(w) \/ Check(w) \/ LeaseLost(w)
             \/ Raise(w) \/ FailLost(w) \/ Ack(w)
    BY <2>6 DEF ClaimNothing, StartAgent, TurnAway, Check, LeaseLost, Raise, FailLost, Ack, LeaveWorker
  <2> QED
    BY <1>4, <2>1, <2>2, <2>3, <2>4, <2>5, <2>6 DEF WorkerStep
<1> QED
  BY <1>1, <1>2, <1>3, <1>4 DEF Next

----------------------------------------------------------------------------
\* Type correctness: a step keeps the types of the runtime's own state.
LEMMA RuntimeTypeStep ==
  ASSUME TypeOK, HoldsClaim, LogSoFar, Next
  PROVE  TypeOK'
<1>1. LedgerTypeOK'
  BY LedgerOperation, LedgerTypeStep DEF TypeOK, ledger, rows, LedgerTypeOK
<1> DEFINE Own == /\ pc \in [Workers -> PCs]
                  /\ job \in [Workers -> Runs \cup {NoRun}]
                  /\ event \in [Workers -> EventTypes \cup {"none"}]
                  /\ broker \in [Runs -> Nat]
                  /\ batch \subseteq Runs
                  /\ emergencyStop \in BOOLEAN
                  /\ agentStarts \in [Runs -> Nat]
<1>2. ASSUME NEW r \in Runs,
             \/ Submit(r) \/ Count(r) \/ Admit(r) \/ Refuse(r) \/ Replay(r) \/ Cancel(r)
             \/ Republish(r) \/ Age(r) \/ LoseMessage(r)
      PROVE  Own'
  BY <1>2 DEF Submit, Count, Admit, Refuse, Replay, Cancel, Republish, Age, LoseMessage, TryPublish, Publish, delivery, TypeOK
<1>3. ASSUME (\E old \in SUBSET Runs : Reconcile(old)) \/ Reap \/ SetEmergencyStop
      PROVE  Own'
  BY <1>3 DEF Reconcile, Reap, SetEmergencyStop, delivery, TypeOK
<1>4. ASSUME NEW w \in Workers, Crash(w) \/ Ack(w)
      PROVE  Own'
  <2>1. job[w] \in Runs
    BY <1>4 DEF Crash, Ack, HoldsClaim
  <2> QED
    BY <1>4, <2>1 DEF Crash, Ack, LeaveWorker, TypeOK, PCs
<1>5. ASSUME NEW w \in Workers, NEW r \in Runs, Deliver(w, r)
      PROVE  Own'
  BY <1>5 DEF Deliver, TypeOK, PCs
<1>6. ASSUME NEW w \in Workers,
             \/ Claim(w) \/ ClaimNothing(w) \/ Start(w) \/ AppendEvent(w) \/ Yield(w)
             \/ Complete(w) \/ Fail(w) \/ FailLost(w)
      PROVE  Own'
  BY <1>6 DEF Claim, ClaimNothing, Start, AppendEvent, Yield, Complete, Fail, FailLost, Goto, TypeOK, PCs, TryBlock
<1>7. ASSUME NEW w \in Workers, StartAgent(w) \/ TurnAway(w)
      PROVE  Own'
  BY <1>7 DEF StartAgent, TurnAway, Goto, HoldsClaim, TypeOK, PCs, TryBlock
<1>8. ASSUME NEW w \in Workers, LeaseLost(w) \/ Raise(w)
      PROVE  Own'
  BY <1>8 DEF LeaseLost, Raise, TypeOK, PCs
<1>9. ASSUME NEW w \in Workers, NEW e \in EventTypes, NextEvent(w, e)
      PROVE  Own'
  BY <1>9 DEF NextEvent, TypeOK, PCs, TryBlock
<1>10. ASSUME NEW w \in Workers, Check(w)
       PROVE  Own'
  <2>1. AfterEvent(w) \in PCs
    BY DEF AfterEvent, PCs, TryBlock
  <2> QED
    BY <1>10, <2>1 DEF Check, TypeOK
<1> QED
  BY <1>1, <1>2, <1>3, <1>4, <1>5, <1>6, <1>7, <1>8, <1>9, <1>10 DEF Next, WorkerStep, TypeOK

----------------------------------------------------------------------------
\* The claim discipline is kept: one lemma per action, one step per conjunct.

\* An admission touches only a row nobody has claimed.
LEMMA AdmitStep ==
  ASSUME ClaimDiscipline, NEW r \in Runs, Admit(r)
  PROVE  /\ Unclaimed' /\ HoldsClaim' /\ StartedOnce' /\ LogSoFar'
         /\ AtMostOneExecution' /\ StopEventIsFinal' /\ OutcomeWasExecuted'
<1> USE DEF ClaimDiscipline, TypeOK, LedgerTypeOK
<1>1. Unclaimed'
  BY DEF Admit, AdmitRow, Unclaimed, NotYetClaimed
<1>2. HoldsClaim'
  BY DEF Admit, AdmitRow, delivery, HoldsClaim, Unclaimed, NotYetClaimed
<1>3. StartedOnce'
  BY DEF Admit, AdmitRow, delivery, StartedOnce, Before, TurnedAway
<1>4. LogSoFar'
  BY DEF Admit, AdmitRow, delivery, LogSoFar, Before
<1>5. AtMostOneExecution'
  BY DEF Admit, AdmitRow, AtMostOneExecution
<1>6. StopEventIsFinal'
  BY DEF Admit, AdmitRow, StopEventIsFinal
<1>7. OutcomeWasExecuted'
  BY DEF Admit, AdmitRow, OutcomeWasExecuted, TurnedAway
<1> QED
  BY <1>1, <1>2, <1>3, <1>4, <1>5, <1>6, <1>7

\* A cancellation leaves claimants, executions and logs alone and never reports an outcome.
LEMMA CancelStep ==
  ASSUME ClaimDiscipline, NEW r \in Runs, Cancel(r)
  PROVE  /\ Unclaimed' /\ HoldsClaim' /\ StartedOnce' /\ LogSoFar'
         /\ AtMostOneExecution' /\ StopEventIsFinal' /\ OutcomeWasExecuted'
<1> USE DEF ClaimDiscipline, TypeOK, LedgerTypeOK
<1>1. Unclaimed'
  BY DEF Cancel, CancelRow, Unclaimed, NotYetClaimed
<1>2. HoldsClaim'
  BY DEF Cancel, CancelRow, delivery, HoldsClaim, Unclaimed, NotYetClaimed
<1>3. StartedOnce'
  BY DEF Cancel, CancelRow, delivery, StartedOnce, Before, TurnedAway
<1>4. LogSoFar'
  BY DEF Cancel, CancelRow, delivery, LogSoFar, Before
<1>5. AtMostOneExecution'
  BY DEF Cancel, CancelRow, AtMostOneExecution
<1>6. StopEventIsFinal'
  BY DEF Cancel, CancelRow, StopEventIsFinal
<1>7. OutcomeWasExecuted'
  BY DEF Cancel, CancelRow, OutcomeWasExecuted, TurnedAway
<1> QED
  BY <1>1, <1>2, <1>3, <1>4, <1>5, <1>6, <1>7

\* The reaper orphans rows that were claimed and leaves started flags and logs alone.
LEMMA ReapStep ==
  ASSUME ClaimDiscipline, Reap
  PROVE  /\ Unclaimed' /\ HoldsClaim' /\ StartedOnce' /\ LogSoFar'
         /\ AtMostOneExecution' /\ StopEventIsFinal' /\ OutcomeWasExecuted'
<1> USE DEF ClaimDiscipline, TypeOK, LedgerTypeOK
<1>1. Unclaimed'
  BY DEF Reap, ReapRows, StaleRuns, RunsIn, LeasedStatuses, Unclaimed, NotYetClaimed
<1>2. HoldsClaim'
  <2>1. \A r \in Runs : status[r] \notin NotYetClaimed => status'[r] \notin NotYetClaimed
    BY DEF Reap, ReapRows, NotYetClaimed
  <2>2. UNCHANGED <<pc, job, claimedBy>>
    BY DEF Reap, ReapRows, delivery
  <2>3. \A w \in Workers : pc[w] \in TryBlock \cup {"fail"} => job[w] \in Runs
    BY DEF HoldsClaim, TryBlock
  <2> QED
    BY <2>1, <2>2, <2>3 DEF HoldsClaim
<1>3. StartedOnce'
  <2>1. \A r \in Runs : checkpoint'[r].started = checkpoint[r].started
    BY DEF Reap, ReapRows, Checkpoints
  <2>2. UNCHANGED <<pc, job, event, events, agentStarts>>
    BY DEF Reap, ReapRows, delivery
  <2>3. \A w \in Workers : pc[w] \in Executing \cup {"input", "refused"} => job[w] \in Runs
    BY DEF HoldsClaim, Executing
  <2> QED
    BY <2>1, <2>2, <2>3 DEF StartedOnce, Before, TurnedAway
<1>4. LogSoFar'
  <2>1. UNCHANGED <<pc, job, event, events>>
    BY DEF Reap, ReapRows, delivery
  <2> QED
    BY <2>1 DEF LogSoFar, Before
<1>5. AtMostOneExecution'
  BY DEF Reap, AtMostOneExecution
<1>6. StopEventIsFinal'
  BY DEF Reap, ReapRows, StopEventIsFinal
<1>7. OutcomeWasExecuted'
  BY DEF Reap, ReapRows, Checkpoints, OutcomeWasExecuted, TurnedAway
<1> QED
  BY <1>1, <1>2, <1>3, <1>4, <1>5, <1>6, <1>7

\* A delivery starts before its claim, with an identity no row mentions.
LEMMA DeliverStep ==
  ASSUME ClaimDiscipline, NEW w \in Workers, NEW r \in Runs, Deliver(w, r)
  PROVE  /\ Unclaimed' /\ HoldsClaim' /\ StartedOnce' /\ LogSoFar'
         /\ AtMostOneExecution' /\ StopEventIsFinal' /\ OutcomeWasExecuted'
<1> USE DEF ClaimDiscipline, TypeOK, LedgerTypeOK
<1>1. Unclaimed'
  BY DEF Deliver, Fresh, ledger, rows, Unclaimed
<1>2. HoldsClaim'
  BY DEF Deliver, Fresh, ledger, rows, HoldsClaim, TryBlock
<1>3. StartedOnce'
  BY DEF Deliver, Fresh, ledger, rows, StartedOnce, Before, TurnedAway, Executing
<1>4. LogSoFar'
  BY DEF Deliver, Fresh, ledger, rows, LogSoFar, Before
<1>5. AtMostOneExecution'
  BY DEF Deliver, Fresh, AtMostOneExecution
<1>6. StopEventIsFinal'
  BY DEF Deliver, Fresh, ledger, rows, StopEventIsFinal
<1>7. OutcomeWasExecuted'
  BY DEF Deliver, Fresh, ledger, rows, OutcomeWasExecuted, TurnedAway
<1> QED
  BY <1>1, <1>2, <1>3, <1>4, <1>5, <1>6, <1>7

\* A claim finds a row without claimant, execution or event.
LEMMA ClaimStep ==
  ASSUME ClaimDiscipline, NEW w \in Workers, Claim(w)
  PROVE  /\ Unclaimed' /\ HoldsClaim' /\ StartedOnce' /\ LogSoFar'
         /\ AtMostOneExecution' /\ StopEventIsFinal' /\ OutcomeWasExecuted'
<1> USE DEF ClaimDiscipline, TypeOK, LedgerTypeOK
<1>1. Unclaimed'
  BY DEF Claim, ClaimRow, Unclaimed, NotYetClaimed
<1>2. HoldsClaim'
  BY DEF Claim, ClaimRow, Goto, HoldsClaim, Unclaimed, NotYetClaimed
<1>3. StartedOnce'
  BY DEF Claim, ClaimRow, Goto, StartedOnce, Before, TurnedAway, HoldsClaim, Unclaimed, NotYetClaimed, Executing
<1>4. LogSoFar'
  BY DEF Claim, ClaimRow, Goto, LogSoFar, Before, HoldsClaim, Unclaimed, NotYetClaimed
<1>5. AtMostOneExecution'
  BY DEF Claim, ClaimRow, AtMostOneExecution
<1>6. StopEventIsFinal'
  BY DEF Claim, ClaimRow, StopEventIsFinal
<1>7. OutcomeWasExecuted'
  BY DEF Claim, ClaimRow, OutcomeWasExecuted, TurnedAway
<1> QED
  BY <1>1, <1>2, <1>3, <1>4, <1>5, <1>6, <1>7

\* mark_started is the only step from claimed to running and sets the started flag.
LEMMA StartStep ==
  ASSUME ClaimDiscipline, NEW w \in Workers, Start(w)
  PROVE  /\ Unclaimed' /\ HoldsClaim' /\ StartedOnce' /\ LogSoFar'
         /\ AtMostOneExecution' /\ StopEventIsFinal' /\ OutcomeWasExecuted'
<1> USE DEF ClaimDiscipline, TypeOK, LedgerTypeOK
<1>1. Unclaimed'
  BY DEF Start, StartRow, Unclaimed, NotYetClaimed
<1>2. HoldsClaim'
  BY DEF Start, StartRow, Goto, HoldsClaim, Unclaimed, NotYetClaimed, TryBlock
<1>3. StartedOnce'
  BY DEF Start, StartRow, Goto, StartedOnce, Before, TurnedAway, HoldsClaim, Executing
<1>4. LogSoFar'
  BY DEF Start, StartRow, Goto, LogSoFar, Before
<1>5. AtMostOneExecution'
  BY DEF Start, StartRow, AtMostOneExecution
<1>6. StopEventIsFinal'
  BY DEF Start, StartRow, StopEventIsFinal
<1>7. OutcomeWasExecuted'
  BY DEF Start, StartRow, OutcomeWasExecuted, TurnedAway
<1> QED
  BY <1>1, <1>2, <1>3, <1>4, <1>5, <1>6, <1>7

\* The Agent starts only at the label that has seen no execution.
LEMMA StartAgentStep ==
  ASSUME ClaimDiscipline, NEW w \in Workers, StartAgent(w)
  PROVE  /\ Unclaimed' /\ HoldsClaim' /\ StartedOnce' /\ LogSoFar'
         /\ AtMostOneExecution' /\ StopEventIsFinal' /\ OutcomeWasExecuted'
<1> USE DEF ClaimDiscipline, TypeOK, LedgerTypeOK
<1>1. Unclaimed'
  BY DEF StartAgent, ledger, rows, Unclaimed, HoldsClaim, TryBlock
<1>2. HoldsClaim'
  BY DEF StartAgent, Goto, ledger, rows, HoldsClaim, TryBlock
<1>3. StartedOnce'
  BY DEF StartAgent, Goto, ledger, rows, StartedOnce, Before, TurnedAway, HoldsClaim, TryBlock
<1>4. LogSoFar'
  BY DEF StartAgent, Goto, ledger, rows, LogSoFar, Before
<1>5. AtMostOneExecution'
  BY DEF StartAgent, AtMostOneExecution, StartedOnce, Before, TurnedAway
<1>6. StopEventIsFinal'
  BY DEF StartAgent, ledger, rows, StopEventIsFinal
<1>7. OutcomeWasExecuted'
  BY DEF StartAgent, ledger, rows, OutcomeWasExecuted, TurnedAway, StartedOnce, Before
<1> QED
  BY <1>1, <1>2, <1>3, <1>4, <1>5, <1>6, <1>7

\* A service that turns the run away executes nothing.
LEMMA TurnAwayStep ==
  ASSUME ClaimDiscipline, NEW w \in Workers, TurnAway(w)
  PROVE  /\ Unclaimed' /\ HoldsClaim' /\ StartedOnce' /\ LogSoFar'
         /\ AtMostOneExecution' /\ StopEventIsFinal' /\ OutcomeWasExecuted'
<1> USE DEF ClaimDiscipline, TypeOK, LedgerTypeOK
<1>1. Unclaimed'
  BY DEF TurnAway, ledger, rows, Unclaimed, HoldsClaim, TryBlock
<1>2. HoldsClaim'
  BY DEF TurnAway, Goto, ledger, rows, HoldsClaim, TryBlock
<1>3. StartedOnce'
  BY DEF TurnAway, Goto, ledger, rows, StartedOnce, Before, TurnedAway, HoldsClaim, TryBlock
<1>4. LogSoFar'
  BY DEF TurnAway, Goto, ledger, rows, LogSoFar, Before
<1>5. AtMostOneExecution'
  BY DEF TurnAway, AtMostOneExecution, StartedOnce, Before, TurnedAway
<1>6. StopEventIsFinal'
  BY DEF TurnAway, ledger, rows, StopEventIsFinal
<1>7. OutcomeWasExecuted'
  BY DEF TurnAway, ledger, rows, OutcomeWasExecuted, TurnedAway, StartedOnce, Before
<1> QED
  BY <1>1, <1>2, <1>3, <1>4, <1>5, <1>6, <1>7

\* The heartbeat changes no more than the staleness of the row.
LEMMA NextEventStep ==
  ASSUME ClaimDiscipline, NEW w \in Workers, NEW e \in EventTypes, NextEvent(w, e)
  PROVE  /\ Unclaimed' /\ HoldsClaim' /\ StartedOnce' /\ LogSoFar'
         /\ AtMostOneExecution' /\ StopEventIsFinal' /\ OutcomeWasExecuted'
<1> USE DEF ClaimDiscipline, TypeOK, LedgerTypeOK
<1>1. Unclaimed'
  BY DEF NextEvent, HeartbeatRow, Unclaimed
<1>2. HoldsClaim'
  BY DEF NextEvent, HeartbeatRow, HoldsClaim, TryBlock
<1>3. StartedOnce'
  BY DEF NextEvent, HeartbeatRow, StartedOnce, Before, TurnedAway, Executing
<1>4. LogSoFar'
  BY DEF NextEvent, HeartbeatRow, LogSoFar, Before
<1>5. AtMostOneExecution'
  BY DEF NextEvent, HeartbeatRow, AtMostOneExecution
<1>6. StopEventIsFinal'
  BY DEF NextEvent, HeartbeatRow, StopEventIsFinal
<1>7. OutcomeWasExecuted'
  BY DEF NextEvent, HeartbeatRow, OutcomeWasExecuted, TurnedAway
<1> QED
  BY <1>1, <1>2, <1>3, <1>4, <1>5, <1>6, <1>7

\* An event is appended to a log without stop events.
LEMMA AppendEventStep ==
  ASSUME ClaimDiscipline, NEW w \in Workers, AppendEvent(w)
  PROVE  /\ Unclaimed' /\ HoldsClaim' /\ StartedOnce' /\ LogSoFar'
         /\ AtMostOneExecution' /\ StopEventIsFinal' /\ OutcomeWasExecuted'
<1> USE DEF ClaimDiscipline, TypeOK, LedgerTypeOK
<1>1. Unclaimed'
  BY DEF AppendEvent, AppendRow, Unclaimed, HoldsClaim, TryBlock
<1>2. HoldsClaim'
  BY DEF AppendEvent, AppendRow, Goto, HoldsClaim, TryBlock
<1>3. StartedOnce'
  <2> DEFINE q == job[w]
  <2>1. /\ q \in Runs /\ events' = [events EXCEPT ![q] = Append(@, event[w])]
        /\ pc[w] = "append" /\ pc' = [pc EXCEPT ![w] = "check"]
        /\ UNCHANGED <<job, event, agentStarts, checkpoint>>
    BY DEF AppendEvent, AppendRow, Goto, HoldsClaim, TryBlock
  <2>2. \/ agentStarts[q] = 1
        \/ agentStarts[q] = 0 /\ events[q] = << >> /\ event[w] = "error"
    BY <2>1 DEF StartedOnce
  <2>3. \/ agentStarts'[q] = 1
        \/ TurnedAway(q)' /\ event[w] = "error"
    <3>1. CASE agentStarts[q] = 1
      BY <2>1, <3>1
    <3>2. CASE agentStarts[q] = 0 /\ events[q] = << >> /\ event[w] = "error"
      <4>1. events'[q] = Append(<< >>, "error")
        BY <2>1, <3>2
      <4> QED
        BY <2>1, <3>2, <4>1 DEF TurnedAway
    <3> QED
      BY <2>2, <3>1, <3>2
  <2>4. ASSUME NEW x \in Workers, x # w, pc[x] \in TryBlock PROVE job[x] # q
    BY <2>1, <2>4 DEF HoldsClaim, TryBlock
  <2>5. \A r \in Runs : r # q => events'[r] = events[r]
    BY <2>1
  <2>6. \A x \in Workers : pc[x] \in TryBlock => job[x] \in Runs
    BY DEF HoldsClaim, TryBlock
  <2>7. checkpoint[q].started
    BY <2>1 DEF StartedOnce, Executing
  <2> SUFFICES ASSUME NEW x \in Workers
               PROVE  /\ pc'[x] \in Before => agentStarts'[job'[x]] = 0 /\ events'[job'[x]] = << >>
                      /\ pc'[x] \in {"stream", "park"} => agentStarts'[job'[x]] = 1
                      /\ pc'[x] = "append" => \/ agentStarts'[job'[x]] = 1
                                              \/ /\ agentStarts'[job'[x]] = 0
                                                 /\ events'[job'[x]] = << >>
                                                 /\ event'[x] = "error"
                      /\ pc'[x] = "check" => \/ agentStarts'[job'[x]] = 1
                                             \/ TurnedAway(job[x])' /\ event'[x] = "error"
                      /\ pc'[x] = "cancel" => agentStarts'[job'[x]] = 1 \/ TurnedAway(job[x])'
                      /\ pc'[x] \in Executing \cup {"input", "refused"} => checkpoint'[job'[x]].started
    BY DEF StartedOnce
  <2>8. CASE x = w
    BY <2>1, <2>3, <2>7, <2>8 DEF Before
  <2>9. CASE x # w
    <3>1. pc'[x] = pc[x] /\ job'[x] = job[x] /\ event'[x] = event[x]
      BY <2>1, <2>9
    <3>2. pc[x] \in TryBlock => events'[job[x]] = events[job[x]]
      BY <2>4, <2>5, <2>6, <2>9
    <3>3. Before \subseteq TryBlock /\ Executing \subseteq TryBlock
      BY DEF Before, Executing, TryBlock
    <3> QED
      BY <2>1, <3>1, <3>2, <3>3 DEF StartedOnce, TurnedAway, TryBlock
  <2> QED
    BY <2>8, <2>9
<1>4. LogSoFar'
  BY DEF AppendEvent, AppendRow, Goto, LogSoFar, Before, HoldsClaim, TryBlock
<1>5. AtMostOneExecution'
  BY DEF AppendEvent, AppendRow, AtMostOneExecution
<1>6. StopEventIsFinal'
  <2> DEFINE q == job[w]
  <2>1. /\ q \in Runs /\ status[q] # "completed" /\ event[w] \in EventTypes
        /\ \A i \in DOMAIN events[q] : events[q][i] \notin StopEvents
    BY DEF AppendEvent, AppendRow, HoldsLease, ActiveStatuses, HoldsClaim, LogSoFar, Before
  <2>2. /\ events' = [events EXCEPT ![q] = Append(@, event[w])] /\ UNCHANGED status
    BY DEF AppendEvent, AppendRow
  <2>3. ASSUME NEW i \in DOMAIN events'[q], events'[q][i] \in StopEvents
        PROVE  i = Len(events'[q])
    BY <2>1, <2>2, <2>3
  <2>4. ASSUME NEW r \in Runs, r # q PROVE events'[r] = events[r]
    BY <2>2, <2>4
  <2> QED
    BY <2>1, <2>2, <2>3, <2>4 DEF StopEventIsFinal
<1>7. OutcomeWasExecuted'
  <2>1. /\ job[w] \in Runs /\ status[job[w]] \in ActiveStatuses
        /\ \A r \in Runs : r # job[w] => events'[r] = events[r]
        /\ UNCHANGED <<status, checkpoint, agentStarts>>
    BY DEF AppendEvent, AppendRow, HoldsLease, HoldsClaim
  <2>2. status[job[w]] = "waiting_approval" => agentStarts[job[w]] = 1
    BY <2>1 DEF OutcomeWasExecuted
  <2> QED
    BY <2>1, <2>2 DEF ActiveStatuses, OutcomeWasExecuted, TurnedAway
<1> QED
  BY <1>1, <1>2, <1>3, <1>4, <1>5, <1>6, <1>7

\* After a stop event the loop is left.
LEMMA CheckStep ==
  ASSUME ClaimDiscipline, NEW w \in Workers, Check(w)
  PROVE  /\ Unclaimed' /\ HoldsClaim' /\ StartedOnce' /\ LogSoFar'
         /\ AtMostOneExecution' /\ StopEventIsFinal' /\ OutcomeWasExecuted'
<1> USE DEF ClaimDiscipline, TypeOK, LedgerTypeOK
<1>1. Unclaimed'
  BY DEF Check, ledger, rows, Unclaimed
<1>2. HoldsClaim'
  BY DEF Check, ledger, rows, HoldsClaim, TryBlock
<1>3. StartedOnce'
  BY DEF Check, AfterEvent, ledger, rows, StartedOnce, Before, TurnedAway, Executing
<1>4. LogSoFar'
  BY DEF Check, AfterEvent, ledger, rows, LogSoFar, Before, StopEvents
<1>5. AtMostOneExecution'
  BY DEF Check, AtMostOneExecution
<1>6. StopEventIsFinal'
  BY DEF Check, ledger, rows, StopEventIsFinal
<1>7. OutcomeWasExecuted'
  BY DEF Check, ledger, rows, OutcomeWasExecuted, TurnedAway
<1> QED
  BY <1>1, <1>2, <1>3, <1>4, <1>5, <1>6, <1>7

\* A delivery cancels or parks a run whose Agent has executed.
LEMMA YieldStep ==
  ASSUME ClaimDiscipline, NEW w \in Workers, Yield(w)
  PROVE  /\ Unclaimed' /\ HoldsClaim' /\ StartedOnce' /\ LogSoFar'
         /\ AtMostOneExecution' /\ StopEventIsFinal' /\ OutcomeWasExecuted'
<1> USE DEF ClaimDiscipline, TypeOK, LedgerTypeOK
<1>1. Unclaimed'
  BY DEF Yield, TransitionTarget, TransitionRow, Unclaimed, NotYetClaimed
<1>2. HoldsClaim'
  BY DEF Yield, TransitionTarget, TransitionRow, Goto, HoldsClaim, TryBlock
<1>3. StartedOnce'
  BY DEF Yield, TransitionTarget, TransitionRow, Goto, StartedOnce, Before, TurnedAway, Executing
<1>4. LogSoFar'
  BY DEF Yield, TransitionTarget, TransitionRow, Goto, LogSoFar, Before
<1>5. AtMostOneExecution'
  BY DEF Yield, TransitionTarget, TransitionRow, AtMostOneExecution
<1>6. StopEventIsFinal'
  BY DEF Yield, TransitionTarget, TransitionRow, StopEventIsFinal
<1>7. OutcomeWasExecuted'
  BY DEF Yield, TransitionTarget, TransitionRow, OutcomeWasExecuted, TurnedAway, StartedOnce, Before, Executing
<1> QED
  BY <1>1, <1>2, <1>3, <1>4, <1>5, <1>6, <1>7

\* A delivery completes a run only from the stream, where no stop event was logged.
LEMMA CompleteStep ==
  ASSUME ClaimDiscipline, NEW w \in Workers, Complete(w)
  PROVE  /\ Unclaimed' /\ HoldsClaim' /\ StartedOnce' /\ LogSoFar'
         /\ AtMostOneExecution' /\ StopEventIsFinal' /\ OutcomeWasExecuted'
<1> USE DEF ClaimDiscipline, TypeOK, LedgerTypeOK
<1>1. Unclaimed'
  BY DEF Complete, FinishRow, Unclaimed, NotYetClaimed
<1>2. HoldsClaim'
  BY DEF Complete, FinishRow, Goto, HoldsClaim, TryBlock
<1>3. StartedOnce'
  BY DEF Complete, FinishRow, Goto, StartedOnce, Before, TurnedAway, Executing
<1>4. LogSoFar'
  BY DEF Complete, FinishRow, Goto, LogSoFar, Before
<1>5. AtMostOneExecution'
  BY DEF Complete, FinishRow, AtMostOneExecution
<1>6. StopEventIsFinal'
  BY DEF Complete, FinishRow, StopEventIsFinal, LogSoFar, Before
<1>7. OutcomeWasExecuted'
  BY DEF Complete, FinishRow, OutcomeWasExecuted, TurnedAway, StartedOnce, Before, Executing
<1> QED
  BY <1>1, <1>2, <1>3, <1>4, <1>5, <1>6, <1>7

\* A failure is written by the claimant and is no outcome of an execution.
LEMMA FailStep ==
  ASSUME ClaimDiscipline, NEW w \in Workers, Fail(w)
  PROVE  /\ Unclaimed' /\ HoldsClaim' /\ StartedOnce' /\ LogSoFar'
         /\ AtMostOneExecution' /\ StopEventIsFinal' /\ OutcomeWasExecuted'
<1> USE DEF ClaimDiscipline, TypeOK, LedgerTypeOK
<1>1. Unclaimed'
  BY DEF Fail, FinishRow, Unclaimed, NotYetClaimed
<1>2. HoldsClaim'
  BY DEF Fail, FinishRow, Goto, HoldsClaim, TryBlock
<1>3. StartedOnce'
  BY DEF Fail, FinishRow, Goto, StartedOnce, Before, TurnedAway, Executing
<1>4. LogSoFar'
  BY DEF Fail, FinishRow, Goto, LogSoFar, Before
<1>5. AtMostOneExecution'
  BY DEF Fail, FinishRow, AtMostOneExecution
<1>6. StopEventIsFinal'
  BY DEF Fail, FinishRow, StopEventIsFinal
<1>7. OutcomeWasExecuted'
  BY DEF Fail, FinishRow, OutcomeWasExecuted, TurnedAway
<1> QED
  BY <1>1, <1>2, <1>3, <1>4, <1>5, <1>6, <1>7

\* A delivery that gives up changes nothing but its own place.
LEMMA StopStep ==
  ASSUME ClaimDiscipline, NEW w \in Workers, ClaimNothing(w) \/ LeaseLost(w) \/ Raise(w) \/ FailLost(w)
  PROVE  /\ Unclaimed' /\ HoldsClaim' /\ StartedOnce' /\ LogSoFar'
         /\ AtMostOneExecution' /\ StopEventIsFinal' /\ OutcomeWasExecuted'
<1> USE DEF ClaimDiscipline, TypeOK, LedgerTypeOK
<1>1. Unclaimed'
  BY DEF ClaimNothing, LeaseLost, Raise, FailLost, ledger, rows, Unclaimed
<1>2. HoldsClaim'
  BY DEF ClaimNothing, LeaseLost, Raise, FailLost, Goto, ledger, rows, HoldsClaim, TryBlock
<1>3. StartedOnce'
  BY DEF ClaimNothing, LeaseLost, Raise, FailLost, Goto, ledger, rows, StartedOnce, Before, TurnedAway, Executing
<1>4. LogSoFar'
  <2>1. /\ UNCHANGED <<job, events>>
        /\ pc' = [pc EXCEPT ![w] = "return"] \/ pc' = [pc EXCEPT ![w] = "fail"]
        /\ \A x \in Workers : x # w => event'[x] = event[x]
    BY DEF ClaimNothing, LeaseLost, Raise, FailLost, Goto, ledger, rows
  <2>2. pc'[w] \in {"return", "fail"} /\ \A x \in Workers : x # w => pc'[x] = pc[x]
    BY <2>1
  <2>3. /\ UNCHANGED <<job, events>>
        /\ \A x \in Workers : \/ pc'[x] \in {"return", "fail"}
                              \/ pc'[x] = pc[x] /\ event'[x] = event[x]
    BY <2>1, <2>2
  <2> QED
    BY <2>3 DEF LogSoFar, Before
<1>5. AtMostOneExecution'
  BY DEF ClaimNothing, LeaseLost, Raise, FailLost, AtMostOneExecution
<1>6. StopEventIsFinal'
  BY DEF ClaimNothing, LeaseLost, Raise, FailLost, ledger, rows, StopEventIsFinal
<1>7. OutcomeWasExecuted'
  BY DEF ClaimNothing, LeaseLost, Raise, FailLost, ledger, rows, OutcomeWasExecuted, TurnedAway
<1> QED
  BY <1>1, <1>2, <1>3, <1>4, <1>5, <1>6, <1>7

\* A delivery that leaves its worker changes nothing but its own place.
LEMMA LeaveStep ==
  ASSUME ClaimDiscipline, NEW w \in Workers, Ack(w) \/ Crash(w)
  PROVE  /\ Unclaimed' /\ HoldsClaim' /\ StartedOnce' /\ LogSoFar'
         /\ AtMostOneExecution' /\ StopEventIsFinal' /\ OutcomeWasExecuted'
<1> USE DEF ClaimDiscipline, TypeOK, LedgerTypeOK
<1>0. /\ pc' = [pc EXCEPT ![w] = "idle"] /\ UNCHANGED <<ledger, agentStarts>>
      /\ \A x \in Workers : x # w => job'[x] = job[x] /\ event'[x] = event[x]
  BY DEF Ack, Crash, LeaveWorker
<1>1. Unclaimed'
  BY DEF Ack, Crash, LeaveWorker, ledger, rows, Unclaimed
<1>2. HoldsClaim'
  BY <1>0 DEF ledger, rows, HoldsClaim, TryBlock
<1>3. StartedOnce'
  BY <1>0 DEF ledger, rows, StartedOnce, Before, TurnedAway, Executing
<1>4. LogSoFar'
  BY <1>0 DEF ledger, rows, LogSoFar, Before
<1>5. AtMostOneExecution'
  BY DEF Ack, Crash, LeaveWorker, AtMostOneExecution
<1>6. StopEventIsFinal'
  BY DEF Ack, Crash, LeaveWorker, ledger, rows, StopEventIsFinal
<1>7. OutcomeWasExecuted'
  BY DEF Ack, Crash, LeaveWorker, ledger, rows, OutcomeWasExecuted, TurnedAway
<1> QED
  BY <1>1, <1>2, <1>3, <1>4, <1>5, <1>6, <1>7

\* The steps that touch nothing the claim discipline speaks of.
LEMMA BystanderStep ==
  ASSUME ClaimDiscipline,
         UNCHANGED <<status, claimedBy, checkpoint, events, delivery, agentStarts>>
  PROVE  /\ Unclaimed' /\ HoldsClaim' /\ StartedOnce' /\ LogSoFar'
         /\ AtMostOneExecution' /\ StopEventIsFinal' /\ OutcomeWasExecuted'
BY DEF ClaimDiscipline, delivery, Unclaimed, HoldsClaim, StartedOnce, Before, TurnedAway, LogSoFar, AtMostOneExecution, StopEventIsFinal, OutcomeWasExecuted

\* Every step of the runtime keeps the claim discipline.
LEMMA DisciplineKept ==
  ASSUME ClaimDiscipline, Next
  PROVE  ClaimDiscipline'
<1> DEFINE Kept == /\ Unclaimed' /\ HoldsClaim' /\ StartedOnce' /\ LogSoFar'
                   /\ AtMostOneExecution' /\ StopEventIsFinal' /\ OutcomeWasExecuted'
<1>1. TypeOK'
  BY RuntimeTypeStep DEF ClaimDiscipline
<1>2. ASSUME NEW r \in Runs,
             \/ Submit(r) \/ Count(r) \/ Admit(r) \/ Refuse(r) \/ Replay(r) \/ Cancel(r)
             \/ Republish(r) \/ Age(r) \/ LoseMessage(r)
      PROVE  Kept
  <2>1. CASE Admit(r) \/ Cancel(r)
    BY <2>1, AdmitStep, CancelStep
  <2>2. CASE Submit(r) \/ Count(r) \/ Refuse(r) \/ Replay(r) \/ Republish(r) \/ Age(r) \/ LoseMessage(r)
    BY <2>2, BystanderStep DEF Submit, BeginAdmission, Count, CountRows, Refuse, RefuseRow, Replay, Republish, Age, HeartbeatAges, LoseMessage, ledger, rows
  <2> QED
    BY <1>2, <2>1, <2>2
<1>3. ASSUME (\E old \in SUBSET Runs : Reconcile(old)) \/ Reap \/ SetEmergencyStop
      PROVE  Kept
  <2>1. CASE Reap
    BY <2>1, ReapStep
  <2>2. CASE (\E old \in SUBSET Runs : Reconcile(old)) \/ SetEmergencyStop
    BY <2>2, BystanderStep DEF Reconcile, SetEmergencyStop, ledger, rows
  <2> QED
    BY <1>3, <2>1, <2>2
<1>4. ASSUME NEW w \in Workers, WorkerStep(w) \/ Crash(w) \/ \E r \in Runs : Deliver(w, r)
      PROVE  Kept
  BY <1>4, DeliverStep, ClaimStep, StartStep, StartAgentStep, TurnAwayStep, NextEventStep,
     AppendEventStep,
     CheckStep, YieldStep, CompleteStep, FailStep, StopStep, LeaveStep DEF WorkerStep
<1> HIDE DEF Kept
<1>5. Kept
  BY <1>2, <1>3, <1>4 DEF Next
<1> QED
  BY <1>1, <1>5 DEF Kept, ClaimDiscipline

\* The claim discipline is inductive.
THEOREM ClaimDisciplineHolds == Spec => []ClaimDiscipline
<1>1. Init => ClaimDiscipline
  <2> SUFFICES ASSUME Init PROVE ClaimDiscipline
    OBVIOUS
  <2>1. TypeOK
    BY LedgerTypeInit DEF Init, TypeOK, PCs
  <2>2. HoldsClaim /\ StartedOnce /\ LogSoFar
    BY DEF Init, TryBlock, Executing, HoldsClaim, StartedOnce, Before, TurnedAway, LogSoFar
  <2>3. Unclaimed /\ AtMostOneExecution /\ StopEventIsFinal /\ OutcomeWasExecuted
    BY DEF Init, LedgerInit, Unclaimed, AtMostOneExecution, StopEventIsFinal, OutcomeWasExecuted, TurnedAway
  <2> QED
    BY <2>1, <2>2, <2>3 DEF ClaimDiscipline
<1>2. ClaimDiscipline /\ [Next]_vars => ClaimDiscipline'
  <2>1. ASSUME ClaimDiscipline, UNCHANGED vars PROVE ClaimDiscipline'
    <3>1. TypeOK'
      BY <2>1 DEF ClaimDiscipline, vars, ledger, rows, delivery, TypeOK, LedgerTypeOK
    <3> QED
      BY <2>1, <3>1, BystanderStep DEF vars, ledger, rows, ClaimDiscipline
  <2> QED
    BY <2>1, DisciplineKept
<1> QED
  BY <1>1, <1>2, PTL DEF Spec

\* Two deliveries never execute one run at the same time, for any number of
\* deliveries, duplicates and crashes.
THEOREM ExclusiveExecution == Spec => []OneWorkerPerRun
<1>1. ClaimDiscipline => OneWorkerPerRun
  BY DEF ClaimDiscipline, HoldsClaim, OneWorkerPerRun
<1> QED
  BY <1>1, ClaimDisciplineHolds, PTL

\* The runtime's state keeps its types under every interleaving of deliveries,
\* crashes, cancellations and beat tasks.
THEOREM RuntimeTypeCorrect == Spec => []TypeOK
<1>1. ClaimDiscipline => TypeOK
  BY DEF ClaimDiscipline
<1> QED
  BY <1>1, ClaimDisciplineHolds, PTL

\* The Agent of a run is started once, whatever is redelivered or published again.
THEOREM SingleExecution == Spec => []AtMostOneExecution
<1>1. ClaimDiscipline => AtMostOneExecution
  BY DEF ClaimDiscipline
<1> QED
  BY <1>1, ClaimDisciplineHolds, PTL

\* After an approval request or an error the log of a run has no further event,
\* and the run is not completed.
THEOREM StopEventLast == Spec => []StopEventIsFinal
<1>1. ClaimDiscipline => StopEventIsFinal
  BY DEF ClaimDiscipline
<1> QED
  BY <1>1, ClaimDisciplineHolds, PTL

\* A completed or parked run was started and its Agent executed; a cancelled one
\* was started, and executed or turned away with one error event.
THEOREM OutcomesWereExecuted == Spec => []OutcomeWasExecuted
<1>1. ClaimDiscipline => OutcomeWasExecuted
  BY DEF ClaimDiscipline
<1> QED
  BY <1>1, ClaimDisciplineHolds, PTL

\* The runtime uses the ledger as the ledger allows: what LedgerSpec guarantees
\* holds of the runtime.
THEOREM RuntimeImplementsLedger == Spec => LedgerSpec
<1>1. Init => LedgerInit
  BY DEF Init
<1>2. ClaimDiscipline /\ [Next]_vars => [LedgerNext]_ledger
  BY LedgerOperation DEF vars, ClaimDiscipline
<1> QED
  BY <1>1, <1>2, ClaimDisciplineHolds, PTL DEF Spec, LedgerSpec

\* What the ledger guarantees to any caller it guarantees to the runtime: the
\* frozen graph, settled runs, the agreement of the two tables, the load.
THEOREM RuntimeLedgerSafety ==
  Spec => LegalEdges /\ SettledStays /\ []CheckpointAgrees /\ []LoadBounded
BY RuntimeImplementsLedger, LedgerLegalEdges, LedgerSettledStays, LedgerCheckpointAgrees,
   LedgerLoadBounded, PTL

----------------------------------------------------------------------------
\* The runtime implements RunPromise.

PhaseOf   == [r \in Runs |-> Phase(status[r])]
RefusedOf == [r \in Runs |-> TurnedAway(r)]

\* Statuses and phases.
LEMMA PhaseFacts ==
  /\ Phase("absent") = "absent" /\ Phase("queued") = "waiting"
  /\ Phase("claimed") = "working" /\ Phase("running") = "working"
  /\ Phase("waiting_approval") = "parked" /\ Phase("cancel_requested") = "cancelling"
  /\ Phase("cancelled") = "over" /\ Phase("completed") = "over"
  /\ Phase("failed") = "over" /\ Phase("orphaned") = "over"
BY DEF Phase, LeasedStatuses

\* The two early phases are the two statuses before a claim.
LEMMA EarlyPhases ==
  ASSUME NEW s \in RowStatus, Phase(s) \in {"absent", "waiting"}
  PROVE  s \in NotYetClaimed
BY DEF Phase, LeasedStatuses, NotYetClaimed, RowStatus, RunStatus

\* A row that takes a status moves its run to the phase of that status.
LEMMA PhaseMoves ==
  ASSUME TypeOK, NEW r \in Runs, NEW s, NEW from, UNCHANGED <<agentStarts, events>>,
         status' = [status EXCEPT ![r] = s], Phase(status[r]) \in from
  PROVE  Promise!Move(r, from, Phase(s))
<1>1. PhaseOf' = [PhaseOf EXCEPT ![r] = Phase(s)]
  BY DEF PhaseOf, TypeOK, LedgerTypeOK
<1>2. UNCHANGED RefusedOf
  BY DEF RefusedOf, TurnedAway
<1> QED
  BY <1>1, <1>2 DEF PhaseOf, RefusedOf, Promise!Move

\* Every step of the runtime is a step of the promise or stutters.
LEMMA PromiseStep ==
  ASSUME ClaimDiscipline, Next
  PROVE  Promise!Next \/ UNCHANGED <<PhaseOf, agentStarts, RefusedOf>>
<1> DEFINE Kept == Promise!Next \/ UNCHANGED <<PhaseOf, agentStarts, RefusedOf>>
<1> USE DEF ClaimDiscipline
<1>0. ASSUME UNCHANGED <<agentStarts, events>> PROVE UNCHANGED RefusedOf
  BY <1>0 DEF RefusedOf, TurnedAway
<1>1. ASSUME UNCHANGED <<status, agentStarts, events>> PROVE Kept
  BY <1>0, <1>1 DEF PhaseOf
<1>2. ASSUME NEW r \in Runs, Admit(r) PROVE Kept
  <2>1. Promise!Accept(r)
    <3>1. /\ status[r] = "absent" /\ status' = [status EXCEPT ![r] = "queued"]
          /\ UNCHANGED <<agentStarts, events>>
      BY <1>2 DEF Admit, AdmitRow
    <3>2. Promise!Move(r, {"absent"}, Phase("queued"))
      BY <3>1, PhaseMoves, PhaseFacts
    <3> QED
      BY <3>2, PhaseFacts DEF Promise!Accept
  <2> QED
    BY <2>1 DEF Promise!Next
<1>3. ASSUME NEW r \in Runs, Cancel(r) PROVE Kept
  <2>1. Promise!Ask(r)
    <3>1. /\ status[r] \in {"queued", "claimed", "running", "waiting_approval"}
          /\ status' = [status EXCEPT ![r] = "cancel_requested"]
          /\ UNCHANGED <<agentStarts, events>>
      BY <1>3 DEF Cancel, CancelRow, CancellableStatuses, ActiveStatuses
    <3>2. Promise!Move(r, {"waiting", "working", "parked"}, Phase("cancel_requested"))
      BY <3>1, PhaseMoves, PhaseFacts
    <3> QED
      BY <3>2, PhaseFacts DEF Promise!Ask
  <2> QED
    BY <2>1 DEF Promise!Next
<1>4. ASSUME Reap PROVE Kept
  <2> DEFINE S == StaleRuns
  <2>1. /\ S \in SUBSET Runs /\ \A r \in S : status[r] \in {"claimed", "running"}
        /\ status' = [r \in Runs |-> IF r \in S THEN "orphaned" ELSE status[r]]
        /\ UNCHANGED <<agentStarts, events>>
    BY <1>4 DEF Reap, ReapRows, StaleRuns, RunsIn, LeasedStatuses
  <2> HIDE DEF S
  <2>2. PhaseOf' = [r \in Runs |-> IF r \in S THEN "over" ELSE PhaseOf[r]]
    BY <2>1, PhaseFacts DEF PhaseOf
  <2>3. \A r \in S : PhaseOf[r] = "working"
    BY <2>1, PhaseFacts DEF PhaseOf
  <2>4. Promise!End(S)
    BY <1>0, <2>1, <2>2, <2>3 DEF PhaseOf, RefusedOf, Promise!End
  <2> QED
    BY <2>1, <2>4 DEF Promise!Next
<1>5. ASSUME NEW w \in Workers, Claim(w) PROVE Kept
  <2>1. job[w] \in Runs
    BY <1>5 DEF Claim, HoldsClaim
  <2>2. Promise!Take(job[w])
    <3>1. /\ status[job[w]] = "queued" /\ status' = [status EXCEPT ![job[w]] = "claimed"]
          /\ UNCHANGED <<agentStarts, events>>
      BY <1>5 DEF Claim, ClaimRow
    <3>2. Promise!Move(job[w], {"waiting"}, Phase("claimed"))
      BY <2>1, <3>1, PhaseMoves, PhaseFacts
    <3> QED
      BY <3>2, PhaseFacts DEF Promise!Take
  <2> QED
    BY <2>1, <2>2 DEF Promise!Next
<1>6. ASSUME NEW w \in Workers, Start(w) PROVE Kept
  <2>1. job[w] \in Runs /\ status[job[w]] = "claimed"
    BY <1>6 DEF Start, StartRow, HoldsLease, HoldsClaim
  <2>2. PhaseOf' = PhaseOf
    BY <1>6, <2>1, PhaseFacts DEF Start, StartRow, PhaseOf, TypeOK, LedgerTypeOK
  <2> QED
    BY <1>0, <1>6, <2>2 DEF Start, StartRow
<1>7. ASSUME NEW w \in Workers, StartAgent(w) PROVE Kept
  <2>1. /\ job[w] \in Runs /\ status[job[w]] \notin NotYetClaimed
        /\ agentStarts[job[w]] = 0 /\ events[job[w]] = << >>
    BY <1>7 DEF StartAgent, HoldsClaim, StartedOnce, Before, TryBlock
  <2>2. Phase(status[job[w]]) \notin {"absent", "waiting"}
    BY <2>1, EarlyPhases DEF TypeOK, LedgerTypeOK
  <2>3. PhaseOf' = PhaseOf
    BY <1>7 DEF StartAgent, ledger, rows, PhaseOf
  <2>4. ~TurnedAway(job[w]) /\ UNCHANGED RefusedOf
    <3>1. events[job[w]] # <<"error">>
      BY <2>1
    <3> QED
      BY <1>7, <2>1, <3>1 DEF StartAgent, TypeOK, ledger, rows, RefusedOf, TurnedAway
  <2>5. Promise!Untouched(job[w])
    BY <2>1, <2>2, <2>4 DEF Promise!Untouched
  <2>6. Promise!Execute(job[w])
    BY <1>7, <2>1, <2>3, <2>4, <2>5 DEF StartAgent, PhaseOf, RefusedOf, Promise!Execute, TypeOK
  <2> QED
    BY <2>1, <2>6 DEF Promise!Next
<1>8. ASSUME NEW w \in Workers, Yield(w) PROVE Kept
  <2> DEFINE q == job[w]
             target == TransitionTarget(w)
  <2>1. /\ q \in Runs /\ status[q] \in RunStatus
        /\ target = "waiting_approval" => agentStarts[q] = 1
        /\ target = "cancelled" => agentStarts[q] = 1 \/ TurnedAway(q)
        /\ target \in WorkerTargets /\ CanTransition(status[q], target)
        /\ status' = [status EXCEPT ![q] = target] /\ UNCHANGED <<agentStarts, events>>
    BY <1>8 DEF Yield, TransitionRow, TransitionTarget, WorkerTargets, HoldsClaim, StartedOnce, Before, TurnedAway, Executing, TypeOK, LedgerTypeOK, RowStatus
  <2> HIDE DEF q, target
  <2>2. CASE status[q] = target
    <3>1. UNCHANGED status
      BY <2>1, <2>2 DEF TypeOK, LedgerTypeOK
    <3> QED
      BY <1>1, <2>1, <3>1
  <2>3. CASE status[q] = "running" /\ target = "waiting_approval"
    <3>1. Promise!Move(q, {"working"}, Phase("waiting_approval"))
      BY <2>1, <2>3, PhaseMoves, PhaseFacts
    <3>2. Promise!Park(q)
      BY <2>1, <2>3, <3>1, PhaseFacts DEF Promise!Park
    <3> QED
      BY <2>1, <3>2 DEF Promise!Next
  <2>4. CASE status[q] = "cancel_requested" /\ target = "cancelled"
    <3>1. Promise!Move(q, {"cancelling"}, Phase("cancelled"))
      BY <2>1, <2>4, PhaseMoves, PhaseFacts
    <3>2. Promise!Abandon(q)
      <4>1. agentStarts[q] = 1 \/ RefusedOf[q]
        BY <2>1, <2>4 DEF RefusedOf
      <4> QED
        BY <3>1, <4>1, PhaseFacts DEF RefusedOf, Promise!Abandon
    <3> QED
      BY <2>1, <3>2 DEF Promise!Next
  <2> QED
    BY <2>1, <2>2, <2>3, <2>4, TransitionSources
<1>9. ASSUME NEW w \in Workers, Complete(w) \/ Fail(w) PROVE Kept
  <2> DEFINE q == job[w]
  <2>1. PICK outcome \in WorkerOutcomes : FinishRow(q, w, outcome)
    BY <1>9 DEF Complete, Fail, WorkerOutcomes
  <2>2. q \in Runs /\ UNCHANGED <<agentStarts, events>>
    BY <1>9 DEF Complete, Fail, FinishRow, HoldsClaim
  <2> HIDE DEF q
  <2>3. /\ status[q] \in {"claimed", "running"} /\ status' = [status EXCEPT ![q] = outcome]
        /\ Phase(outcome) = "over"
    BY <2>1, PhaseFacts DEF FinishRow, HoldsLease, LeasedStatuses, WorkerOutcomes
  <2>4. Promise!End({q})
    <3>1. PhaseOf' = [r \in Runs |-> IF r \in {q} THEN "over" ELSE PhaseOf[r]]
      BY <2>2, <2>3 DEF PhaseOf, TypeOK, LedgerTypeOK
    <3>2. \A r \in {q} : PhaseOf[r] = "working"
      BY <2>2, <2>3, PhaseFacts DEF PhaseOf
    <3> QED
      BY <1>0, <2>2, <3>1, <3>2 DEF PhaseOf, RefusedOf, Promise!End
  <2> QED
    BY <2>2, <2>4 DEF Promise!Next
<1>10. ASSUME NEW w \in Workers,
              \/ ClaimNothing(w) \/ TurnAway(w) \/ Check(w) \/ LeaseLost(w) \/ Raise(w)
              \/ FailLost(w) \/ Ack(w) \/ Crash(w)
              \/ \E e \in EventTypes : NextEvent(w, e)
              \/ \E r \in Runs : Deliver(w, r)
       PROVE  Kept
  BY <1>1, <1>10 DEF ClaimNothing, TurnAway, Goto, Check, LeaseLost, Raise, FailLost, Ack, Crash, LeaveWorker, NextEvent, HeartbeatRow, Deliver, ledger, rows
<1>11. ASSUME NEW r \in Runs,
              \/ Submit(r) \/ Count(r) \/ Refuse(r) \/ Replay(r) \/ Republish(r)
              \/ Age(r) \/ LoseMessage(r)
       PROVE  Kept
  BY <1>1, <1>11 DEF Submit, BeginAdmission, Count, CountRows, Refuse, RefuseRow, Replay, Republish, Age, HeartbeatAges, LoseMessage, ledger, rows
<1>12. ASSUME (\E old \in SUBSET Runs : Reconcile(old)) \/ SetEmergencyStop PROVE Kept
  BY <1>1, <1>12 DEF Reconcile, SetEmergencyStop, ledger, rows
<1>13. ASSUME NEW w \in Workers, AppendEvent(w) PROVE Kept
  <2>0. PICK q \in Runs : q = job[w]
    BY <1>13 DEF AppendEvent, HoldsClaim, TryBlock
  <2>1. /\ q \in Runs /\ events' = [events EXCEPT ![q] = Append(@, event[w])]
        /\ pc[w] = "append" /\ status[q] \notin NotYetClaimed
        /\ UNCHANGED <<status, agentStarts>>
    BY <1>13, <2>0 DEF AppendEvent, AppendRow, HoldsClaim, TryBlock
  <2>2. \/ agentStarts[q] = 1
        \/ agentStarts[q] = 0 /\ events[q] = << >> /\ event[w] = "error"
    BY <2>0, <2>1 DEF StartedOnce
  <2>3. UNCHANGED PhaseOf
    BY <2>1 DEF PhaseOf
  <2>4. events \in [Runs -> Seq(EventTypes)] /\ \A r \in Runs : r # q => events'[r] = events[r]
    BY <2>1 DEF TypeOK, LedgerTypeOK
  <2>5. CASE agentStarts[q] = 1
    <3>1. \A r \in Runs : TurnedAway(r)' = TurnedAway(r)
      BY <2>1, <2>4, <2>5 DEF TurnedAway
    <3>2. UNCHANGED RefusedOf
      BY <3>1 DEF RefusedOf
    <3> QED
      BY <2>1, <2>3, <3>2
  <2>6. CASE agentStarts[q] = 0 /\ events[q] = << >> /\ event[w] = "error"
    <3>1. events'[q] = Append(<< >>, "error")
      BY <2>1, <2>4, <2>6
    <3>2. TurnedAway(q)' /\ ~TurnedAway(q)
      <4>1. events[q] # <<"error">>
        BY <2>6
      <4>2. events'[q] = <<"error">>
        BY <3>1
      <4>3. agentStarts'[q] = 0
        BY <2>1, <2>6
      <4> QED
        BY <4>1, <4>2, <4>3 DEF TurnedAway
    <3>3. \A r \in Runs : TurnedAway(r)' = IF r = q THEN TRUE ELSE TurnedAway(r)
      BY <2>1, <2>4, <3>2 DEF TurnedAway
    <3>4. RefusedOf' = [RefusedOf EXCEPT ![q] = TRUE]
      BY <3>3 DEF RefusedOf
    <3>5. Phase(status[q]) \notin {"absent", "waiting"}
      BY <2>1, EarlyPhases DEF TypeOK, LedgerTypeOK
    <3>6. Promise!Untouched(q)
      BY <2>1, <2>6, <3>2, <3>5 DEF Promise!Untouched
    <3>7. Promise!TurnAway(q)
      BY <2>1, <2>3, <3>4, <3>6 DEF Promise!TurnAway, PhaseOf, RefusedOf
    <3> QED
      BY <2>1, <3>7 DEF Promise!Next
  <2> QED
    BY <2>2, <2>5, <2>6
<1> HIDE DEF Kept
<1>14. Kept
  BY <1>13, <1>2, <1>3, <1>4, <1>5, <1>6, <1>7, <1>8, <1>9, <1>10, <1>11, <1>12 DEF Next, WorkerStep
<1> QED
  BY <1>14 DEF Kept

\* Seen from outside, whatever workers, messages and beat tasks do, a run
\* waits, is executed once or turned away, and is over: the runtime implements
\* the abstract specification.
THEOREM RuntimeKeepsPromise == Spec => KeepsPromise
<1>1. Init => Promise!Init
  <2> SUFFICES ASSUME Init PROVE Promise!Init
    OBVIOUS
  <2>1. /\ status = [r \in Runs |-> "absent"] /\ agentStarts = [r \in Runs |-> 0]
        /\ \A r \in Runs : events[r] = << >>
    BY DEF Init, LedgerInit
  <2>2. \A r \in Runs : TurnedAway(r) = FALSE
    <3>1. << >> # <<"error">>
      OBVIOUS
    <3> QED
      BY <2>1, <3>1 DEF TurnedAway
  <2> QED
    BY <2>1, <2>2, PhaseFacts DEF Promise!Init
<1>2. ClaimDiscipline /\ [Next]_vars => [Promise!Next]_(Promise!vars)
  <2>1. ASSUME UNCHANGED vars PROVE UNCHANGED <<PhaseOf, agentStarts, RefusedOf>>
    BY <2>1 DEF vars, ledger, rows, PhaseOf, RefusedOf, TurnedAway
  <2> QED
    BY <2>1, PromiseStep DEF PhaseOf, RefusedOf, Promise!vars
<1> QED
  BY <1>1, <1>2, ClaimDisciplineHolds, PTL DEF Spec, KeepsPromise, Promise!Spec
=============================================================================
