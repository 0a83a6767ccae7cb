-------------------------- MODULE TerminalAgentRun --------------------------
(***************************************************************************)
(* The queued terminal-agent runtime around the run ledger: the web API    *)
(* (TerminalQueuedRunView), the Celery worker (execute_terminal_agent_run),*)
(* the two beat tasks (reconcile_queued_terminal_agent_dispatch and        *)
(* reap_stale_terminal_agent_runs) and the broker between them.            *)
(*                                                                         *)
(* A worker identity is fresh for every delivery (uuid4).  A finite set of *)
(* identities suffices: one is given to a new delivery only when neither a *)
(* live delivery nor a ledger row mentions it, which no observer can tell  *)
(* from a fresh one.                                                       *)
(***************************************************************************)
EXTENDS RunLedger

CONSTANTS
  NoRun,          \* the job of an idle worker
  MaxMessages     \* bound: unacknowledged broker messages per run

ASSUME NoRunAssumption == NoRun \notin Runs
ASSUME MaxMessagesAssumption == MaxMessages \in Nat \ {0}

VARIABLES
  pc,             \* where each delivery is in execute_terminal_agent_run
  job,            \* the run_id it was handed
  event,          \* the stream event it is persisting
  broker,         \* messages waiting in the terminal_agent queue, per run
  batch,          \* ids the reconciler has read and not yet re-published
  emergencyStop,  \* TERMINAL_EMERGENCY_STOP
  agentStarts     \* how often the service went past its guard and executed the run

delivery == <<pc, job, event>>
vars == <<ledger, delivery, broker, batch, emergencyStop, agentStarts>>

\* The delivery believes it owns the lease.  "refused" is the stream of a service
\* that executes nothing, "fail" the handler of the try block, "return" the point
\* before the acknowledgement.
TryBlock == {"start", "input", "refused", "stream", "append", "check", "cancel", "park"}
PCs      == {"idle", "claim", "fail", "return"} \cup TryBlock

TypeOK ==
  /\ LedgerTypeOK
  /\ pc \in [Workers -> PCs]
  /\ job \in [Workers -> Runs \cup {NoRun}]
  /\ event \in [Workers -> EventTypes \cup {"none"}]
  /\ broker \in [Runs -> Nat]
  /\ batch \subseteq Runs
  /\ emergencyStop \in BOOLEAN
  /\ agentStarts \in [Runs -> Nat]

Init ==
  /\ LedgerInit
  /\ pc = [w \in Workers |-> "idle"]
  /\ job = [w \in Workers |-> NoRun]
  /\ event = [w \in Workers |-> "none"]
  /\ broker = [r \in Runs |-> 0]
  /\ batch = {}
  /\ emergencyStop = FALSE
  /\ agentStarts = [r \in Runs |-> 0]

----------------------------------------------------------------------------
\* The broker, modelled from its use: at-least-once, and it may lose messages.

Unacked(r) == broker[r] + Cardinality({w \in Workers : job[w] = r})

Publish(r) ==
  /\ Unacked(r) < MaxMessages
  /\ broker' = [broker EXCEPT ![r] = @ + 1]

\* A publish is best effort: _dispatch_queued_run and the reconciler swallow
\* the exception of a failed one.
TryPublish(r) == Publish(r) \/ UNCHANGED broker

LoseMessage(r) ==
  /\ broker[r] > 0
  /\ broker' = [broker EXCEPT ![r] = @ - 1]
  /\ UNCHANGED <<ledger, delivery, batch, emergencyStop, agentStarts>>

----------------------------------------------------------------------------
\* The web API.  Every route refuses while the emergency stop is set.

Submit(r) ==
  /\ ~emergencyStop
  /\ BeginAdmission(r)
  /\ UNCHANGED <<delivery, broker, batch, emergencyStop, agentStarts>>

\* The transaction goes on although the stop may be set meanwhile; its on_commit
\* hook publishes the run.
Count(r) ==
  /\ CountRows(r)
  /\ UNCHANGED <<delivery, broker, batch, emergencyStop, agentStarts>>

Admit(r) ==
  /\ AdmitRow(r)
  /\ TryPublish(r)
  /\ UNCHANGED <<delivery, batch, emergencyStop, agentStarts>>

Refuse(r) ==
  /\ RefuseRow(r)
  /\ UNCHANGED <<delivery, broker, batch, emergencyStop, agentStarts>>

\* The same submission again locks the anchors, finds the stored row, whatever
\* its status, and the on_commit hook publishes it again.
Replay(r) ==
  /\ ~emergencyStop
  /\ AnchorsFree
  /\ status[r] # "absent"
  /\ TryPublish(r)
  /\ UNCHANGED <<ledger, delivery, batch, emergencyStop, agentStarts>>

Cancel(r) ==
  /\ ~emergencyStop
  /\ CancelRow(r)
  /\ UNCHANGED <<delivery, broker, batch, emergencyStop, agentStarts>>

\* The operator redeploys with the other value of TERMINAL_EMERGENCY_STOP.
SetEmergencyStop ==
  /\ emergencyStop' = ~emergencyStop
  /\ UNCHANGED <<ledger, delivery, broker, batch, agentStarts>>

----------------------------------------------------------------------------
\* The beat tasks.

\* Mutant: the reconciler looks for accepted rows, which no code writes.
Reconcile_Accepted(old) ==
  /\ ~emergencyStop
  /\ batch = {}
  /\ old # {}
  /\ old \subseteq RunsIn({"accepted"})
  /\ batch' = old
  /\ UNCHANGED <<ledger, delivery, broker, emergencyStop, agentStarts>>

\* list_queued_for_dispatch: queued rows past the grace period; old is the
\* set the clock has let through.
Reconcile(old) ==
  /\ ~emergencyStop
  /\ batch = {}
  /\ old # {}
  /\ old \subseteq RunsIn({"queued"})
  /\ batch' = old
  /\ UNCHANGED <<ledger, delivery, broker, emergencyStop, agentStarts>>

\* By now the row may have left the queued state: the id is published anyway.
Republish(r) ==
  /\ r \in batch
  /\ batch' = batch \ {r}
  /\ TryPublish(r)
  /\ UNCHANGED <<ledger, delivery, emergencyStop, agentStarts>>

Reap ==
  /\ ReapRows
  /\ UNCHANGED <<delivery, broker, batch, emergencyStop, agentStarts>>

Age(r) ==
  /\ HeartbeatAges(r)
  /\ UNCHANGED <<delivery, broker, batch, emergencyStop, agentStarts>>

----------------------------------------------------------------------------
\* One delivery of execute_terminal_agent_run.

Goto(w, label) ==
  /\ pc' = [pc EXCEPT ![w] = label]
  /\ UNCHANGED <<job, event, broker, batch, emergencyStop>>

Fresh(w) == pc[w] = "idle" /\ \A r \in Runs : claimedBy[r] # w

Deliver(w, r) ==
  /\ Fresh(w)
  /\ broker[r] > 0
  /\ broker' = [broker EXCEPT ![r] = @ - 1]
  /\ job' = [job EXCEPT ![w] = r]
  /\ pc' = [pc EXCEPT ![w] = IF emergencyStop THEN "return" ELSE "claim"]
  /\ UNCHANGED <<ledger, event, batch, emergencyStop, agentStarts>>

Claim(w) ==
  /\ pc[w] = "claim"
  /\ ClaimRow(job[w], w)
  /\ Goto(w, "start")
  /\ UNCHANGED agentStarts

\* Somebody else won the row ("noop"), or the claim raised outside the try.
ClaimNothing(w) ==
  /\ pc[w] = "claim"
  /\ Goto(w, "return")
  /\ UNCHANGED <<ledger, agentStarts>>

Start(w) ==
  /\ pc[w] = "start"
  /\ StartRow(job[w], w)
  /\ Goto(w, "input")
  /\ UNCHANGED agentStarts

\* get_worker_input succeeded.  stream_chat executes the Agent to its end before
\* it yields the first event ...
StartAgent(w) ==
  /\ pc[w] = "input"
  /\ agentStarts' = [agentStarts EXCEPT ![job[w]] = @ + 1]
  /\ Goto(w, "stream")
  /\ UNCHANGED ledger

\* ... or finds the execution guard busy (or no Agents SDK): it executes nothing
\* and yields one error event, which the task handles like any other event.
TurnAway(w) ==
  /\ pc[w] = "input"
  /\ Goto(w, "refused")
  /\ UNCHANGED <<ledger, agentStarts>>

\* The stream yields an event: the heartbeat comes first.
NextEvent(w, e) ==
  /\ pc[w] = "stream" \/ (pc[w] = "refused" /\ e = "error")
  /\ Len(events[job[w]]) < MaxEvents
  /\ HeartbeatRow(job[w], w)
  /\ pc' = [pc EXCEPT ![w] = "append"]
  /\ event' = [event EXCEPT ![w] = e]
  /\ UNCHANGED <<job, broker, batch, emergencyStop, agentStarts>>

AppendEvent(w) ==
  /\ pc[w] = "append"
  /\ AppendRow(job[w], w, event[w])
  /\ Goto(w, "check")
  /\ UNCHANGED agentStarts

\* Mutant: an error event does not stop the loop.
AfterEvent_Continues(w) ==
  CASE status[job[w]] = "cancel_requested" -> "cancel"
    [] event[w] = "approval_required"      -> "park"
    [] OTHER                               -> "stream"

\* get_for_owner is a read of its own: the row may have been cancelled since.
AfterEvent(w) ==
  CASE status[job[w]] = "cancel_requested" -> "cancel"
    [] event[w] = "approval_required"      -> "park"
    [] event[w] = "error"                  -> "fail"
    [] OTHER                               -> "stream"

Check(w) ==
  /\ pc[w] = "check"
  /\ pc' = [pc EXCEPT ![w] = AfterEvent(w)]
  /\ event' = [event EXCEPT ![w] = "none"]
  /\ UNCHANGED <<ledger, job, broker, batch, emergencyStop, agentStarts>>

TransitionTarget(w) == IF pc[w] = "cancel" THEN "cancelled" ELSE "waiting_approval"

\* The cancellation is acknowledged, or the run parked for an approval.
Yield(w) ==
  /\ pc[w] \in {"cancel", "park"}
  /\ TransitionRow(job[w], w, TransitionTarget(w))
  /\ Goto(w, "return")
  /\ UNCHANGED agentStarts

\* The stream is exhausted.
Complete(w) ==
  /\ pc[w] = "stream"
  /\ FinishRow(job[w], w, "completed")
  /\ Goto(w, "return")
  /\ UNCHANGED agentStarts

Fail(w) ==
  /\ pc[w] = "fail"
  /\ FinishRow(job[w], w, "failed")
  /\ Goto(w, "return")
  /\ UNCHANGED agentStarts

\* The filter each lifecycle write applies; a miss is _TerminalWorkerLeaseLost.
Required(w) ==
  CASE pc[w] = "start"              -> {"claimed"}
    [] pc[w] = "append"             -> ActiveStatuses
    [] pc[w] = "fail"               -> LeasedStatuses
    [] OTHER                        -> RunStatus

LeaseLost(w) ==
  /\ \/ /\ pc[w] \in {"start", "append", "cancel", "park", "fail"}
        /\ ~HoldsLease(job[w], w, Required(w))
     \/ /\ pc[w] \in {"stream", "refused"}               \* heartbeat
        /\ ~HoldsLease(job[w], w, ActiveStatuses)
     \/ /\ pc[w] = "stream"                              \* mark_finished
        /\ ~HoldsLease(job[w], w, LeasedStatuses)
  /\ pc' = [pc EXCEPT ![w] = "return"]
  /\ event' = [event EXCEPT ![w] = "none"]
  /\ UNCHANGED <<ledger, job, broker, batch, emergencyStop, agentStarts>>

\* An exception in the try block: an input that cannot be read, a service that
\* raises, a refused transition, a database error, the soft limit.
Raise(w) ==
  /\ pc[w] \in TryBlock
  /\ pc' = [pc EXCEPT ![w] = "fail"]
  /\ event' = [event EXCEPT ![w] = "none"]
  /\ UNCHANGED <<ledger, job, broker, batch, emergencyStop, agentStarts>>

\* The failure checkpoint itself raises and is dropped.
FailLost(w) ==
  /\ pc[w] = "fail"
  /\ Goto(w, "return")
  /\ UNCHANGED <<ledger, agentStarts>>

LeaveWorker(w) ==
  /\ pc' = [pc EXCEPT ![w] = "idle"]
  /\ job' = [job EXCEPT ![w] = NoRun]
  /\ event' = [event EXCEPT ![w] = "none"]
  /\ UNCHANGED <<ledger, batch, emergencyStop, agentStarts>>

\* acks_late: the message is acknowledged after the task has returned.
Ack(w) ==
  /\ pc[w] = "return"
  /\ LeaveWorker(w)
  /\ UNCHANGED broker

\* The process dies.  reject_on_worker_lost requeues the message; the hard
\* time limit acknowledges it.
Crash(w) ==
  /\ pc[w] # "idle"
  /\ LeaveWorker(w)
  /\ \/ broker' = [broker EXCEPT ![job[w]] = @ + 1]
     \/ UNCHANGED broker

----------------------------------------------------------------------------
WorkerStep(w) ==
  \/ Claim(w) \/ ClaimNothing(w) \/ Start(w) \/ StartAgent(w) \/ TurnAway(w)
  \/ \E e \in EventTypes : NextEvent(w, e)
  \/ AppendEvent(w) \/ Check(w) \/ Yield(w) \/ Complete(w)
  \/ Fail(w) \/ LeaseLost(w) \/ Raise(w) \/ FailLost(w) \/ Ack(w)

Next ==
  \/ \E r \in Runs :
       \/ Submit(r) \/ Count(r) \/ Admit(r) \/ Refuse(r) \/ Replay(r) \/ Cancel(r)
       \/ Republish(r) \/ Age(r) \/ LoseMessage(r)
  \/ \E old \in SUBSET Runs : Reconcile(old)
  \/ Reap \/ SetEmergencyStop
  \/ \E w \in Workers : WorkerStep(w) \/ Crash(w) \/ \E r \in Runs : Deliver(w, r)

Spec == Init /\ [][Next]_vars

----------------------------------------------------------------------------
\* Fairness.  Beat fires both maintenance tasks every minute, the grace period
\* and the heartbeat age are clock time, a worker process that lives goes on.
\* Publishing, receiving and claiming may fail any number of times but not
\* for ever, hence strong fairness.  Nothing is assumed of users, of the
\* Agent's stream, of crashes, of lost messages or of the operator.

WinClaim(r) == \E w \in Workers : job[w] = r /\ Claim(w)

Fairness ==
  /\ WF_vars(Reap)
  /\ \A w \in Workers : WF_vars(WorkerStep(w))
  /\ \A r \in Runs :
       /\ WF_vars(Age(r))
       /\ WF_vars(\E old \in SUBSET Runs : r \in old /\ Reconcile(old))
       /\ WF_vars(Republish(r))
       /\ SF_vars(Republish(r) /\ Publish(r))
       /\ SF_vars(\E w \in Workers : Deliver(w, r) /\ ~emergencyStop)
       /\ SF_vars(WinClaim(r))

FairSpec == Spec /\ Fairness

----------------------------------------------------------------------------
\* Safety.

\* First-winner claim: however often a message is duplicated, redelivered or
\* re-published, two deliveries never execute one run at the same time, not
\* even after the reaper has taken the lease away from a slow worker.
OneWorkerPerRun ==
  \A w, x \in Workers :
    pc[w] \in TryBlock /\ pc[x] \in TryBlock /\ job[w] = job[x] => w = x

\* At-least-once delivery, at most one Agent execution: a run whose worker
\* died or was reaped is never executed a second time.
AtMostOneExecution == \A r \in Runs : agentStarts[r] <= 1

\* An event that ends the stream (an approval request or an error) is the last
\* one of the log, and a run that logged one is never reported as completed.
StopEvents == {"approval_required", "error"}

StopEventIsFinal ==
  \A r \in Runs : \A i \in DOMAIN events[r] : events[r][i] \in StopEvents =>
    i = Len(events[r]) /\ status[r] # "completed"

\* An outcome the owner reads says what was executed: a completed or parked run
\* was started by its worker and its Agent executed, and so was a cancelled one,
\* unless the error event of a service that turned it away is its whole log.
TurnedAway(r) == agentStarts[r] = 0 /\ events[r] = <<"error">>

OutcomeWasExecuted ==
  \A r \in Runs :
    /\ status[r] \in {"completed", "waiting_approval"} => agentStarts[r] = 1
    /\ status[r] = "cancelled" => agentStarts[r] = 1 \/ TurnedAway(r)
    /\ status[r] \in {"completed", "waiting_approval", "cancelled"} => checkpoint[r].started

\* Why these hold, as an inductive invariant.  A delivery that has won the
\* claim is the claimed_by of its row for as long as it runs, and where it
\* stands in its code says what the row, its log and its Agent have seen.
NotYetClaimed == {"absent", "queued"}
Executing     == {"stream", "append", "check", "cancel", "park"}
Before        == {"start", "input", "refused"}

Unclaimed ==
  \A r \in Runs : status[r] \in NotYetClaimed =>
    claimedBy[r] = NoWorker /\ agentStarts[r] = 0 /\ events[r] = << >>

HoldsClaim ==
  \A w \in Workers :
    /\ pc[w] # "idle" => job[w] \in Runs
    /\ pc[w] \in TryBlock \cup {"fail"} =>
         claimedBy[job[w]] = w /\ status[job[w]] \notin NotYetClaimed

StartedOnce ==
  \A w \in Workers :
    /\ pc[w] \in Before => agentStarts[job[w]] = 0 /\ events[job[w]] = << >>
    /\ pc[w] \in {"stream", "park"} => agentStarts[job[w]] = 1
    /\ pc[w] = "append" => \/ agentStarts[job[w]] = 1
                           \/ /\ agentStarts[job[w]] = 0 /\ events[job[w]] = << >>
                              /\ event[w] = "error"
    /\ pc[w] = "check" => \/ agentStarts[job[w]] = 1
                          \/ TurnedAway(job[w]) /\ event[w] = "error"
    /\ pc[w] = "cancel" => agentStarts[job[w]] = 1 \/ TurnedAway(job[w])
    /\ pc[w] \in Executing \cup {"input", "refused"} => checkpoint[job[w]].started

LogSoFar ==
  \A w \in Workers :
    /\ pc[w] \in Before \cup {"stream", "append"} =>
         \A i \in DOMAIN events[job[w]] : events[job[w]][i] \notin StopEvents
    /\ pc[w] = "append" => event[w] \in EventTypes
    /\ pc[w] = "check" =>
         \A i \in DOMAIN events[job[w]] : events[job[w]][i] \in StopEvents =>
           i = Len(events[job[w]]) /\ event[w] \in StopEvents

ClaimDiscipline ==
  /\ TypeOK /\ Unclaimed /\ HoldsClaim /\ StartedOnce /\ LogSoFar
  /\ AtMostOneExecution /\ StopEventIsFinal /\ OutcomeWasExecuted

\* The runtime keeps the promise of RunPromise.
Phase(s) ==
  CASE s = "absent"            -> "absent"
    [] s = "queued"            -> "waiting"
    [] s \in LeasedStatuses    -> "working"
    [] s = "waiting_approval"  -> "parked"
    [] s = "cancel_requested"  -> "cancelling"
    [] OTHER                   -> "over"

Promise == INSTANCE RunPromise WITH
  phase <- [r \in Runs |-> Phase(status[r])], executions <- agentStarts,
  refused <- [r \in Runs |-> TurnedAway(r)]

KeepsPromise == Promise!Spec

----------------------------------------------------------------------------
\* Liveness.

\* A lease never lasts for ever: a run whose worker died, hung or lost its row
\* is finished, parked, cancelled or orphaned.
LeaseResolved == \A r \in Runs : status[r] \in LeasedStatuses ~> status[r] \notin LeasedStatuses

\* A committed admission is not forgotten: whatever happens to its message, a
\* queued run is claimed or cancelled once the emergency stop is lifted.
QueuedDispatched ==
  <>[]~emergencyStop => \A r \in Runs : status[r] = "queued" ~> status[r] # "queued"

----------------------------------------------------------------------------
\* What the documents say and the code does not do.

\* "queued/claimed/running/waiting_approval -> cancel_requested -> cancelled":
\* a cancelled run becomes cancelled.
CancellationCompletes ==
  \A r \in Runs : status[r] = "cancel_requested" ~> status[r] = "cancelled"
=============================================================================
