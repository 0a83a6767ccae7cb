----------------------------- MODULE RunLedger -----------------------------
(***************************************************************************)
(* The durable run ledger: the rows of TerminalAgentRunModel with their    *)
(* execution checkpoint and event log, and the operations of               *)
(* TerminalAgentRunRepository.  An operation on a stored run is one        *)
(* database transaction under the lock of its row, hence one atomic        *)
(* action.  An admission is not: it holds the admission anchors (rows of   *)
(* the user table) while it counts the runs four times, and a worker that  *)
(* claims, moves or settles a run takes the row of that run alone, so any  *)
(* of them may commit between two counts.                                  *)
(*                                                                         *)
(* A run stands for the pair (run_id, (actor, client_request_id)) of the   *)
(* row that won its admission: a submission whose digest, task or run_id   *)
(* differs from the stored row is refused and changes nothing.             *)
(***************************************************************************)
EXTENDS RunContract, Integers, Sequences, FiniteSets

CONSTANTS
  Runs,                \* run identities
  Users,               \* authenticated actors
  Owner,               \* Owner[r] is the actor that submits run r
  Workers,             \* delivery-scoped worker identities (hostname:pid:uuid)
  NoWorker,            \* claimed_by IS NULL
  PerUserActiveLimit, PerUserQueuedLimit,    \* TERMINAL_PER_USER_*_LIMIT
  GlobalActiveLimit, GlobalQueuedLimit,      \* TERMINAL_GLOBAL_*_LIMIT
  MaxEvents            \* bound: events appended to one run

ASSUME OwnerAssumption == Owner \in [Runs -> Users]
ASSUME NoWorkerAssumption == NoWorker \notin Workers
ASSUME FiniteAssumption == IsFiniteSet(Runs)
ASSUME LimitAssumption ==
  /\ PerUserActiveLimit \in Nat \ {0} /\ PerUserQueuedLimit \in Nat \ {0}
  /\ GlobalActiveLimit \in Nat \ {0}  /\ GlobalQueuedLimit \in Nat \ {0}
ASSUME MaxEventsAssumption == MaxEvents \in Nat

VARIABLES
  status,      \* dispatch_status, or "absent"
  claimedBy,   \* claimed_by: never cleared once a worker has claimed the row
  stale,       \* heartbeat_at is older than TERMINAL_AGENT_ORPHAN_AFTER_SECONDS
  checkpoint,  \* the TerminalAgentRunExecutionModel row
  events,      \* the event log: event types in sequence order, 1, 2, ...
  admission    \* the admission under way: which count of its run comes next

rows   == <<status, claimedBy, stale, checkpoint, events>>
ledger == <<rows, admission>>

\* The four counts of _assert_admission_capacity in the order they are read;
\* an admission at "last" has only the fourth before it.
Counts == {"user_active", "user_queued", "global_active", "last"}

EventTypes  == {"progress", "approval_required", "error"}
ErrorCodes  == {"none", "execution_failed", "heartbeat_stale"}
Checkpoints == [started : BOOLEAN, finished : BOOLEAN,
                error : ErrorCodes, result : BOOLEAN]
NoCheckpoint == [started |-> FALSE, finished |-> FALSE,
                 error |-> "none", result |-> FALSE]

LedgerTypeOK ==
  /\ status \in [Runs -> RowStatus]
  /\ claimedBy \in [Runs -> Workers \cup {NoWorker}]
  /\ stale \in [Runs -> BOOLEAN]
  /\ checkpoint \in [Runs -> Checkpoints]
  /\ events \in [Runs -> Seq(EventTypes)]
  /\ admission \in [Runs -> Counts \cup {"none"}]

LedgerInit ==
  /\ status = [r \in Runs |-> "absent"]
  /\ claimedBy = [r \in Runs |-> NoWorker]
  /\ stale = [r \in Runs |-> FALSE]
  /\ checkpoint = [r \in Runs |-> NoCheckpoint]
  /\ events = [r \in Runs |-> << >>]
  /\ admission = [r \in Runs |-> "none"]

----------------------------------------------------------------------------
\* Admission.

RunsIn(S)        == {r \in Runs : status[r] \in S}
UserRunsIn(u, S) == {r \in RunsIn(S) : Owner[r] = u}

\* The anchors, which every admission locks before anything else.
AnchorsFree == \A r \in Runs : admission[r] = "none"

\* Mutant: the capacity is counted without the anchors.
BeginAdmission_NoLock(r) ==
  /\ status[r] = "absent"
  /\ admission[r] = "none"
  /\ admission' = [admission EXCEPT ![r] = "user_active"]
  /\ UNCHANGED rows

\* _lock_admission_anchors, and no row is stored for this submission yet.
BeginAdmission(r) ==
  /\ status[r] = "absent"
  /\ AnchorsFree
  /\ admission' = [admission EXCEPT ![r] = "user_active"]
  /\ UNCHANGED rows

\* The order of the counts: the active rows of the actor, its queued rows, the
\* active rows of everybody, the queued rows of everybody.
Below(r, count) ==
  CASE count = "user_active"   ->
         Cardinality(UserRunsIn(Owner[r], ActiveStatuses)) < PerUserActiveLimit
    [] count = "user_queued"   ->
         Cardinality(UserRunsIn(Owner[r], {"queued"})) < PerUserQueuedLimit
    [] count = "global_active" ->
         Cardinality(RunsIn(ActiveStatuses)) < GlobalActiveLimit
    [] OTHER                   ->
         Cardinality(RunsIn({"queued"})) < GlobalQueuedLimit

NextCount(count) ==
  CASE count = "user_active" -> "user_queued"
    [] count = "user_queued" -> "global_active"
    [] OTHER                 -> "last"

CountRows(r) ==
  /\ admission[r] \in Counts \ {"last"}
  /\ Below(r, admission[r])
  /\ admission' = [admission EXCEPT ![r] = NextCount(@)]
  /\ UNCHANGED rows

\* The last count and the insert, whose commit releases the anchors.  Queued
\* rows only become fewer while they are held: the two are one step.  The row
\* is unique.
AdmitRow(r) ==
  /\ status[r] = "absent"
  /\ admission[r] = "last"
  /\ Below(r, "last")
  /\ status' = [status EXCEPT ![r] = "queued"]
  /\ admission' = [admission EXCEPT ![r] = "none"]
  /\ UNCHANGED <<claimedBy, stale, checkpoint, events>>

\* A limit is reached, another check refuses, or the request dies: rolled back.
RefuseRow(r) ==
  /\ admission[r] # "none"
  /\ admission' = [admission EXCEPT ![r] = "none"]
  /\ UNCHANGED rows

----------------------------------------------------------------------------
\* Worker operations.  HoldsLease is the row filter of heartbeat,
\* append_event and mark_started: a row that does not match returns None.

HoldsLease(r, w, S) == claimedBy[r] = w /\ status[r] \in S

\* Mutant: a claimed row may be claimed again.
ClaimRow_Reclaims(r, w) ==
  /\ status[r] \in LeasedStatuses \cup {"queued"}
  /\ status' = [status EXCEPT ![r] = "claimed"]
  /\ claimedBy' = [claimedBy EXCEPT ![r] = w]
  /\ stale' = [stale EXCEPT ![r] = FALSE]
  /\ UNCHANGED <<checkpoint, events, admission>>

ClaimRow(r, w) ==
  /\ status[r] = "queued"
  /\ status' = [status EXCEPT ![r] = "claimed"]
  /\ claimedBy' = [claimedBy EXCEPT ![r] = w]
  /\ stale' = [stale EXCEPT ![r] = FALSE]
  /\ UNCHANGED <<checkpoint, events, admission>>

\* Mutant: mark_started forgets the checkpoint.
StartRow_RowOnly(r, w) ==
  /\ HoldsLease(r, w, {"claimed"})
  /\ status' = [status EXCEPT ![r] = "running"]
  /\ stale' = [stale EXCEPT ![r] = FALSE]
  /\ UNCHANGED <<claimedBy, checkpoint, events, admission>>

StartRow(r, w) ==
  /\ HoldsLease(r, w, {"claimed"})
  /\ status' = [status EXCEPT ![r] = "running"]
  /\ stale' = [stale EXCEPT ![r] = FALSE]
  /\ checkpoint' = [checkpoint EXCEPT ![r].started = TRUE]
  /\ UNCHANGED <<claimedBy, events, admission>>

HeartbeatRow(r, w) ==
  /\ HoldsLease(r, w, ActiveStatuses)
  /\ stale' = [stale EXCEPT ![r] = FALSE]
  /\ UNCHANGED <<status, claimedBy, checkpoint, events, admission>>

AppendRow(r, w, e) ==
  /\ HoldsLease(r, w, ActiveStatuses)
  /\ Len(events[r]) < MaxEvents
  /\ events' = [events EXCEPT ![r] = Append(@, e)]
  /\ UNCHANGED <<status, claimedBy, stale, checkpoint, admission>>

\* transition with a worker_id.  WorkerTargets are the targets the code asks
\* for; no caller requeues a row or moves it without naming the worker.
WorkerTargets  == {"cancelled", "waiting_approval"}
WorkerOutcomes == {"completed", "failed"}

TransitionRow(r, w, target) ==
  /\ claimedBy[r] = w
  /\ status[r] # "absent"
  /\ CanTransition(status[r], target)
  /\ status' = [status EXCEPT ![r] = target]
  /\ UNCHANGED <<claimedBy, stale, checkpoint, events, admission>>

\* Mutant: mark_finished trusts the transition graph alone.
FinishRow_AnyStatus(r, w, outcome) ==
  /\ HoldsLease(r, w, RunStatus)
  /\ CanTransition(status[r], outcome)
  /\ status' = [status EXCEPT ![r] = outcome]
  /\ checkpoint' = [checkpoint EXCEPT ![r].finished = TRUE,
                                      ![r].result = (outcome = "completed")]
  /\ UNCHANGED <<claimedBy, stale, events, admission>>

\* mark_finished: the lease must still be claimed or running.
FinishRow(r, w, outcome) ==
  /\ HoldsLease(r, w, LeasedStatuses)
  /\ CanTransition(status[r], outcome)
  /\ status' = [status EXCEPT ![r] = outcome]
  /\ stale' = [stale EXCEPT ![r] = FALSE]
  /\ checkpoint' = [checkpoint EXCEPT ![r] =
       [started  |-> @.started,
        finished |-> TRUE,
        error    |-> IF outcome = "failed" THEN "execution_failed" ELSE "none",
        result   |-> outcome = "completed"]]
  /\ UNCHANGED <<claimedBy, events, admission>>

----------------------------------------------------------------------------
\* Owner and maintenance operations.

\* Mutant: everything that is not final may be cancelled.
CancelRow_AnyOpen(r) ==
  /\ status[r] \notin TerminalStatuses \cup {"absent", "cancel_requested"}
  /\ status' = [status EXCEPT ![r] = "cancel_requested"]
  /\ UNCHANGED <<claimedBy, stale, checkpoint, events, admission>>

CancelRow(r) ==
  /\ status[r] \in CancellableStatuses
  /\ status' = [status EXCEPT ![r] = "cancel_requested"]
  /\ UNCHANGED <<claimedBy, stale, checkpoint, events, admission>>

\* Mutant: the reaper forgets the runs that were claimed and never started.
StaleRuns_RunningOnly == {r \in RunsIn({"running"}) : stale[r]}

StaleRuns == {r \in RunsIn(LeasedStatuses) : stale[r]}

\* Mutants: the reaper requeues, leaves the checkpoint, writes no status value.
ReapRows_Requeues ==
  /\ StaleRuns # {}
  /\ status' = [r \in Runs |-> IF r \in StaleRuns THEN "queued" ELSE status[r]]
  /\ UNCHANGED <<claimedBy, stale, checkpoint, events, admission>>

ReapRows_RowOnly ==
  /\ StaleRuns # {}
  /\ status' = [r \in Runs |-> IF r \in StaleRuns THEN "orphaned" ELSE status[r]]
  /\ UNCHANGED <<claimedBy, stale, checkpoint, events, admission>>

\* reap_stale orphans every stale lease in one transaction; it never requeues.
ReapRows ==
  /\ StaleRuns # {}
  /\ status' = [r \in Runs |-> IF r \in StaleRuns THEN "orphaned" ELSE status[r]]
  /\ checkpoint' = [r \in Runs |->
       IF r \in StaleRuns
       THEN [checkpoint[r] EXCEPT !.finished = FALSE, !.error = "heartbeat_stale"]
       ELSE checkpoint[r]]
  /\ UNCHANGED <<claimedBy, stale, events, admission>>

\* The clock: a leased row nobody refreshes for long enough becomes stale,
\* whether its worker is dead or only slow.
HeartbeatAges(r) ==
  /\ status[r] \in LeasedStatuses
  /\ ~stale[r]
  /\ stale' = [stale EXCEPT ![r] = TRUE]
  /\ UNCHANGED <<status, claimedBy, checkpoint, events, admission>>

----------------------------------------------------------------------------
\* The ledger on its own: its callers may ask for any operation, in any order
\* and as any worker.  TerminalAgentRun gives the callers the code has.

LedgerNext ==
  \/ ReapRows
  \/ \E r \in Runs :
       \/ BeginAdmission(r) \/ CountRows(r) \/ AdmitRow(r) \/ RefuseRow(r)
       \/ CancelRow(r) \/ HeartbeatAges(r)
       \/ \E w \in Workers :
            \/ ClaimRow(r, w) \/ StartRow(r, w) \/ HeartbeatRow(r, w)
            \/ \E target \in WorkerTargets : TransitionRow(r, w, target)
            \/ \E outcome \in WorkerOutcomes : FinishRow(r, w, outcome)
            \/ \E e \in EventTypes : AppendRow(r, w, e)

LedgerSpec == LedgerInit /\ [][LedgerNext]_ledger

----------------------------------------------------------------------------
\* Properties.

\* Every status a row takes is reached along an edge of the frozen graph,
\* although claim, mark_started, cancel and reap_stale write the status
\* without consulting transition_terminal_run.
MovesAlongEdge(r) ==
  status'[r] # status[r] =>
    \/ status[r] = "absent" /\ status'[r] = "queued"
    \/ status[r] # "absent" /\ status'[r] \in AllowedTransitions[status[r]]

LegalEdges == [][\A r \in Runs : MovesAlongEdge(r)]_ledger

\* "A late worker/event cannot overwrite a terminal state": a terminal or
\* orphaned run keeps its status, its checkpoint and its event log whatever
\* its old worker, its owner, a redelivery or the reaper still ask for.
SettledStatuses == TerminalStatuses \cup {"orphaned"}

StaysIfSettled(r) ==
  status[r] \in SettledStatuses =>
    /\ status'[r] = status[r]
    /\ checkpoint'[r] = checkpoint[r]
    /\ events'[r] = events[r]

SettledStays == [][\A r \in Runs : StaysIfSettled(r)]_ledger

\* The two tables agree: mark_finished and reap_stale write the row and the
\* execution checkpoint so that a result, an execution error and the stale
\* heartbeat evidence each belong to exactly one final status.
CheckpointAgrees ==
  \A r \in Runs :
    /\ checkpoint[r].result <=> status[r] = "completed"
    /\ checkpoint[r].error = "execution_failed" <=> status[r] = "failed"
    /\ checkpoint[r].error = "heartbeat_stale" <=> status[r] = "orphaned"
    /\ checkpoint[r].finished <=> status[r] \in WorkerOutcomes

\* What the admission check really bounds, although claims commit between its
\* counts and a run claimed after the active rows were counted and before the
\* queued rows were is in neither: queued rows stay within their limit, and
\* queued plus active rows within the sum of both limits, per user and overall.
\* (The sum less one, which four counts of one instant would give, is exceeded.)
WaitingOrActive == {"queued"} \cup ActiveStatuses

LoadBounded ==
  /\ \A u \in Users :
       /\ Cardinality(UserRunsIn(u, {"queued"})) <= PerUserQueuedLimit
       /\ Cardinality(UserRunsIn(u, WaitingOrActive)) <= PerUserActiveLimit + PerUserQueuedLimit
  /\ Cardinality(RunsIn({"queued"})) <= GlobalQueuedLimit
  /\ Cardinality(RunsIn(WaitingOrActive)) <= GlobalActiveLimit + GlobalQueuedLimit

\* Why it holds: there is one admission at a time, and what its counts have
\* found stays true until it inserts, because only an admission adds to the load.
OneAdmission ==
  \A r, q \in Runs : admission[r] # "none" /\ admission[q] # "none" => r = q

StillCounts ==
  \A r \in Runs :
    /\ admission[r] \in {"user_queued", "global_active", "last"} =>
         Cardinality(UserRunsIn(Owner[r], WaitingOrActive))
           < PerUserActiveLimit + PerUserQueuedLimit
    /\ admission[r] \in {"global_active", "last"} =>
         Cardinality(UserRunsIn(Owner[r], {"queued"})) < PerUserQueuedLimit
    /\ admission[r] = "last" =>
         Cardinality(RunsIn(WaitingOrActive)) < GlobalActiveLimit + GlobalQueuedLimit

AdmissionDiscipline == LoadBounded /\ OneAdmission /\ StillCounts
=============================================================================
