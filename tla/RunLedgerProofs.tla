-------------------------- MODULE RunLedgerProofs --------------------------
(***************************************************************************)
(* What the run ledger guarantees for every number of runs, actors,        *)
(* workers and limits, whatever its callers ask for.                       *)
(***************************************************************************)
EXTENDS RunLedger, FiniteSetTheorems, TLAPS

\* The facts about the transition graph the proofs below rest on.
LEMMA GraphFacts ==
  /\ AllowedTransitions \in [RunStatus -> SUBSET RunStatus]
  /\ AllowedTransitions["queued"] = {"claimed", "cancel_requested"}
  /\ AllowedTransitions["claimed"] = {"running", "cancel_requested", "completed",
                                      "failed", "timed_out", "orphaned"}
  /\ AllowedTransitions["running"] = {"waiting_approval", "cancel_requested",
                                      "completed", "failed", "timed_out", "orphaned"}
  /\ AllowedTransitions["waiting_approval"] = {"queued", "cancel_requested"}
  /\ AllowedTransitions["cancel_requested"] = {"cancelled"}
  /\ AllowedTransitions["orphaned"] = {"queued", "failed"}
  /\ AllowedTransitions["accepted"] = {"queued"}
  /\ \A s \in TerminalStatuses : AllowedTransitions[s] = {}
BY DEF AllowedTransitions, RunStatus, TerminalStatuses

\* The worker's two transitions leave exactly from the status the graph names.
LEMMA TransitionSources ==
  ASSUME NEW s \in RunStatus, NEW target \in WorkerTargets,
         CanTransition(s, target), s # target
  PROVE  \/ s = "running" /\ target = "waiting_approval"
         \/ s = "cancel_requested" /\ target = "cancelled"
BY GraphFacts DEF CanTransition, WorkerTargets, RunStatus, TerminalStatuses

----------------------------------------------------------------------------
\* Every operation keeps the types.
LEMMA LedgerTypeStep ==
  ASSUME LedgerTypeOK, LedgerNext
  PROVE  LedgerTypeOK'
<1> USE DEF LedgerTypeOK
<1>1. CASE ReapRows
  BY <1>1 DEF ReapRows, StaleRuns, RunsIn, RowStatus, RunStatus, Checkpoints, ErrorCodes
<1>2. ASSUME NEW r \in Runs,
             AdmitRow(r) \/ BeginAdmission(r) \/ CountRows(r) \/ RefuseRow(r)
      PROVE  LedgerTypeOK'
  BY <1>2 DEF AdmitRow, BeginAdmission, CountRows, NextCount, RefuseRow, Counts, rows,
     RowStatus, RunStatus
<1>3. ASSUME NEW r \in Runs, CancelRow(r) PROVE LedgerTypeOK'
  BY <1>3 DEF CancelRow, RowStatus, RunStatus
<1>4. ASSUME NEW r \in Runs, HeartbeatAges(r) PROVE LedgerTypeOK'
  BY <1>4 DEF HeartbeatAges
<1>5. ASSUME NEW r \in Runs, NEW w \in Workers, ClaimRow(r, w) PROVE LedgerTypeOK'
  BY <1>5 DEF ClaimRow, RowStatus, RunStatus
<1>6. ASSUME NEW r \in Runs, NEW w \in Workers, StartRow(r, w) PROVE LedgerTypeOK'
  BY <1>6 DEF StartRow, RowStatus, RunStatus, Checkpoints
<1>7. ASSUME NEW r \in Runs, NEW w \in Workers, HeartbeatRow(r, w) PROVE LedgerTypeOK'
  BY <1>7 DEF HeartbeatRow
<1>8. ASSUME NEW r \in Runs, NEW w \in Workers, NEW target \in WorkerTargets,
             TransitionRow(r, w, target)
      PROVE  LedgerTypeOK'
  BY <1>8 DEF TransitionRow, WorkerTargets, RowStatus, RunStatus
<1>9. ASSUME NEW r \in Runs, NEW w \in Workers, NEW outcome \in WorkerOutcomes,
             FinishRow(r, w, outcome)
      PROVE  LedgerTypeOK'
  BY <1>9 DEF FinishRow, WorkerOutcomes, RowStatus, RunStatus, Checkpoints, ErrorCodes
<1>10. ASSUME NEW r \in Runs, NEW w \in Workers, NEW e \in EventTypes, AppendRow(r, w, e)
       PROVE  LedgerTypeOK'
  BY <1>10 DEF AppendRow
<1> QED
  BY <1>1, <1>2, <1>3, <1>4, <1>5, <1>6, <1>7, <1>8, <1>9, <1>10 DEF LedgerNext

\* The empty ledger has its types.
LEMMA LedgerTypeInit == LedgerInit => LedgerTypeOK
BY DEF LedgerInit, LedgerTypeOK, RowStatus, Checkpoints, NoCheckpoint, ErrorCodes, Counts

\* Type correctness of the ledger.
THEOREM LedgerTypeCorrect == LedgerSpec => []LedgerTypeOK
<1>1. LedgerInit => LedgerTypeOK
  BY LedgerTypeInit
<1>2. LedgerTypeOK /\ [LedgerNext]_ledger => LedgerTypeOK'
  BY LedgerTypeStep DEF ledger, rows, LedgerTypeOK
<1> QED
  BY <1>1, <1>2, PTL DEF LedgerSpec

----------------------------------------------------------------------------
\* What one ledger step can do to one run: its status, checkpoint and log.

Keeps(r)   == checkpoint'[r] = checkpoint[r] /\ events'[r] = events[r]
Idles(r)   == status'[r] = status[r] /\ checkpoint'[r] = checkpoint[r]
              /\ (events'[r] = events[r] \/ status[r] \in ActiveStatuses)
Enters(r)  == status[r] = "absent" /\ status'[r] = "queued" /\ Keeps(r)
Claims(r)  == status[r] = "queued" /\ status'[r] = "claimed" /\ Keeps(r)
Starts(r)  == status[r] = "claimed" /\ status'[r] = "running"
              /\ checkpoint'[r] = [checkpoint[r] EXCEPT !.started = TRUE]
              /\ events'[r] = events[r]
Parks(r)   == status[r] = "running" /\ status'[r] = "waiting_approval" /\ Keeps(r)
Asks(r)    == status[r] \in CancellableStatuses /\ status'[r] = "cancel_requested" /\ Keeps(r)
Cancels(r) == status[r] = "cancel_requested" /\ status'[r] = "cancelled" /\ Keeps(r)
Ends(r)    == status[r] \in LeasedStatuses /\ status'[r] \in WorkerOutcomes
              /\ checkpoint'[r] = [started  |-> checkpoint[r].started,
                                   finished |-> TRUE,
                                   error    |-> IF status'[r] = "failed"
                                                THEN "execution_failed" ELSE "none",
                                   result   |-> status'[r] = "completed"]
              /\ events'[r] = events[r]
Orphans(r) == status[r] \in LeasedStatuses /\ status'[r] = "orphaned"
              /\ checkpoint'[r] = [checkpoint[r] EXCEPT !.finished = FALSE,
                                                       !.error = "heartbeat_stale"]
              /\ events'[r] = events[r]

RowStep(r) ==
  \/ Idles(r) \/ Enters(r) \/ Claims(r) \/ Starts(r) \/ Parks(r)
  \/ Asks(r) \/ Cancels(r) \/ Ends(r) \/ Orphans(r)

\* What any operation of the ledger may do to one row.
LEMMA LedgerStepIsRowStep ==
  ASSUME LedgerTypeOK, LedgerNext, NEW r \in Runs
  PROVE  RowStep(r)
<1> USE DEF LedgerTypeOK, RowStep
<1>1. CASE ReapRows
  BY <1>1 DEF ReapRows, StaleRuns, RunsIn, Idles, Orphans
<1>2. ASSUME NEW q \in Runs,
             AdmitRow(q) \/ BeginAdmission(q) \/ CountRows(q) \/ RefuseRow(q)
      PROVE  RowStep(r)
  BY <1>2 DEF AdmitRow, BeginAdmission, CountRows, RefuseRow, rows, Idles, Enters, Keeps
<1>3. ASSUME NEW q \in Runs, CancelRow(q) PROVE RowStep(r)
  BY <1>3 DEF CancelRow, Idles, Asks, Keeps
<1>4. ASSUME NEW q \in Runs, HeartbeatAges(q) PROVE RowStep(r)
  BY <1>4 DEF HeartbeatAges, Idles
<1>5. ASSUME NEW q \in Runs, NEW w \in Workers, ClaimRow(q, w) PROVE RowStep(r)
  BY <1>5 DEF ClaimRow, Idles, Claims, Keeps
<1>6. ASSUME NEW q \in Runs, NEW w \in Workers, StartRow(q, w) PROVE RowStep(r)
  BY <1>6 DEF StartRow, HoldsLease, Idles, Starts
<1>7. ASSUME NEW q \in Runs, NEW w \in Workers, HeartbeatRow(q, w) PROVE RowStep(r)
  BY <1>7 DEF HeartbeatRow, Idles
<1>8. ASSUME NEW q \in Runs, NEW w \in Workers, NEW target \in WorkerTargets,
             TransitionRow(q, w, target)
      PROVE  RowStep(r)
  <2>1. CASE q = r /\ status[r] # target
    <3>1. status[r] \in RunStatus
      BY <1>8, <2>1 DEF TransitionRow, RowStatus
    <3> QED
      BY <1>8, <2>1, <3>1, TransitionSources DEF TransitionRow, Parks, Cancels, Keeps
  <2>2. CASE ~(q = r /\ status[r] # target)
    BY <1>8, <2>2 DEF TransitionRow, Idles
  <2> QED
    BY <2>1, <2>2
<1>9. ASSUME NEW q \in Runs, NEW w \in Workers, NEW outcome \in WorkerOutcomes,
             FinishRow(q, w, outcome)
      PROVE  RowStep(r)
  BY <1>9 DEF FinishRow, HoldsLease, Idles, Ends
<1>10. ASSUME NEW q \in Runs, NEW w \in Workers, NEW e \in EventTypes, AppendRow(q, w, e)
       PROVE  RowStep(r)
  BY <1>10 DEF AppendRow, HoldsLease, Idles
<1> QED
  BY <1>1, <1>2, <1>3, <1>4, <1>5, <1>6, <1>7, <1>8, <1>9, <1>10 DEF LedgerNext

----------------------------------------------------------------------------
\* Every status change of every run is an edge of the frozen graph.
THEOREM LedgerLegalEdges == LedgerSpec => LegalEdges
<1>1. ASSUME LedgerTypeOK, LedgerNext, NEW r \in Runs PROVE MovesAlongEdge(r)
  <2>1. RowStep(r)
    BY <1>1, LedgerStepIsRowStep
  <2> QED
    BY <2>1, GraphFacts
    DEF MovesAlongEdge, RowStep, Idles, Enters, Claims, Starts, Parks, Asks, Cancels, Ends,
        Orphans, CancellableStatuses, ActiveStatuses, LeasedStatuses, WorkerOutcomes
<1>2. LedgerTypeOK /\ [LedgerNext]_ledger => [\A r \in Runs : MovesAlongEdge(r)]_ledger
  BY <1>1
<1> QED
  BY <1>2, LedgerTypeCorrect, PTL DEF LedgerSpec, LegalEdges

\* A terminal or orphaned run is never written again.
THEOREM LedgerSettledStays == LedgerSpec => SettledStays
<1>1. ASSUME LedgerTypeOK, LedgerNext, NEW r \in Runs PROVE StaysIfSettled(r)
  <2>1. RowStep(r)
    BY <1>1, LedgerStepIsRowStep
  <2> QED
    BY <2>1
    DEF StaysIfSettled, RowStep, Idles, Enters, Claims, Starts, Parks, Asks, Cancels, Ends,
        Orphans, CancellableStatuses, ActiveStatuses, LeasedStatuses, SettledStatuses,
        TerminalStatuses
<1>2. LedgerTypeOK /\ [LedgerNext]_ledger => [\A r \in Runs : StaysIfSettled(r)]_ledger
  BY <1>1
<1> QED
  BY <1>2, LedgerTypeCorrect, PTL DEF LedgerSpec, SettledStays

\* The row and its checkpoint always agree.
THEOREM LedgerCheckpointAgrees == LedgerSpec => []CheckpointAgrees
<1>1. LedgerInit => CheckpointAgrees
  BY DEF LedgerInit, CheckpointAgrees, NoCheckpoint, WorkerOutcomes
<1>2. ASSUME LedgerTypeOK, CheckpointAgrees, [LedgerNext]_ledger PROVE CheckpointAgrees'
  <2> SUFFICES ASSUME NEW r \in Runs
               PROVE  /\ checkpoint'[r].result <=> status'[r] = "completed"
                      /\ checkpoint'[r].error = "execution_failed" <=> status'[r] = "failed"
                      /\ checkpoint'[r].error = "heartbeat_stale" <=> status'[r] = "orphaned"
                      /\ checkpoint'[r].finished <=> status'[r] \in WorkerOutcomes
    BY DEF CheckpointAgrees
  <2>1. RowStep(r) \/ UNCHANGED ledger
    BY <1>2, LedgerStepIsRowStep
  <2>2. checkpoint[r] \in Checkpoints
    BY <1>2 DEF LedgerTypeOK
  <2>3. /\ checkpoint[r].result <=> status[r] = "completed"
        /\ checkpoint[r].error = "execution_failed" <=> status[r] = "failed"
        /\ checkpoint[r].error = "heartbeat_stale" <=> status[r] = "orphaned"
        /\ checkpoint[r].finished <=> status[r] \in WorkerOutcomes
    BY <1>2 DEF CheckpointAgrees
  <2>4. CASE Starts(r)
    <3>1. /\ checkpoint'[r].result = checkpoint[r].result
          /\ checkpoint'[r].error = checkpoint[r].error
          /\ checkpoint'[r].finished = checkpoint[r].finished
      BY <2>2, <2>4 DEF Starts, Checkpoints
    <3> QED
      BY <2>3, <2>4, <3>1 DEF Starts, WorkerOutcomes
  <2>5. CASE Orphans(r)
    <3>1. /\ checkpoint'[r].result = checkpoint[r].result
          /\ checkpoint'[r].error = "heartbeat_stale"
          /\ checkpoint'[r].finished = FALSE
      BY <2>2, <2>5 DEF Orphans, Checkpoints
    <3> QED
      BY <2>3, <2>5, <3>1 DEF Orphans, WorkerOutcomes, LeasedStatuses
  <2>6. CASE Ends(r)
    <3>1. PICK c : c = checkpoint'[r]
      OBVIOUS
    <3>2. c = [started  |-> checkpoint[r].started,
               finished |-> TRUE,
               error    |-> IF status'[r] = "failed" THEN "execution_failed" ELSE "none",
               result   |-> status'[r] = "completed"]
      BY <2>6, <3>1 DEF Ends
    <3>3. c.finished
      BY <3>2
    <3>4. c.error = IF status'[r] = "failed" THEN "execution_failed" ELSE "none"
      BY <3>2
    <3>5. c.result <=> status'[r] = "completed"
      BY <3>2
    <3> QED
      BY <2>6, <3>1, <3>3, <3>4, <3>5 DEF Ends, WorkerOutcomes
  <2>7. CASE checkpoint'[r] = checkpoint[r] /\ ~Starts(r) /\ ~Orphans(r) /\ ~Ends(r)
    BY <2>1, <2>3, <2>7
    DEF ledger, rows, RowStep, Keeps, Idles, Enters, Claims, Parks, Asks, Cancels,
        WorkerOutcomes, CancellableStatuses, ActiveStatuses
  <2> QED
    BY <2>1, <2>4, <2>5, <2>6, <2>7
    DEF ledger, rows, RowStep, Keeps, Idles, Enters, Claims, Parks, Asks, Cancels
<1> QED
  BY <1>1, <1>2, LedgerTypeCorrect, PTL DEF LedgerSpec

----------------------------------------------------------------------------
\* The admission limits.

\* A set of runs is finite and has a size.
LEMMA RunSubset ==
  ASSUME NEW T \in SUBSET Runs
  PROVE  IsFiniteSet(T) /\ Cardinality(T) \in Nat
<1>1. IsFiniteSet(T)
  BY FiniteAssumption, FS_Subset
<1> QED
  BY <1>1, FS_CardinalityType

\* The counted sets are sets of runs.
LEMMA RunSets ==
  ASSUME NEW S, NEW u
  PROVE  /\ IsFiniteSet(RunsIn(S)) /\ Cardinality(RunsIn(S)) \in Nat
         /\ IsFiniteSet(UserRunsIn(u, S)) /\ Cardinality(UserRunsIn(u, S)) \in Nat
<1>1. RunsIn(S) \in SUBSET Runs /\ UserRunsIn(u, S) \in SUBSET Runs
  BY DEF RunsIn, UserRunsIn
<1> QED
  BY <1>1, RunSubset

\* The load is at most the waiting rows plus the active rows.
LEMMA SplitLoad ==
  ASSUME NEW u
  PROVE  /\ Cardinality(UserRunsIn(u, WaitingOrActive))
               <= Cardinality(UserRunsIn(u, {"queued"})) + Cardinality(UserRunsIn(u, ActiveStatuses))
         /\ Cardinality(RunsIn(WaitingOrActive))
               <= Cardinality(RunsIn({"queued"})) + Cardinality(RunsIn(ActiveStatuses))
<1>1. /\ UserRunsIn(u, WaitingOrActive)
            = UserRunsIn(u, {"queued"}) \cup UserRunsIn(u, ActiveStatuses)
      /\ RunsIn(WaitingOrActive) = RunsIn({"queued"}) \cup RunsIn(ActiveStatuses)
  BY DEF UserRunsIn, RunsIn, WaitingOrActive
<1>2. ASSUME NEW P, NEW Q, IsFiniteSet(P), IsFiniteSet(Q)
      PROVE  Cardinality(P \cup Q) <= Cardinality(P) + Cardinality(Q)
  <2>1. Cardinality(P \cup Q) = Cardinality(P) + Cardinality(Q) - Cardinality(P \cap Q)
    BY <1>2, FS_Union
  <2>2. IsFiniteSet(P \cap Q)
    BY <1>2, FS_Intersection
  <2>3. Cardinality(P) \in Nat /\ Cardinality(Q) \in Nat /\ Cardinality(P \cap Q) \in Nat
    BY <1>2, <2>2, FS_CardinalityType
  <2> QED
    BY <2>1, <2>3
<1> QED
  BY <1>1, <1>2, RunSets

\* Only an admission adds a run to the queue or to the load.
LEMMA LoadOnlyShrinks ==
  ASSUME LedgerTypeOK, LedgerNext, \A r \in Runs : ~AdmitRow(r), NEW q \in Runs
  PROVE  /\ status'[q] = "queued" => status[q] = "queued"
         /\ status'[q] \in WaitingOrActive => status[q] \in WaitingOrActive
<1> USE DEF LedgerTypeOK, WaitingOrActive, ActiveStatuses
<1>1. CASE ReapRows
  BY <1>1 DEF ReapRows
<1>2. ASSUME NEW r \in Runs, CancelRow(r) \/ HeartbeatAges(r)
      PROVE  /\ status'[q] = "queued" => status[q] = "queued"
             /\ status'[q] \in WaitingOrActive => status[q] \in WaitingOrActive
  BY <1>2 DEF CancelRow, HeartbeatAges
<1>3. ASSUME NEW r \in Runs, NEW w \in Workers,
             ClaimRow(r, w) \/ StartRow(r, w) \/ HeartbeatRow(r, w)
      PROVE  /\ status'[q] = "queued" => status[q] = "queued"
             /\ status'[q] \in WaitingOrActive => status[q] \in WaitingOrActive
  BY <1>3 DEF ClaimRow, StartRow, HeartbeatRow, HoldsLease
<1>4. ASSUME NEW r \in Runs, NEW w \in Workers, NEW target \in WorkerTargets,
             TransitionRow(r, w, target)
      PROVE  /\ status'[q] = "queued" => status[q] = "queued"
             /\ status'[q] \in WaitingOrActive => status[q] \in WaitingOrActive
  <2>1. CASE q = r /\ status[r] # target
    <3>1. status[r] \in RunStatus
      BY <1>4, <2>1 DEF TransitionRow, RowStatus
    <3> QED
      BY <1>4, <2>1, <3>1, TransitionSources DEF TransitionRow
  <2>2. CASE ~(q = r /\ status[r] # target)
    BY <1>4, <2>2 DEF TransitionRow
  <2> QED
    BY <2>1, <2>2
<1>5. ASSUME NEW r \in Runs, NEW w \in Workers, NEW outcome \in WorkerOutcomes,
             FinishRow(r, w, outcome)
      PROVE  /\ status'[q] = "queued" => status[q] = "queued"
             /\ status'[q] \in WaitingOrActive => status[q] \in WaitingOrActive
  BY <1>5 DEF FinishRow, WorkerOutcomes
<1>6. ASSUME NEW r \in Runs, NEW w \in Workers, NEW e \in EventTypes, AppendRow(r, w, e)
      PROVE  /\ status'[q] = "queued" => status[q] = "queued"
             /\ status'[q] \in WaitingOrActive => status[q] \in WaitingOrActive
  BY <1>6 DEF AppendRow
<1>7. ASSUME NEW r \in Runs, BeginAdmission(r) \/ CountRows(r) \/ RefuseRow(r)
      PROVE  /\ status'[q] = "queued" => status[q] = "queued"
             /\ status'[q] \in WaitingOrActive => status[q] \in WaitingOrActive
  BY <1>7 DEF BeginAdmission, CountRows, RefuseRow, rows
<1> QED
  BY <1>1, <1>2, <1>3, <1>4, <1>5, <1>6, <1>7 DEF LedgerNext

\* So no other operation makes a counted set larger.
LEMMA CountsOnlyShrink ==
  ASSUME LedgerTypeOK, LedgerNext, \A r \in Runs : ~AdmitRow(r),
         NEW S \in {{"queued"}, WaitingOrActive}, NEW u
  PROVE  /\ Cardinality(RunsIn(S)') \in Nat
         /\ Cardinality(RunsIn(S)') <= Cardinality(RunsIn(S))
         /\ Cardinality(UserRunsIn(u, S)') \in Nat
         /\ Cardinality(UserRunsIn(u, S)') <= Cardinality(UserRunsIn(u, S))
<1>1. RunsIn(S)' \in SUBSET RunsIn(S) /\ RunsIn(S)' \in SUBSET Runs
  BY LoadOnlyShrinks DEF RunsIn
<1>2. UserRunsIn(u, S)' \in SUBSET UserRunsIn(u, S) /\ UserRunsIn(u, S)' \in SUBSET Runs
  BY LoadOnlyShrinks DEF RunsIn, UserRunsIn
<1> QED
  BY <1>1, <1>2, RunSets, RunSubset, FS_Subset

\* An admission that has passed its counts keeps the bound and ends.
LEMMA AdmissionKeepsDiscipline ==
  ASSUME LedgerTypeOK, AdmissionDiscipline, NEW r \in Runs, AdmitRow(r)
  PROVE  AdmissionDiscipline'
<1>1. /\ status' = [status EXCEPT ![r] = "queued"] /\ status[r] = "absent"
      /\ admission[r] = "last" /\ admission' = [admission EXCEPT ![r] = "none"]
      /\ Cardinality(RunsIn({"queued"})) < GlobalQueuedLimit
  BY DEF AdmitRow, Below
<1>2. ASSUME NEW S, "queued" \in S, "absent" \notin S
      PROVE  Cardinality(RunsIn(S)') = Cardinality(RunsIn(S)) + 1
  <2>1. RunsIn(S)' = RunsIn(S) \cup {r} /\ r \notin RunsIn(S)
    BY <1>1, <1>2 DEF RunsIn, LedgerTypeOK
  <2> QED
    BY <2>1, RunSets, FS_AddElement
<1>3. "absent" \notin {"queued"} /\ "absent" \notin WaitingOrActive /\ "queued" \in WaitingOrActive
  BY DEF WaitingOrActive, ActiveStatuses
<1>4. ASSUME NEW S, "queued" \in S, "absent" \notin S, NEW u
      PROVE  Cardinality(UserRunsIn(u, S)') = IF Owner[r] = u
               THEN Cardinality(UserRunsIn(u, S)) + 1 ELSE Cardinality(UserRunsIn(u, S))
  <2>1. CASE Owner[r] = u
    <3>1. UserRunsIn(u, S)' = UserRunsIn(u, S) \cup {r} /\ r \notin UserRunsIn(u, S)
      BY <1>1, <1>4, <2>1 DEF UserRunsIn, RunsIn, LedgerTypeOK
    <3> QED
      BY <2>1, <3>1, RunSets, FS_AddElement
  <2>2. CASE Owner[r] # u
    <3>1. UserRunsIn(u, S)' = UserRunsIn(u, S)
      BY <1>1, <1>4, <2>2 DEF UserRunsIn, RunsIn, LedgerTypeOK
    <3> QED
      BY <2>2, <3>1
  <2> QED
    BY <2>1, <2>2
<1>5. /\ Cardinality(UserRunsIn(Owner[r], WaitingOrActive))
              < PerUserActiveLimit + PerUserQueuedLimit
      /\ Cardinality(UserRunsIn(Owner[r], {"queued"})) < PerUserQueuedLimit
      /\ Cardinality(RunsIn(WaitingOrActive)) < GlobalActiveLimit + GlobalQueuedLimit
  BY <1>1 DEF AdmissionDiscipline, StillCounts
<1>6. ASSUME NEW u \in Users
      PROVE  /\ Cardinality(UserRunsIn(u, {"queued"})') <= PerUserQueuedLimit
             /\ Cardinality(UserRunsIn(u, WaitingOrActive)')
                  <= PerUserActiveLimit + PerUserQueuedLimit
  <2>1. CASE Owner[r] = u
    BY <1>3, <1>4, <1>5, <2>1, RunSets, LimitAssumption
  <2>2. CASE Owner[r] # u
    BY <1>3, <1>4, <2>2 DEF AdmissionDiscipline, LoadBounded
  <2> QED
    BY <2>1, <2>2
<1>7. /\ Cardinality(RunsIn({"queued"})') <= GlobalQueuedLimit
      /\ Cardinality(RunsIn(WaitingOrActive)') <= GlobalActiveLimit + GlobalQueuedLimit
  BY <1>1, <1>2, <1>3, <1>5, RunSets, LimitAssumption
<1>8. \A q \in Runs : admission'[q] = "none"
  BY <1>1 DEF AdmissionDiscipline, OneAdmission, LedgerTypeOK
<1>9. OneAdmission' /\ StillCounts'
  BY <1>8 DEF OneAdmission, StillCounts
<1> QED
  BY <1>6, <1>7, <1>9 DEF AdmissionDiscipline, LoadBounded

\* What the counts have found so far survives every operation but the insert.
LEMMA OtherStepsKeepDiscipline ==
  ASSUME LedgerTypeOK, AdmissionDiscipline, LedgerNext, \A r \in Runs : ~AdmitRow(r)
  PROVE  AdmissionDiscipline'
<1>1. ASSUME NEW S \in {{"queued"}, WaitingOrActive}, NEW u, NEW n \in Nat
      PROVE  /\ Cardinality(RunsIn(S)) <= n => Cardinality(RunsIn(S)') <= n
             /\ Cardinality(RunsIn(S)) < n => Cardinality(RunsIn(S)') < n
             /\ Cardinality(UserRunsIn(u, S)) <= n => Cardinality(UserRunsIn(u, S)') <= n
             /\ Cardinality(UserRunsIn(u, S)) < n => Cardinality(UserRunsIn(u, S)') < n
  BY CountsOnlyShrink, RunSets
<1>2. LoadBounded'
  BY <1>1, LimitAssumption DEF AdmissionDiscipline, LoadBounded
<1>3. ASSUME \A q \in Runs : admission'[q] # "none" => admission'[q] = admission[q]
      PROVE  OneAdmission' /\ StillCounts'
  <2>1. OneAdmission'
    BY <1>3 DEF AdmissionDiscipline, OneAdmission
  <2>2. StillCounts'
    <3> SUFFICES ASSUME NEW q \in Runs
                 PROVE  /\ admission'[q] \in {"user_queued", "global_active", "last"} =>
                             Cardinality(UserRunsIn(Owner[q], WaitingOrActive)')
                               < PerUserActiveLimit + PerUserQueuedLimit
                        /\ admission'[q] \in {"global_active", "last"} =>
                             Cardinality(UserRunsIn(Owner[q], {"queued"})') < PerUserQueuedLimit
                        /\ admission'[q] = "last" =>
                             Cardinality(RunsIn(WaitingOrActive)')
                               < GlobalActiveLimit + GlobalQueuedLimit
      BY DEF StillCounts
    <3>1. admission'[q] # "none" => admission'[q] = admission[q]
      BY <1>3
    <3>2. /\ PerUserActiveLimit + PerUserQueuedLimit \in Nat /\ PerUserQueuedLimit \in Nat
          /\ GlobalActiveLimit + GlobalQueuedLimit \in Nat
      BY LimitAssumption
    <3> QED
      BY <1>1, <3>1, <3>2 DEF AdmissionDiscipline, StillCounts
  <2> QED
    BY <2>1, <2>2
<1>4. ASSUME NEW r \in Runs, BeginAdmission(r)
      PROVE  OneAdmission' /\ StillCounts'
  <2>1. \A q \in Runs : admission'[q] # "none" => q = r /\ admission'[q] = "user_active"
    BY <1>4 DEF BeginAdmission, AnchorsFree, LedgerTypeOK
  <2> QED
    BY <2>1 DEF OneAdmission, StillCounts
<1>5. ASSUME NEW r \in Runs, CountRows(r)
      PROVE  OneAdmission' /\ StillCounts'
  <2>1. /\ admission[r] \in {"user_active", "user_queued", "global_active"} /\ Below(r, admission[r])
        /\ admission' = [admission EXCEPT ![r] = NextCount(admission[r])] /\ UNCHANGED status
    BY <1>5 DEF CountRows, Counts, rows
  <2>2. \A q \in Runs : admission'[q] # "none" => q = r
    BY <2>1 DEF AdmissionDiscipline, OneAdmission, LedgerTypeOK
  <2>3. OneAdmission'
    BY <2>2 DEF OneAdmission
  <2>4. \A S, u : RunsIn(S)' = RunsIn(S) /\ UserRunsIn(u, S)' = UserRunsIn(u, S)
    BY <2>1 DEF RunsIn, UserRunsIn
  <2>5. admission'[r] = NextCount(admission[r])
    BY <2>1 DEF LedgerTypeOK
  <2> DEFINE UQ == Cardinality(UserRunsIn(Owner[r], {"queued"}))
             UA == Cardinality(UserRunsIn(Owner[r], ActiveStatuses))
             UL == Cardinality(UserRunsIn(Owner[r], WaitingOrActive))
             GQ == Cardinality(RunsIn({"queued"}))
             GA == Cardinality(RunsIn(ActiveStatuses))
             GL == Cardinality(RunsIn(WaitingOrActive))
  <2>6. /\ UQ \in Nat /\ UA \in Nat /\ UL \in Nat /\ GQ \in Nat /\ GA \in Nat /\ GL \in Nat
        /\ UL <= UQ + UA /\ GL <= GQ + GA
    BY RunSets, SplitLoad
  <2>7. UQ <= PerUserQueuedLimit /\ GQ <= GlobalQueuedLimit
    BY OwnerAssumption DEF AdmissionDiscipline, LoadBounded
  <2>8. /\ admission[r] # "user_active" => UL < PerUserActiveLimit + PerUserQueuedLimit
        /\ admission[r] = "global_active" => UQ < PerUserQueuedLimit
    BY <2>1 DEF AdmissionDiscipline, StillCounts
  <2>9. /\ admission[r] = "user_active" => UA < PerUserActiveLimit
        /\ admission[r] = "user_queued" => UQ < PerUserQueuedLimit
        /\ admission[r] = "global_active" => GA < GlobalActiveLimit
    BY <2>1 DEF Below
  <2> HIDE DEF UQ, UA, UL, GQ, GA, GL
  <2>10. /\ UL < PerUserActiveLimit + PerUserQueuedLimit
         /\ admission[r] # "user_active" => UQ < PerUserQueuedLimit
         /\ admission[r] = "global_active" => GL < GlobalActiveLimit + GlobalQueuedLimit
    BY <2>1, <2>6, <2>7, <2>8, <2>9, LimitAssumption
  <2>11. StillCounts'
    BY <2>1, <2>2, <2>4, <2>5, <2>10 DEF StillCounts, NextCount, UQ, UL, GL
  <2> QED
    BY <2>3, <2>11
<1>6. ASSUME NEW r \in Runs, RefuseRow(r)
      PROVE  OneAdmission' /\ StillCounts'
  BY <1>3, <1>6 DEF RefuseRow, LedgerTypeOK
<1>7. CASE UNCHANGED admission
  BY <1>2, <1>3, <1>7 DEF AdmissionDiscipline
<1>8. UNCHANGED admission
        \/ \E r \in Runs : BeginAdmission(r) \/ CountRows(r) \/ RefuseRow(r)
  BY DEF LedgerNext, ReapRows, CancelRow, HeartbeatAges, ClaimRow, StartRow, HeartbeatRow,
     TransitionRow, FinishRow, AppendRow
<1> QED
  BY <1>2, <1>4, <1>5, <1>6, <1>7, <1>8 DEF AdmissionDiscipline

\* The admission's counts and the bound they give, as an invariant.
THEOREM AdmissionDisciplineHolds == LedgerSpec => []AdmissionDiscipline
<1>1. LedgerInit => AdmissionDiscipline
  <2> SUFFICES ASSUME LedgerInit PROVE AdmissionDiscipline
    OBVIOUS
  <2>1. /\ RunsIn({"queued"}) = {} /\ RunsIn(WaitingOrActive) = {}
        /\ \A u : UserRunsIn(u, {"queued"}) = {} /\ UserRunsIn(u, WaitingOrActive) = {}
    BY DEF LedgerInit, RunsIn, UserRunsIn, WaitingOrActive, ActiveStatuses
  <2>2. LoadBounded
    BY <2>1, FS_EmptySet, LimitAssumption DEF LoadBounded
  <2>3. OneAdmission /\ StillCounts
    BY DEF LedgerInit, OneAdmission, StillCounts
  <2> QED
    BY <2>2, <2>3 DEF AdmissionDiscipline
<1>2. LedgerTypeOK /\ AdmissionDiscipline /\ [LedgerNext]_ledger => AdmissionDiscipline'
  <2>1. ASSUME LedgerTypeOK, AdmissionDiscipline, LedgerNext PROVE AdmissionDiscipline'
    BY <2>1, AdmissionKeepsDiscipline, OtherStepsKeepDiscipline
  <2>2. ASSUME AdmissionDiscipline, UNCHANGED ledger PROVE AdmissionDiscipline'
    BY <2>2 DEF ledger, rows, AdmissionDiscipline, LoadBounded, OneAdmission, StillCounts,
       RunsIn, UserRunsIn
  <2> QED
    BY <2>1, <2>2
<1> QED
  BY <1>1, <1>2, LedgerTypeCorrect, PTL DEF LedgerSpec

\* Queued runs respect their limit, and queued plus active runs the sum of both
\* limits, per actor and overall, for every number of actors and runs and
\* wherever claims fall between the counts of an admission.
THEOREM LedgerLoadBounded == LedgerSpec => []LoadBounded
<1>1. AdmissionDiscipline => LoadBounded
  BY DEF AdmissionDiscipline
<1> QED
  BY <1>1, AdmissionDisciplineHolds, PTL
=============================================================================
