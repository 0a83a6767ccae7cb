---------------------------- MODULE RunContract ----------------------------
(***************************************************************************)
(* The dispatch status of a queued terminal-agent run and the graph its    *)
(* state machine allows: TerminalRunStatus and _ALLOWED_TRANSITIONS of     *)
(* apps/agent_runtime/domain/terminal_agent_run_contract.py.  Constant     *)
(* definitions only.                                                       *)
(***************************************************************************)

\* "absent" is a row that does not exist; the others are the stored values.
RunStatus == {"accepted", "queued", "claimed", "running", "waiting_approval",
              "cancel_requested", "cancelled", "completed", "failed",
              "timed_out", "orphaned"}

RowStatus == RunStatus \cup {"absent"}

AllowedTransitions ==
  [s \in RunStatus |->
     CASE s = "accepted"         -> {"queued"}
       [] s = "queued"           -> {"claimed", "cancel_requested"}
       [] s = "claimed"          -> {"running", "cancel_requested", "completed",
                                     "failed", "timed_out", "orphaned"}
       [] s = "running"          -> {"waiting_approval", "cancel_requested",
                                     "completed", "failed", "timed_out",
                                     "orphaned"}
       [] s = "waiting_approval" -> {"queued", "cancel_requested"}
       [] s = "cancel_requested" -> {"cancelled"}
       [] s = "orphaned"         -> {"queued", "failed"}
       [] OTHER                  -> {}]

\* transition_terminal_run: the same status again is an idempotent success.
CanTransition(current, requested) ==
  \/ current = requested
  \/ requested \in AllowedTransitions[current]

TerminalStatuses == {"cancelled", "completed", "failed", "timed_out"}

\* The status sets the repository filters rows by.
ActiveStatuses      == {"claimed", "running", "waiting_approval"}
CancellableStatuses == {"queued"} \cup ActiveStatuses
LeasedStatuses      == {"claimed", "running"}
=============================================================================
