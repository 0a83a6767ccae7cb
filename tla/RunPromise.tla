----------------------------- MODULE RunPromise -----------------------------
(***************************************************************************)
(* What the queued terminal-agent runtime promises the owner of a run,     *)
(* without workers, messages or leases: a run waits, is worked on by one   *)
(* executor, is executed at most once or turned away unexecuted, and once  *)
(* it is over nothing happens to it any more.                              *)
(***************************************************************************)
EXTENDS Naturals

CONSTANT Runs

VARIABLES
  phase,       \* the phase of each run
  executions,  \* how often its Agent was executed
  refused      \* the Agent service answered without executing it

vars == <<phase, executions, refused>>

Phases == {"absent", "waiting", "working", "parked", "cancelling", "over"}

Init ==
  /\ phase = [r \in Runs |-> "absent"]
  /\ executions = [r \in Runs |-> 0]
  /\ refused = [r \in Runs |-> FALSE]

Move(r, from, to) ==
  /\ phase[r] \in from
  /\ phase' = [phase EXCEPT ![r] = to]
  /\ UNCHANGED <<executions, refused>>

Accept(r) == Move(r, {"absent"}, "waiting")
Take(r)   == Move(r, {"waiting"}, "working")
Ask(r)    == Move(r, {"waiting", "working", "parked"}, "cancelling")

\* The Agent executes, or its service turns the run away: one of the two, once.
\* A cancellation may already have been asked for, or the run given up, without
\* the executor knowing.
Untouched(r) == phase[r] \notin {"absent", "waiting"} /\ executions[r] = 0 /\ ~refused[r]

Execute(r) ==
  /\ Untouched(r)
  /\ executions' = [executions EXCEPT ![r] = 1]
  /\ UNCHANGED <<phase, refused>>

TurnAway(r) ==
  /\ Untouched(r)
  /\ refused' = [refused EXCEPT ![r] = TRUE]
  /\ UNCHANGED <<phase, executions>>

\* Only an executed run is parked; a run is cancelled after either answer.
Park(r)    == executions[r] = 1 /\ Move(r, {"working"}, "parked")
Abandon(r) == (executions[r] = 1 \/ refused[r]) /\ Move(r, {"cancelling"}, "over")

\* Some working runs end together: one succeeds or fails, or stale ones are
\* given up.
End(S) ==
  /\ \A r \in S : phase[r] = "working"
  /\ phase' = [r \in Runs |-> IF r \in S THEN "over" ELSE phase[r]]
  /\ UNCHANGED <<executions, refused>>

Next ==
  \/ \E r \in Runs : Accept(r) \/ Take(r) \/ Ask(r) \/ Execute(r) \/ TurnAway(r)
                     \/ Park(r) \/ Abandon(r)
  \/ \E S \in SUBSET Runs : End(S)

Spec == Init /\ [][Next]_vars
=============================================================================
