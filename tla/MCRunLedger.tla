---------------------------- MODULE MCRunLedger ----------------------------
(* RunLedger for TLC: two actors, the runs in RunsOfA belong to the first. *)
EXTENDS RunLedger, TLC

CONSTANTS a, b, RunsOfA

MCOwner == [r \in Runs |-> IF r \in RunsOfA THEN a ELSE b]

\* Runs of one actor are interchangeable, and so are worker identities.
Symmetry == Permutations(RunsOfA) \cup Permutations(Runs \ RunsOfA)
              \cup Permutations(Workers)
=============================================================================
