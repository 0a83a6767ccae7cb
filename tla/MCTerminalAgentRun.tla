------------------------ MODULE MCTerminalAgentRun ------------------------
(* TerminalAgentRun for TLC: one actor owns every run. *)
EXTENDS TerminalAgentRun, TLC

MCOwner == [r \in Runs |-> CHOOSE u \in Users : TRUE]

Symmetry == Permutations(Runs) \cup Permutations(Workers)
=============================================================================
