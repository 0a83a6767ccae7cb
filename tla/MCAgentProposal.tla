-------------------------- MODULE MCAgentProposal --------------------------
(* AgentProposal for TLC. *)
EXTENDS AgentProposal, TLC

Symmetry == Permutations(Requests)
=============================================================================
