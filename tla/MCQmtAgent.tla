---------------------------- MODULE MCQmtAgent -----------------------------
(* QmtAgent for TLC. *)
EXTENDS QmtAgent
=============================================================================
