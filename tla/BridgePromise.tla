--------------------------- MODULE BridgePromise ----------------------------
(***************************************************************************)
(* What the market bridge promises: the batches an Agent made are stored   *)
(* in the order they were made, each at most once and as a whole, a stored *)
(* fact never changes, nothing is stored while collection is off, and a    *)
(* revoked binding stays off for ever.                                     *)
(***************************************************************************)
EXTENDS Naturals, Sequences

CONSTANTS Keys, None

VARIABLES made, stored, facts, on, revoked

vars == <<made, stored, facts, on, revoked>>

Init ==
  /\ made = <<>>
  /\ stored = {}
  /\ facts = [k \in Keys |-> None]
  /\ on = FALSE
  /\ revoked = FALSE

\* The source was read: the batches made before stay what they are.
Make ==
  /\ Len(made') > Len(made)
  /\ \A i \in DOMAIN made : made'[i] = made[i]
  /\ UNCHANGED <<stored, facts, on, revoked>>

\* The oldest batch that is not stored yet is stored with all its facts.
Store(i) ==
  /\ on
  /\ i \notin stored
  /\ 1..i-1 \subseteq stored
  /\ \A k \in DOMAIN made[i].facts : facts[k] \in {None, made[i].facts[k]}
  /\ stored' = stored \cup {i}
  /\ facts' = [k \in Keys |-> IF k \in DOMAIN made[i].facts THEN made[i].facts[k] ELSE facts[k]]
  /\ UNCHANGED <<made, on, revoked>>

Switch ==
  /\ ~revoked
  /\ on' \in BOOLEAN /\ revoked' \in BOOLEAN
  /\ revoked' => ~on'
  /\ UNCHANGED <<made, stored, facts>>

Next == Make \/ (\E i \in DOMAIN made : Store(i)) \/ Switch

Spec == Init /\ [][Next]_vars
=============================================================================
