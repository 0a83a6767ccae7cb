--------------------------- MODULE MCOrderLedger ---------------------------
(* OrderLedger on a small account. *)
EXTENDS OrderLedger, TLC, FiniteSetsExt

CONSTANTS k1, k2, k3, e1, e2, a1

Symmetry == Permutations(Keys) \cup Permutations(Events)

\* Total is the sum: checked against the fold of the community modules.
ASSUME TotalIsSum ==
  \A f \in [1 .. 3 -> 0 .. 2] :
    Total(f) = MapThenSumSet(LAMBDA x : f[x], DOMAIN f)
=============================================================================
