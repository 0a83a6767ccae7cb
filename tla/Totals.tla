------------------------------- MODULE Totals -------------------------------
(***************************************************************************)
(* The sum of a function into the natural numbers, as the number of the    *)
(* units its values are made of.  A fold over a set cannot be reasoned     *)
(* about without induction over data; a cardinality can, with the library's *)
(* facts about finite sets.  MCOrderLedger checks that the two agree.       *)
(***************************************************************************)
EXTENDS Naturals, FiniteSets

\* One element for every unit of every value of f.
Units(f) == UNION {{x} \X (1 .. f[x]) : x \in DOMAIN f}

Total(f) == Cardinality(Units(f))
=============================================================================
