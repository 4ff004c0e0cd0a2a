-------------------------------- MODULE Totals --------------------------------
(***************************************************************************)
(* Sums.  A function into the naturals is a heap of units, f[x] of them    *)
(* marked with x, and its total is their number.  The provers have no      *)
(* induction, by which a fold would have to be reasoned about, but know    *)
(* how cardinalities add up.                                               *)
(***************************************************************************)
EXTENDS Naturals, FiniteSets

Units(f) == UNION {{x} \X (1..f[x]) : x \in DOMAIN f}

Total(f) == Cardinality(Units(f))
=============================================================================
