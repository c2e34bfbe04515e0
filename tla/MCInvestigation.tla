--------------------------- MODULE MCInvestigation ---------------------------
(* Model checking of Investigation: decisions are interchangeable. *)
EXTENDS Investigation, TLC

MCSymmetry == Permutations(Decisions)
=============================================================================
