------------------------- MODULE MCFlagInheritance -------------------------
(* A small instance of FlagInheritance for TLC: production and two more     *)
(* environments, which is one more than the plan allows, one of another     *)
(* project, two requests at once, three in all.                             *)
EXTENDS FlagInheritance, TLC

CONSTANTS production, staging, preview, theirs, off, on, r1, r2

Symmetry == Permutations(Environments \ {production, theirs}) \cup Permutations(Requests)
=============================================================================
