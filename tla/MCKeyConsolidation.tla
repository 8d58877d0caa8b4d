------------------------- MODULE MCKeyConsolidation -------------------------
(* A small instance of KeyConsolidation for TLC: two or three names, two    *)
(* requests.  spaced is hello with other white space.                       *)
EXTENDS KeyConsolidation, TLC

CONSTANTS n1, n2, n3, hello, spaced, hi, r1, r2

Words == [t \in Texts |-> IF t = hi THEN "hi" ELSE "hello"]

Symmetry == Permutations(Names) \cup Permutations(Texts \ {hi}) \cup Permutations(Requests)
=============================================================================
