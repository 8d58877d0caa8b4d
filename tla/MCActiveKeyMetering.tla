------------------------- MODULE MCActiveKeyMetering -------------------------
(* Small instances of ActiveKeyMetering for TLC.                            *)
EXTENDS ActiveKeyMetering, TLC

\* Names are interchangeable, and so are requests.
Symmetry == Permutations(Names) \cup Permutations(Requests)
=============================================================================
