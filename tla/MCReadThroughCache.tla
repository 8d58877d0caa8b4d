------------------------- MODULE MCReadThroughCache -------------------------
(* A small instance of ReadThroughCache for TLC: two views of one project,  *)
(* and room to remember one of them.                                        *)
EXTENDS ReadThroughCache, TLC

CONSTANT p1

ViewsOf == [k \in Keys |-> p1]
=============================================================================
