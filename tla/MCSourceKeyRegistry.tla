------------------------ MODULE MCSourceKeyRegistry ------------------------
(* A small instance of SourceKeyRegistry for TLC: a translation and a flag, *)
(* a call of the app or the timer and one of a page that is hidden.         *)
EXTENDS SourceKeyRegistry

CONSTANTS k1, k2, a, b, f1, f2
=============================================================================
