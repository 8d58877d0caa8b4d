----------------------------- MODULE MCCliSync -----------------------------
(* A small instance of CliSync for TLC: two keys, one to a chunk, the       *)
(* watcher and one plain sync beside it.                                    *)
EXTENDS CliSync, TLC

CONSTANTS k1, k2, a, b, sync, watcher

\* Keys and texts are interchangeable; used where no liveness is checked.
Symmetry == Permutations(Keys) \cup Permutations(Texts)
=============================================================================
