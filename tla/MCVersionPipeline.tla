-------------------------- MODULE MCVersionPipeline --------------------------
(* Small instances of VersionPipeline for TLC.                              *)
EXTENDS VersionPipeline, TLC

\* Requests are interchangeable: every property quantifies over them.
RequestSymmetry == Permutations(Requests)
=============================================================================
