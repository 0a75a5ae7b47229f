---------------------------- MODULE MCCompaction ----------------------------
(* Compaction for TLC: the writers are interchangeable. *)
EXTENDS Compaction, TLC

Symmetry == Permutations(Writers)
=============================================================================
