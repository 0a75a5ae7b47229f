----------------------------- MODULE MCCommitLog -----------------------------
(* CommitLog for TLC: the calls are interchangeable. *)
EXTENDS CommitLog, TLC

Symmetry == Permutations(Calls)
=============================================================================
