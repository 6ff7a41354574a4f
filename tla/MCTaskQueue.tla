---------------------------- MODULE MCTaskQueue ----------------------------
(* Small instances of TaskQueue for TLC. *)
EXTENDS TaskQueue, TLC

CONSTANTS t1, t2, w1, w2, a1, a2

Symmetry == Permutations(Workers) \cup Permutations(Admins)
=============================================================================
