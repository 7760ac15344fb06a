----------------------------- MODULE MCTaskQueue -----------------------------
(* Small instances of TaskQueue. *)
EXTENDS TaskQueue, TLC

CONSTANTS p1, p2

Goroutines == Permutations({p1, p2})
=============================================================================
