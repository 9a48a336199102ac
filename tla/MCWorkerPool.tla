---------------------------- MODULE MCWorkerPool ----------------------------
(* TLC instances of WorkerPool: tasks are interchangeable model values, so  *)
(* a run whose tasks are all sendable and that checks an invariant only     *)
(* uses their symmetry.                                                     *)
EXTENDS WorkerPool, TLC

TaskSymmetry == Permutations(Tasks)
=============================================================================
