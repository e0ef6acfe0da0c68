-------------------------- MODULE MCQMutexPrivate --------------------------
(* Symmetry for the run about reuse by another mutex: threads, mutexes and *)
(* objects are interchangeable, and that run has no liveness property.     *)
EXTENDS QMutexPrivate, TLC
Symmetry == Permutations(Threads) \cup Permutations(Locks) \cup Permutations(Privates)
=============================================================================
