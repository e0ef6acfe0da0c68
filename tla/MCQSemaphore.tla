---------------------------- MODULE MCQSemaphore ----------------------------
(* Instances of QSemaphore for TLC. The threads are interchangeable: for   *)
(* the runs that check invariants only, states that differ by a renaming   *)
(* of threads count once.                                                  *)
EXTENDS QSemaphore, TLC

Symmetry == Permutations(Threads)
=============================================================================
