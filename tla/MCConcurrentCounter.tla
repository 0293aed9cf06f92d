------------------------- MODULE MCConcurrentCounter -------------------------
(* Model values and symmetry for checking ConcurrentCounter with TLC.      *)
EXTENDS ConcurrentCounter, TLC

CONSTANTS t1, t2, t3

\* The threads are interchangeable.
ThreadSymmetry == Permutations(Threads)
==============================================================================
