------------------------- MODULE MCConcurrentStorage -------------------------
(* Model values for checking ConcurrentStorage with TLC.                   *)
EXTENDS ConcurrentStorage, TLC

CONSTANTS t1, t2, t3, n1, n2, n3

==============================================================================
