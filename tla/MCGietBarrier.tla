----------------------------- MODULE MCGietBarrier -----------------------------
EXTENDS GietBarrier

InitB(i) == [op |-> "barrier_init", index |-> i]
WaitB(i) == [op |-> "barrier_wait", index |-> i]

(* Barrier 0 is ready.  The tasks initialise barrier 1 together, and use   *)
(* the two in turn; index 2 is out of range.                               *)
TwoBarriers == <<InitB(1), WaitB(2), WaitB(0), WaitB(1), WaitB(0), WaitB(1)>>

(* One barrier, already initialised, used twice in a row.                  *)
Reuse == <<WaitB(0), WaitB(0)>>

(* Cooperative initialisation, then the wait it prepares.                  *)
InitThenWait == <<InitB(0), WaitB(0)>>
===============================================================================
