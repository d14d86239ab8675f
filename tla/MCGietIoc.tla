------------------------------- MODULE MCGietIoc -------------------------------
EXTENDS GietIocClients, TLC

CONSTANTS t0, t1, t2

TwoImages == <<"a0", "a1", "b0", "b1">>

Rd(lba, buffer) == [op |-> "READ",  lba |-> lba, buffer |-> buffer]
Wr(lba, buffer) == [op |-> "WRITE", lba |-> lba, buffer |-> buffer]

(* Reads and writes of the same blocks, and a buffer of the kernel.        *)
MixedRequests == (t0 :> <<Rd(0, "p"), Rd(2, "k")>>)
              @@ (t1 :> <<Wr(0, "q"), Rd(2, "q")>>)
              @@ (t2 :> <<Rd(0, "r")>>)
===============================================================================
