------------------------------- MODULE MCFifoGcd -------------------------------
(***************************************************************************)
(* TP1 with 3-bit registers and every pair of operands, zero included.     *)
(***************************************************************************)
EXTENDS FifoGcdTop

AllPairs == Word \X Word
===============================================================================
