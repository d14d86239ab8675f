-------------------------- MODULE VciGcdCoprocessor --------------------------
(***************************************************************************)
(* The VCI GCD coprocessor of TP2 (vci_gcd_coprocessor.cpp): a record of   *)
(* registers, transition() as the function CoprocTransition from registers *)
(* and input ports to registers, and genMoore() as CoprocCmdack,           *)
(* CoprocRspval and CoprocRdata.  Its two state machines share r_opa and   *)
(* r_opb: the execution part subtracts, the VCI part loads.                *)
(* r_trdid and r_pktid only ever hold the constant 0 the masters send.     *)
(***************************************************************************)
EXTENDS GcdArith

CoprocRspState == {"VCI_RSP_OPA", "VCI_RSP_OPB", "VCI_RSP_START",
                   "VCI_RSP_STATUS", "VCI_RSP_RESULT"}

(* HALT stands for the two ways the code ends the simulation: exit(0) on   *)
(* an illegal command and the failed assertion.                            *)
CoprocState == CoprocRspState \cup {"VCI_GET_CMD", "HALT"}

ExeState == {"EXE_IDLE", "EXE_COMPARE", "EXE_DECA", "EXE_DECB"}

CoprocReset(srcid) ==
  [vci |-> "VCI_GET_CMD", exe |-> "EXE_IDLE", srcid |-> srcid, opa |-> 0, opb |-> 0]

-------------------------------------------------------------------------------
(* genMoore().                                                             *)
CoprocCmdack(c) == c.vci = "VCI_GET_CMD"

(* The response to a read of the result waits for the end of the           *)
(* computation; every other response is there at once.                     *)
CoprocRspval(c) ==
  \/ c.vci \in CoprocRspState \ {"VCI_RSP_RESULT"}
  \/ c.vci = "VCI_RSP_RESULT" /\ c.exe = "EXE_IDLE"

(* A mistaken decoder, that answers every read with the status.            *)
CoprocRdataStatus(c) == IF c.exe = "EXE_IDLE" THEN 0 ELSE 1

CoprocRdata(c) ==
  CASE c.vci = "VCI_RSP_STATUS" -> IF c.exe = "EXE_IDLE" THEN 0 ELSE 1
    [] c.vci = "VCI_RSP_RESULT" -> c.opa
    [] OTHER -> 0

-------------------------------------------------------------------------------
(* transition().                                                           *)

Compare(c) ==
  CASE c.opa < c.opb -> "EXE_DECB"
    [] c.opb < c.opa -> "EXE_DECA"
    [] c.opa = c.opb -> "EXE_IDLE"

(* The execution state machine.                                            *)
ExeTransition(c) ==
  CASE c.exe = "EXE_IDLE"    ->
         IF c.vci = "VCI_RSP_START" THEN [c EXCEPT !.exe = "EXE_COMPARE"] ELSE c
    [] c.exe = "EXE_COMPARE" -> [c EXCEPT !.exe = Compare(c)]
    [] c.exe = "EXE_DECA"    -> [c EXCEPT !.exe = "EXE_COMPARE", !.opa = WordSub(c.opa, c.opb)]
    [] c.exe = "EXE_DECB"    -> [c EXCEPT !.exe = "EXE_COMPARE", !.opb = WordSub(c.opb, c.opa)]

(* The VCI state a command leads to.                                       *)
Decode(cmd, cell) ==
  CASE cmd = "READ"  /\ cell = "GCD_OPA"    -> "VCI_RSP_RESULT"
    [] cmd = "READ"  /\ cell = "GCD_STATUS" -> "VCI_RSP_STATUS"
    [] cmd = "WRITE" /\ cell = "GCD_OPA"    -> "VCI_RSP_OPA"
    [] cmd = "WRITE" /\ cell = "GCD_OPB"    -> "VCI_RSP_OPB"
    [] cmd = "WRITE" /\ cell = "GCD_START"  -> "VCI_RSP_START"
    [] OTHER                                -> "HALT"

(* A load overrides what the execution part writes in the same cycle: its  *)
(* assignment comes later in transition() and the last write of a signal   *)
(* wins.  e holds the registers the execution part leaves.                 *)
GetCmd(e, cmdval, command, srcid, mine) ==
  IF ~cmdval THEN e
  ELSE IF ~mine THEN [e EXCEPT !.vci = "HALT"]
  ELSE LET rsp == Decode(command.cmd, command.cell)
       IN  [e EXCEPT !.vci   = rsp,
                     !.srcid = srcid,
                     !.opa   = IF rsp = "VCI_RSP_OPA" THEN command.wdata ELSE e.opa,
                     !.opb   = IF rsp = "VCI_RSP_OPB" THEN command.wdata ELSE e.opb]

Respond(e, rspack) ==
  IF rspack THEN [e EXCEPT !.vci = "VCI_GET_CMD"] ELSE e

(* mine tells whether the address is in the coprocessor's segment.         *)
CoprocTransition(c, cmdval, command, srcid, mine, rspack) ==
  LET e == ExeTransition(c)
  IN  IF c.vci = "VCI_GET_CMD" THEN GetCmd(e, cmdval, command, srcid, mine)
                               ELSE Respond(e, rspack)
===============================================================================
