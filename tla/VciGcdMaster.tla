----------------------------- MODULE VciGcdMaster -----------------------------
(***************************************************************************)
(* The "hardwired" VCI master of TP2 (vci_gcd_master.cpp).  A platform has *)
(* several, so a master is a record of its registers: MasterTransition is  *)
(* transition(), from the registers and the input ports to the next value  *)
(* of the registers, and MasterCmdval, MasterCommand and MasterRspack are  *)
(* the output ports driven by genMoore().  r_cycle and r_iter are only     *)
(* ever printed, and are left out.                                         *)
(***************************************************************************)
EXTENDS GcdArith

CONSTANT RandPairs      \* the operand pairs two calls of rand() may return

ASSUME RandPairsAssumption == RandPairs \subseteq Word \X Word

MasterCmd == {"CMD_OPA", "CMD_OPB", "CMD_START", "CMD_STATUS", "CMD_RESULT"}
MasterRsp == {"RSP_OPA", "RSP_OPB", "RSP_START", "RSP_STATUS", "RSP_RESULT"}
MasterState == MasterCmd \cup MasterRsp \cup {"RANDOM", "DISPLAY"}

MasterReg == [fsm : MasterState, opa : Word, opb : Word, res : Word]

(* The reset writes r_fsm only; an sc_signal is 0 until it is written.     *)
MasterReset == [fsm |-> "RANDOM", opa |-> 0, opb |-> 0, res |-> 0]

-------------------------------------------------------------------------------
(* genMoore().  The address is m_base + 4 * cell, and m_base is the base   *)
(* of one target's segment, so a command carries the cell alone.           *)
Cell == {"GCD_OPA", "GCD_OPB", "GCD_START", "GCD_STATUS"}

Command == [cmd : {"WRITE", "READ"}, cell : Cell, wdata : Word]

MasterCmdval(m) == m.fsm \in MasterCmd

MasterRspack(m) == m.fsm \in MasterRsp

Write(cell, word) == [cmd |-> "WRITE", cell |-> cell, wdata |-> word]
Read(cell)        == [cmd |-> "READ",  cell |-> cell, wdata |-> 0]

MasterCommand(m) ==
  CASE m.fsm = "CMD_OPA"    -> Write("GCD_OPA", m.opa)
    [] m.fsm = "CMD_OPB"    -> Write("GCD_OPB", m.opb)
    [] m.fsm = "CMD_START"  -> Write("GCD_START", 1)
    [] m.fsm = "CMD_STATUS" -> Read("GCD_STATUS")
    [] m.fsm = "CMD_RESULT" -> Read("GCD_OPA")
    [] OTHER                -> Read("GCD_OPA")

-------------------------------------------------------------------------------
(* transition().                                                           *)

(* The state that waits for the response to the command being sent.        *)
AwaitRsp(fsm) ==
  CASE fsm = "CMD_OPA"    -> "RSP_OPA"
    [] fsm = "CMD_OPB"    -> "RSP_OPB"
    [] fsm = "CMD_START"  -> "RSP_START"
    [] fsm = "CMD_STATUS" -> "RSP_STATUS"
    [] fsm = "CMD_RESULT" -> "RSP_RESULT"

(* A mistaken master, that reads the result without polling the status.    *)
AfterRspNoPoll(fsm, rdata) ==
  CASE fsm = "RSP_OPA"    -> "CMD_OPB"
    [] fsm = "RSP_OPB"    -> "CMD_START"
    [] fsm = "RSP_START"  -> "CMD_STATUS"
    [] fsm = "RSP_STATUS" -> "CMD_RESULT"
    [] fsm = "RSP_RESULT" -> "DISPLAY"

(* What follows a response; a non-null status is polled again.             *)
AfterRsp(fsm, rdata) ==
  CASE fsm = "RSP_OPA"    -> "CMD_OPB"
    [] fsm = "RSP_OPB"    -> "CMD_START"
    [] fsm = "RSP_START"  -> "CMD_STATUS"
    [] fsm = "RSP_STATUS" -> IF rdata = 0 THEN "CMD_RESULT" ELSE "CMD_STATUS"
    [] fsm = "RSP_RESULT" -> "DISPLAY"

MasterRandom(m, pair) ==
  [m EXCEPT !.fsm = "CMD_OPA", !.opa = pair[1], !.opb = pair[2]]

MasterSend(m, cmdack) ==
  IF cmdack THEN [m EXCEPT !.fsm = AwaitRsp(m.fsm)] ELSE m

(* A mistaken master, that latches the status instead of the result.       *)
MasterReceiveStatus(m, rspval, rdata) ==
  IF rspval
  THEN [m EXCEPT !.fsm = AfterRsp(m.fsm, rdata),
                 !.res = IF m.fsm = "RSP_STATUS" THEN rdata ELSE m.res]
  ELSE m

MasterReceive(m, rspval, rdata) ==
  IF rspval
  THEN [m EXCEPT !.fsm = AfterRsp(m.fsm, rdata),
                 !.res = IF m.fsm = "RSP_RESULT" THEN rdata ELSE m.res]
  ELSE m

MasterTransition(m, cmdack, rspval, rdata, pair) ==
  CASE m.fsm = "RANDOM"      -> MasterRandom(m, pair)
    [] m.fsm \in MasterCmd   -> MasterSend(m, cmdack)
    [] m.fsm \in MasterRsp   -> MasterReceive(m, rspval, rdata)
    [] m.fsm = "DISPLAY"     -> [m EXCEPT !.fsm = "RANDOM"]
===============================================================================
