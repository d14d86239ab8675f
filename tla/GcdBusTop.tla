------------------------------- MODULE GcdBusTop -------------------------------
(***************************************************************************)
(* The TP2 platform (tp2_multi_top.cpp): GCD masters and GCD coprocessors  *)
(* around the VGSB bus.  Every master drives a coprocessor of its own,     *)
(* whose segment base is the constructor parameter m_base of the master:   *)
(* Base[i] is the target that the bus decodes from that base.              *)
(*                                                                         *)
(* One step is one clock cycle.  On a rising edge every transition() runs  *)
(* on the ports computed from the registers since the falling edge: by     *)
(* genMoore() in the masters and coprocessors, and by the bus's Mealy      *)
(* functions from those.  There is no path from a Mealy output back to a   *)
(* Mealy input, so the ports are functions of the registers.               *)
(***************************************************************************)
EXTENDS VciGcdMaster, VciGcdCoprocessor, VciVgsb

CONSTANT Base           \* Base[i]: the target whose segment master i addresses

ASSUME BaseAssumption ==
  /\ Base \in [Initiator -> Target]
  /\ \A i, j \in Initiator : Base[i] = Base[j] => i = j

VARIABLES master, coproc        \* master[i], coproc[t]: the registers of each

vars == <<master, coproc, bus>>

-------------------------------------------------------------------------------
(* The output ports of the masters and coprocessors.                       *)
cmdval == [i \in Initiator |-> MasterCmdval(master[i])]
rspack == [i \in Initiator |-> MasterRspack(master[i])]
cmdack == [t \in Target |-> CoprocCmdack(coproc[t])]
rspval == [t \in Target |-> CoprocRspval(coproc[t])]

Masters(pairs) ==
  master' = [i \in Initiator |->
    MasterTransition(master[i], ToInitiatorCmdack(i, cmdack),
                     ToInitiatorRspval(i, rspval), CoprocRdata(coproc[bus.tgt]),
                     IF i \in DOMAIN pairs THEN pairs[i] ELSE <<0, 0>>)]

Coprocessors ==
  coproc' = [t \in Target |->
    CoprocTransition(coproc[t], ToTargetCmdval(t, cmdval), MasterCommand(master[bus.ini]),
                     bus.ini, Base[bus.ini] = t, ToTargetRspack(t, rspack))]

Init ==
  /\ master = [i \in Initiator |-> MasterReset]
  /\ coproc = [t \in Target |-> CoprocReset(0)]
  /\ BusReset

(* The simulation goes on until a coprocessor ends it.                     *)
Clock ==
  /\ \A t \in Target : coproc[t].vci /= "HALT"
  /\ \E pairs \in [{i \in Initiator : master[i].fsm = "RANDOM"} -> RandPairs] : Masters(pairs)
  /\ Coprocessors
  /\ BusTransition(cmdval, Base, cmdack, rspval, rspack)

Spec == Init /\ [][Clock]_vars /\ WF_vars(Clock)

-------------------------------------------------------------------------------
TypeOK ==
  /\ master \in [Initiator -> MasterReg]
  /\ coproc \in [Target -> [vci : CoprocState, exe : ExeState, srcid : Initiator,
                            opa : Word, opb : Word]]
  /\ bus \in BusReg

(* The state in which a coprocessor answers the command master i sent.     *)
Answering(fsm) ==
  CASE fsm = "RSP_OPA"    -> "VCI_RSP_OPA"
    [] fsm = "RSP_OPB"    -> "VCI_RSP_OPB"
    [] fsm = "RSP_START"  -> "VCI_RSP_START"
    [] fsm = "RSP_STATUS" -> "VCI_RSP_STATUS"
    [] fsm = "RSP_RESULT" -> "VCI_RSP_RESULT"

(***************************************************************************)
(* One transaction at a time, and it is the right one: the master elected  *)
(* for a command still holds it; a master awaits a response exactly when   *)
(* the bus carries its transaction, the coprocessor it addressed is the    *)
(* one preparing that response, and has kept the master's identity.        *)
(* Nobody else holds a command: none is lost, duplicated, or delivered to  *)
(* a coprocessor the master did not address.                               *)
(***************************************************************************)
OneTransaction ==
  /\ bus.fsm = "FSM_CMD" => master[bus.ini].fsm \in MasterCmd /\ bus.tgt = Base[bus.ini]
  /\ \A i \in Initiator :
       master[i].fsm \in MasterRsp =>
         /\ bus.fsm = "FSM_RSP" /\ bus.ini = i /\ bus.tgt = Base[i]
         /\ coproc[Base[i]].vci = Answering(master[i].fsm)
         /\ coproc[Base[i]].srcid = i
  /\ bus.fsm = "FSM_RSP" => master[bus.ini].fsm \in MasterRsp
  /\ \A t \in Target :
       coproc[t].vci /= "VCI_GET_CMD" => bus.fsm = "FSM_RSP" /\ bus.tgt = t

(***************************************************************************)
(* A master whose coprocessor computes is polling its status: the operands *)
(* are never written under a running computation, a start never reaches a  *)
(* busy coprocessor, and a read of the result never waits.                 *)
(***************************************************************************)
BusyOnlyWhilePolled ==
  \A i \in Initiator :
    coproc[Base[i]].exe /= "EXE_IDLE" =>
      master[i].fsm \in {"CMD_STATUS", "RSP_STATUS"}

(* What the coprocessor of master i computes is the gcd of i's operands.   *)
GcdKept ==
  \A i \in Initiator :
    LET m == master[i]
        c == coproc[Base[i]]
    IN  /\ c.exe = "EXE_DECA" => c.opa > c.opb
        /\ c.exe = "EXE_DECB" => c.opb > c.opa
        /\ m.fsm \in {"RSP_OPA", "CMD_OPB"} => c.opa = m.opa
        /\ m.fsm \in {"RSP_OPB", "CMD_START", "RSP_START"} => c.opa = m.opa /\ c.opb = m.opb
        /\ m.fsm \in {"CMD_STATUS", "RSP_STATUS", "CMD_RESULT", "RSP_RESULT"} =>
             /\ CommonDivisors(c.opa, c.opb) = CommonDivisors(m.opa, m.opb)
             /\ c.exe = "EXE_IDLE" => c.opa = c.opb
        /\ m.fsm \in {"CMD_RESULT", "RSP_RESULT"} => c.exe = "EXE_IDLE"

(***************************************************************************)
(* Every master displays the gcd of its own operands of this iteration,    *)
(* however the transactions of the masters interleave on the bus.          *)
(***************************************************************************)
ResultIsGcd ==
  \A i \in Initiator :
    master[i].fsm = "DISPLAY" => IsGcd(master[i].res, master[i].opa, master[i].opb)

-------------------------------------------------------------------------------
(* The platform seen by its clients, the masters.                          *)
JobOf(m) ==
  CASE m.fsm = "RANDOM"  -> [st |-> "idle", a |-> 0, b |-> 0, g |-> 0]
    [] m.fsm = "DISPLAY" -> [st |-> "answered", a |-> m.opa, b |-> m.opb, g |-> m.res]
    [] OTHER             -> [st |-> "asked", a |-> m.opa, b |-> m.opb, g |-> 0]

Service == INSTANCE GcdService
             WITH Client <- Initiator, job <- [i \in Initiator |-> JobOf(master[i])]

(* The platform of several masters implements the same gcd service as TP1. *)
ImplementsService == Service!Spec

(* Every computable request is answered, if all of them are computable.    *)
RequestsAnswered == Service!Responsive

(***************************************************************************)
(* A request on the bus is eventually granted, as the round robin priority *)
(* of vci_vgsb.h:35 promises.                                              *)
(***************************************************************************)
RequestsGranted ==
  \A i \in Initiator : cmdval[i] ~> (bus.fsm = "FSM_CMD" /\ bus.ini = i)
===============================================================================
