-------------------------------- MODULE VciVgsb --------------------------------
(***************************************************************************)
(* The VCI system bus (vci_vgsb.cpp).  It carries one transaction at a     *)
(* time: the arbiter allocates it to an initiator and to the target the    *)
(* address decodes to, and four Mealy functions multiplex the commands and *)
(* the responses of that couple.                                           *)
(*                                                                         *)
(* An action is one case of transition().  Its inputs are the ports at the *)
(* rising edge: cmdval[i] and rspack[i] driven by the initiators, cmdack[t]*)
(* and rspval[t] by the targets, and decoded[i], the entry of              *)
(* m_routing_table for the address initiator i drives.  Every packet is    *)
(* one flit long, so eop and reop are true.                                *)
(***************************************************************************)
EXTENDS Integers

CONSTANTS NbInitiator,  \* m_nb_initiator
          NbTarget,     \* m_nb_target
          CounterSize   \* r_vci_counter counts modulo this (2^32)

ASSUME VgsbAssumption ==
  /\ NbInitiator \in Nat \ {0} /\ NbTarget \in Nat \ {0}
  /\ CounterSize \in Nat \ {0}

Initiator == 0 .. NbInitiator - 1
Target    == 0 .. NbTarget - 1

VARIABLE bus            \* the registers r_fsm, r_initiator_index,
                        \* r_target_index and r_vci_counter

BusState == {"FSM_IDLE", "FSM_CMD", "FSM_RSP"}

BusReg == [fsm : BusState, ini : Initiator, tgt : Target,
           counter : [Initiator -> [Target -> 0 .. CounterSize - 1]]]

BusReset == bus = [fsm |-> "FSM_IDLE", ini |-> 0, tgt |-> 0,
                   counter |-> [i \in Initiator |-> [t \in Target |-> 0]]]

-------------------------------------------------------------------------------
(* The number of initiators scanned before i.                              *)
Turn(i) == (i + NbInitiator - 1 - bus.ini) % NbInitiator

(* An arbiter with a fixed priority.                                       *)
FirstFixed(i, cmdval) == cmdval[i] /\ \A j \in Initiator : cmdval[j] => i <= j

(* The requesting initiator found first, from the one after r_initiator_index. *)
First(i, cmdval) == cmdval[i] /\ \A j \in Initiator : cmdval[j] => Turn(i) <= Turn(j)

(* A counter that is never brought back within its register.               *)
AllocatedNoWrap(i, t) ==
  [bus EXCEPT !.ini = i, !.tgt = t, !.counter[i][t] = @ + 1]

Allocated(i, t) ==
  [bus EXCEPT !.ini = i, !.tgt = t, !.counter[i][t] = (@ + 1) % CounterSize]

(* The scan of the requests in state FSM_IDLE.                             *)
Allocate(cmdval, decoded) ==
  /\ bus.fsm = "FSM_IDLE"
  /\ \E i \in Initiator :
        /\ First(i, cmdval)
        /\ bus' = [Allocated(i, decoded[i]) EXCEPT !.fsm = "FSM_CMD"]

NoRequest(cmdval) ==
  /\ bus.fsm = "FSM_IDLE"
  /\ \A i \in Initiator : ~cmdval[i]
  /\ UNCHANGED bus

TransferCmd(cmdval, cmdack) ==
  /\ bus.fsm = "FSM_CMD"
  /\ bus' = IF cmdval[bus.ini] /\ cmdack[bus.tgt] THEN [bus EXCEPT !.fsm = "FSM_RSP"]
                                                  ELSE bus

(* The response is transferred and the scan is made again, but the last    *)
(* assignment of the state is FSM_IDLE whatever the scan has found: the    *)
(* indices and the counter move as in an allocation the bus does not make. *)
TransferRsp(cmdval, decoded, rspval, rspack) ==
  /\ bus.fsm = "FSM_RSP"
  /\ IF rspval[bus.tgt] /\ rspack[bus.ini]
     THEN \/ /\ \A i \in Initiator : ~cmdval[i]
             /\ bus' = [bus EXCEPT !.fsm = "FSM_IDLE"]
          \/ \E i \in Initiator :
               /\ First(i, cmdval)
               /\ bus' = [Allocated(i, decoded[i]) EXCEPT !.fsm = "FSM_IDLE"]
     ELSE UNCHANGED bus

BusTransition(cmdval, decoded, cmdack, rspval, rspack) ==
  \/ Allocate(cmdval, decoded)
  \/ NoRequest(cmdval)
  \/ TransferCmd(cmdval, cmdack)
  \/ TransferRsp(cmdval, decoded, rspval, rspack)

-------------------------------------------------------------------------------
(* A multiplexer that ignores the state of the bus.                        *)
ToTargetCmdvalAnyState(t, cmdval) == t = bus.tgt /\ cmdval[bus.ini]

(* The Mealy functions: which initiator's command reaches target t, and    *)
(* which ports see the handshake of the other side.                        *)
ToTargetCmdval(t, cmdval)    == bus.fsm = "FSM_CMD" /\ t = bus.tgt /\ cmdval[bus.ini]
ToInitiatorCmdack(i, cmdack) == bus.fsm = "FSM_CMD" /\ i = bus.ini /\ cmdack[bus.tgt]
ToInitiatorRspval(i, rspval) == bus.fsm = "FSM_RSP" /\ i = bus.ini /\ rspval[bus.tgt]
ToTargetRspack(t, rspack)    == bus.fsm = "FSM_RSP" /\ t = bus.tgt /\ rspack[bus.ini]
===============================================================================
