----------------------------- MODULE FifoGcdMaster -----------------------------
(***************************************************************************)
(* The "hardwired" master of TP1 (fifo_gcd_master.cpp).  An action is one  *)
(* case of transition(): what the registers become at the rising edge,     *)
(* given the input ports wok (p_out.wok), rok and data (p_in.rok, .data).  *)
(* The counters r_cyclecount and r_iterationcount are only ever printed    *)
(* and are left out.                                                       *)
(***************************************************************************)
EXTENDS GcdArith

CONSTANT RandPairs      \* the operand pairs two calls of rand() may return

ASSUME RandPairsAssumption == RandPairs \subseteq Word \X Word

VARIABLES m_fsm, m_opa, m_opb, m_res

masterVars == <<m_fsm, m_opa, m_opb, m_res>>

MasterState == {"RANDOM", "WRITE_OPA", "WRITE_OPB", "READ_RES", "DISPLAY"}

(* The reset writes r_fsm only; an sc_signal is 0 until it is written.     *)
MasterInit ==
  /\ m_fsm = "RANDOM"
  /\ m_opa = 0 /\ m_opb = 0 /\ m_res = 0

Random ==
  /\ m_fsm = "RANDOM"
  /\ \E p \in RandPairs : m_opa' = p[1] /\ m_opb' = p[2]
  /\ m_fsm' = "WRITE_OPA"
  /\ m_res' = m_res

WriteOpa(wok) ==
  /\ m_fsm = "WRITE_OPA"
  /\ m_fsm' = IF wok THEN "WRITE_OPB" ELSE m_fsm
  /\ UNCHANGED <<m_opa, m_opb, m_res>>

WriteOpb(wok) ==
  /\ m_fsm = "WRITE_OPB"
  /\ m_fsm' = IF wok THEN "READ_RES" ELSE m_fsm
  /\ UNCHANGED <<m_opa, m_opb, m_res>>

(* Mistaken readers: one does not wait for rok, one does not latch data.   *)
ReadResNoWait(rok, data) ==
  /\ m_fsm = "READ_RES"
  /\ m_res' = data /\ m_fsm' = "DISPLAY"
  /\ UNCHANGED <<m_opa, m_opb>>

ReadResNoLatch(rok, data) ==
  /\ m_fsm = "READ_RES"
  /\ m_fsm' = IF rok THEN "DISPLAY" ELSE m_fsm
  /\ UNCHANGED <<m_opa, m_opb, m_res>>

ReadRes(rok, data) ==
  /\ m_fsm = "READ_RES"
  /\ IF rok THEN m_res' = data /\ m_fsm' = "DISPLAY"
            ELSE UNCHANGED <<m_res, m_fsm>>
  /\ UNCHANGED <<m_opa, m_opb>>

Display ==
  /\ m_fsm = "DISPLAY"
  /\ m_fsm' = "RANDOM"
  /\ UNCHANGED <<m_opa, m_opb, m_res>>

MasterTransition(wok, rok, data) ==
  Random \/ WriteOpa(wok) \/ WriteOpb(wok) \/ ReadRes(rok, data) \/ Display

(* genMoore(): the output ports, which depend on the registers alone.      *)
MasterR    == m_fsm = "READ_RES"
MasterW    == m_fsm \in {"WRITE_OPA", "WRITE_OPB"}
(* A mistaken multiplexer, that sends the first operand twice.             *)
MasterDataOpaTwice == IF m_fsm \in {"WRITE_OPA", "WRITE_OPB"} THEN m_opa ELSE 0

MasterData == CASE m_fsm = "WRITE_OPA" -> m_opa
                [] m_fsm = "WRITE_OPB" -> m_opb
                [] OTHER -> 0
===============================================================================
