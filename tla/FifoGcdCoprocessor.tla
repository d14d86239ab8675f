-------------------------- MODULE FifoGcdCoprocessor --------------------------
(***************************************************************************)
(* The GCD coprocessor of TP1 (fifo_gcd_coprocessor.cpp), one action per   *)
(* case of transition(), with the input ports rok, data (p_in) and wok     *)
(* (p_out).                                                                *)
(***************************************************************************)
EXTENDS GcdArith

VARIABLES c_fsm, c_opa, c_opb

coprocVars == <<c_fsm, c_opa, c_opb>>

CoprocState == {"READ_OPA", "READ_OPB", "COMPARE", "DECR_A", "DECR_B", "WRITE_RES"}

CoprocInit == c_fsm = "READ_OPA" /\ c_opa = 0 /\ c_opb = 0

ReadOpa(rok, data) ==
  /\ c_fsm = "READ_OPA"
  /\ IF rok THEN c_opa' = data /\ c_fsm' = "READ_OPB"
            ELSE UNCHANGED <<c_opa, c_fsm>>
  /\ c_opb' = c_opb

ReadOpb(rok, data) ==
  /\ c_fsm = "READ_OPB"
  /\ IF rok THEN c_opb' = data /\ c_fsm' = "COMPARE"
            ELSE UNCHANGED <<c_opb, c_fsm>>
  /\ c_opa' = c_opa

(* A mistaken comparator, that takes a null operand for the end of the     *)
(* computation.                                                            *)
CompareZeroEnds ==
  /\ c_fsm = "COMPARE"
  /\ c_fsm' = CASE c_opa = c_opb \/ c_opb = 0 -> "WRITE_RES"
                [] c_opa < c_opb -> "DECR_B"
                [] OTHER -> "DECR_A"
  /\ UNCHANGED <<c_opa, c_opb>>

Compare ==
  /\ c_fsm = "COMPARE"
  /\ c_fsm' = CASE c_opa < c_opb -> "DECR_B"
                [] c_opa > c_opb -> "DECR_A"
                [] c_opa = c_opb -> "WRITE_RES"
  /\ UNCHANGED <<c_opa, c_opb>>

DecrA ==
  /\ c_fsm = "DECR_A"
  /\ c_opa' = WordSub(c_opa, c_opb)
  /\ c_fsm' = "COMPARE"
  /\ c_opb' = c_opb

DecrB ==
  /\ c_fsm = "DECR_B"
  /\ c_opb' = WordSub(c_opb, c_opa)
  /\ c_fsm' = "COMPARE"
  /\ c_opa' = c_opa

WriteRes(wok) ==
  /\ c_fsm = "WRITE_RES"
  /\ c_fsm' = IF wok THEN "READ_OPA" ELSE c_fsm
  /\ UNCHANGED <<c_opa, c_opb>>

CoprocTransition(rok, data, wok) ==
  \/ ReadOpa(rok, data) \/ ReadOpb(rok, data)
  \/ Compare \/ DecrA \/ DecrB
  \/ WriteRes(wok)

(* genMoore(): the output ports.                                           *)
CoprocR    == c_fsm \in {"READ_OPA", "READ_OPB"}
CoprocW    == c_fsm = "WRITE_RES"
CoprocData == IF c_fsm = "WRITE_RES" THEN c_opa ELSE 0
===============================================================================
