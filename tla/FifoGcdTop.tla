------------------------------ MODULE FifoGcdTop ------------------------------
(***************************************************************************)
(* The TP1 platform (tp1_top.cpp): the master and the coprocessor joined   *)
(* by two FIFO channels that store nothing.  FifoSignals ties the r output *)
(* of the reader to the wok input of the writer, and the w output of the   *)
(* writer to the rok input of the reader, so a word moves in the one cycle *)
(* where both sides are ready.                                             *)
(*                                                                         *)
(* One step is one clock cycle: both transition() methods run on the same  *)
(* rising edge, on the ports genMoore() computed from the registers at the *)
(* falling edge before.                                                    *)
(***************************************************************************)
EXTENDS FifoGcdMaster, FifoGcdCoprocessor

vars == <<masterVars, coprocVars>>

Init == MasterInit /\ CoprocInit

Clock ==
  /\ MasterTransition(CoprocR, CoprocW, CoprocData)
  /\ CoprocTransition(MasterW, MasterData, MasterR)

Spec == Init /\ [][Clock]_vars /\ WF_vars(Clock)

-------------------------------------------------------------------------------
TypeOK ==
  /\ m_fsm \in MasterState /\ m_opa \in Word /\ m_opb \in Word /\ m_res \in Word
  /\ c_fsm \in CoprocState /\ c_opa \in Word /\ c_opb \in Word

Computing == {"COMPARE", "DECR_A", "DECR_B", "WRITE_RES"}

(***************************************************************************)
(* The two state machines never drift apart: the coprocessor expects the   *)
(* operand the master is sending, and the master waits for a result as     *)
(* long as one is being computed.  No word is lost, repeated or swapped    *)
(* although the channels hold none, and no wait in transition() is one     *)
(* where both sides wait for each other.                                   *)
(***************************************************************************)
Lockstep ==
  /\ m_fsm \in {"RANDOM", "WRITE_OPA", "DISPLAY"} <=> c_fsm = "READ_OPA"
  /\ m_fsm = "WRITE_OPB" <=> c_fsm = "READ_OPB"
  /\ m_fsm = "READ_RES" <=> c_fsm \in Computing
  /\ c_fsm = "READ_OPB" => c_opa = m_opa

(***************************************************************************)
(* Subtraction neither wraps below zero nor changes the common divisors of *)
(* the operands the master still holds.                                    *)
(***************************************************************************)
GcdKept ==
  /\ c_fsm = "DECR_A" => c_opa > c_opb
  /\ c_fsm = "DECR_B" => c_opb > c_opa
  /\ c_fsm = "WRITE_RES" => c_opa = c_opb
  /\ c_fsm \in Computing => CommonDivisors(c_opa, c_opb) = CommonDivisors(m_opa, m_opb)

(***************************************************************************)
(* What the master displays is the gcd of the two operands it displays     *)
(* with it, not that of an earlier iteration or of half-loaded operands.   *)
(***************************************************************************)
ResultIsGcd == m_fsm = "DISPLAY" => IsGcd(m_res, m_opa, m_opb)

(***************************************************************************)
(* Subtracting zero makes no progress: once exactly one operand is null,   *)
(* the coprocessor can never reach WRITE_RES and the platform is stuck for *)
(* good in READ_RES (the report of TP1 says so).                           *)
(***************************************************************************)
OneZeroNeverAnswered == ((m_opa = 0) /= (m_opb = 0)) => m_fsm /= "DISPLAY"

-------------------------------------------------------------------------------
(* The platform seen by its single client.                                 *)
TheClient == "master"

JobOfMaster ==
  CASE m_fsm = "RANDOM"  -> [st |-> "idle", a |-> 0, b |-> 0, g |-> 0]
    [] m_fsm = "DISPLAY" -> [st |-> "answered", a |-> m_opa, b |-> m_opb, g |-> m_res]
    [] OTHER             -> [st |-> "asked", a |-> m_opa, b |-> m_opb, g |-> 0]

Jobs == [c \in {TheClient} |-> JobOfMaster]

Service == INSTANCE GcdService WITH Client <- {TheClient}, job <- Jobs

(* The cycle-accurate platform implements the abstract gcd service.        *)
ImplementsService == Service!Spec

(* Every computable request is answered, under fairness of the clock.      *)
RequestsAnswered == Service!Responsive
===============================================================================
