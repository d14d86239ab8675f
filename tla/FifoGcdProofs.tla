---------------------------- MODULE FifoGcdProofs ----------------------------
(***************************************************************************)
(* The TP1 platform for registers of any width and every operand pair.     *)
(* One inductive invariant carries all of it: the two state machines move  *)
(* in lockstep (Lockstep), the coprocessor holds words with the common     *)
(* divisors of the master's operands (GcdKept), and it holds a zero        *)
(* exactly where the master does once one of its operands is null.         *)
(***************************************************************************)
EXTENDS FifoGcdTop, GcdArithProofs

USE DEF MasterState, CoprocState, Computing

ZeroKept ==
  c_fsm \in Computing /\ ((m_opa = 0) /= (m_opb = 0)) =>
    /\ (c_opa = 0) = (m_opa = 0) /\ (c_opb = 0) = (m_opb = 0)

IInv ==
  TypeOK /\ Lockstep /\ GcdKept /\ ResultIsGcd /\ ZeroKept /\ OneZeroNeverAnswered

LEMMA InitIInv == Init => IInv
<1>1. 0 \in Word
  BY MaxWordAssumption DEF Word
<1>2. QED
  BY <1>1 DEF Init, MasterInit, CoprocInit, IInv, TypeOK, Lockstep, GcdKept,
              ResultIsGcd, ZeroKept, OneZeroNeverAnswered

(* A step of the master together with the step of the coprocessor that     *)
(* Lockstep allows beside it: one case per state of the master, and within *)
(* READ_RES one per state of the coprocessor.                              *)
LEMMA StepIInv == IInv /\ [Clock]_vars => IInv'
<1> SUFFICES ASSUME IInv, [Clock]_vars
             PROVE  IInv'
  OBVIOUS
<1> USE DEF IInv
<1>1. CASE Random /\ ReadOpa(MasterW, MasterData)
  <2>1. PICK p \in RandPairs : m_opa' = p[1] /\ m_opb' = p[2]
    BY <1>1 DEF Random
  <2>2. p[1] \in Word /\ p[2] \in Word
    BY RandPairsAssumption
  <2>3. m_fsm' = "WRITE_OPA" /\ m_res' = m_res
    BY <1>1 DEF Random
  <2>4. UNCHANGED coprocVars /\ c_fsm = "READ_OPA"
    BY <1>1 DEF ReadOpa, MasterW, Random, coprocVars
  <2>5. QED
    BY <2>1, <2>2, <2>3, <2>4
       DEF TypeOK, Lockstep, GcdKept, ResultIsGcd, ZeroKept, OneZeroNeverAnswered, coprocVars
<1>2. CASE WriteOpa(CoprocR) /\ ReadOpa(MasterW, MasterData)
  BY <1>2 DEF WriteOpa, ReadOpa, MasterW, MasterData, CoprocR,
              TypeOK, Lockstep, GcdKept, ResultIsGcd, ZeroKept, OneZeroNeverAnswered
<1>3. CASE WriteOpb(CoprocR) /\ ReadOpb(MasterW, MasterData)
  BY <1>3 DEF WriteOpb, ReadOpb, MasterW, MasterData, CoprocR,
              TypeOK, Lockstep, GcdKept, ResultIsGcd, ZeroKept, OneZeroNeverAnswered
<1>4. CASE ReadRes(CoprocW, CoprocData) /\ Compare
  <2>1. m_fsm = "READ_RES" /\ UNCHANGED masterVars /\ c_fsm = "COMPARE"
    BY <1>4 DEF ReadRes, Compare, CoprocW, masterVars
  <2>2. c_opa \in Int /\ c_opb \in Int
    BY MaxWordAssumption DEF TypeOK, Word
  <2>3. /\ c_fsm' \in {"DECR_A", "DECR_B", "WRITE_RES"}
        /\ c_fsm' = "DECR_A" => c_opa > c_opb
        /\ c_fsm' = "DECR_B" => c_opb > c_opa
        /\ c_fsm' = "WRITE_RES" => c_opa = c_opb
        /\ UNCHANGED <<c_opa, c_opb>>
    BY <1>4, <2>2 DEF Compare
  <2>4. QED
    BY <2>1, <2>3 DEF masterVars, TypeOK, Lockstep, GcdKept, ResultIsGcd, ZeroKept,
                      OneZeroNeverAnswered
<1>5. CASE ReadRes(CoprocW, CoprocData) /\ DecrA
  <2>1. m_fsm = "READ_RES" /\ UNCHANGED masterVars /\ c_fsm = "DECR_A"
    BY <1>5 DEF ReadRes, DecrA, CoprocW, masterVars
  <2>2. c_opa > c_opb /\ c_opa \in Word /\ c_opb \in Word
    BY <2>1 DEF GcdKept, TypeOK
  <2>3. /\ c_opa' = c_opa - c_opb /\ c_opa' \in Word /\ c_opb' = c_opb
        /\ c_fsm' = "COMPARE"
    BY <1>5, <2>2, WordSubInWord, MaxWordAssumption DEF DecrA, Word
  <2>4. CommonDivisors(c_opa', c_opb') = CommonDivisors(c_opa, c_opb)
    BY <1>5, <2>2, SubtractionKeepsDivisors DEF DecrA
  <2>5. (m_opa = 0) /= (m_opb = 0) => (c_opa' = 0) = (m_opa = 0) /\ (c_opb' = 0) = (m_opb = 0)
    BY <2>1, <2>2, <2>3, MaxWordAssumption DEF ZeroKept, Word
  <2>6. QED
    BY <2>1, <2>2, <2>3, <2>4, <2>5
       DEF masterVars, TypeOK, Lockstep, GcdKept, ResultIsGcd, ZeroKept, OneZeroNeverAnswered
<1>6. CASE ReadRes(CoprocW, CoprocData) /\ DecrB
  <2>1. m_fsm = "READ_RES" /\ UNCHANGED masterVars /\ c_fsm = "DECR_B"
    BY <1>6 DEF ReadRes, DecrB, CoprocW, masterVars
  <2>2. c_opb > c_opa /\ c_opa \in Word /\ c_opb \in Word
    BY <2>1 DEF GcdKept, TypeOK
  <2>3. /\ c_opb' = c_opb - c_opa /\ c_opb' \in Word /\ c_opa' = c_opa
        /\ c_fsm' = "COMPARE"
    BY <1>6, <2>2, WordSubInWord, MaxWordAssumption DEF DecrB, Word
  <2>4. CommonDivisors(c_opa', c_opb') = CommonDivisors(c_opa, c_opb)
    BY <1>6, <2>2, SubtractionKeepsDivisors, CommonDivisorsSwap DEF DecrB
  <2>5. (m_opa = 0) /= (m_opb = 0) => (c_opa' = 0) = (m_opa = 0) /\ (c_opb' = 0) = (m_opb = 0)
    BY <2>1, <2>2, <2>3, MaxWordAssumption DEF ZeroKept, Word
  <2>6. QED
    BY <2>1, <2>2, <2>3, <2>4, <2>5
       DEF masterVars, TypeOK, Lockstep, GcdKept, ResultIsGcd, ZeroKept, OneZeroNeverAnswered
<1>7. CASE ReadRes(CoprocW, CoprocData) /\ WriteRes(MasterR)
  <2>1. m_res' = c_opa /\ m_fsm' = "DISPLAY" /\ UNCHANGED <<m_opa, m_opb>>
    BY <1>7 DEF ReadRes, WriteRes, CoprocW, CoprocData
  <2>2. c_fsm = "WRITE_RES" /\ c_fsm' = "READ_OPA" /\ UNCHANGED <<c_opa, c_opb>>
    BY <1>7 DEF ReadRes, WriteRes, MasterR
  <2>3. c_opa = c_opb /\ CommonDivisors(c_opa, c_opb) = CommonDivisors(m_opa, m_opb)
    BY <2>2 DEF GcdKept
  <2>4. ~((m_opa = 0) /= (m_opb = 0))
    BY <2>2, <2>3 DEF ZeroKept
  <2>5. QED
    BY <2>1, <2>2, <2>3, <2>4
       DEF TypeOK, Lockstep, GcdKept, ResultIsGcd, ZeroKept, OneZeroNeverAnswered, IsGcd
<1>8. CASE Display /\ ReadOpa(MasterW, MasterData)
  BY <1>8 DEF Display, ReadOpa, MasterW,
              TypeOK, Lockstep, GcdKept, ResultIsGcd, ZeroKept, OneZeroNeverAnswered
<1>9. CASE UNCHANGED vars
  BY <1>9 DEF vars, masterVars, coprocVars, TypeOK, Lockstep, GcdKept, ResultIsGcd,
              ZeroKept, OneZeroNeverAnswered
<1>10. QED
  <2>1. CASE Clock
    <3>1. MasterTransition(CoprocR, CoprocW, CoprocData)
          /\ CoprocTransition(MasterW, MasterData, MasterR)
      BY <2>1 DEF Clock
    <3>2. QED
      BY <3>1, <1>1, <1>2, <1>3, <1>4, <1>5, <1>6, <1>7, <1>8
         DEF MasterTransition, CoprocTransition, Random, WriteOpa, WriteOpb, ReadRes, Display,
             ReadOpa, ReadOpb, Compare, DecrA, DecrB, WriteRes, Lockstep
  <2>2. QED
    BY <2>1, <1>9

(* No register of the two components ever leaves its range.                *)
THEOREM TypeAlwaysOK == Spec => []TypeOK
<1>1. IInv => TypeOK
  BY DEF IInv
<1>2. QED
  BY InitIInv, StepIInv, <1>1, PTL DEF Spec

(* What DECR_A and DECR_B leave in the register they write is the          *)
(* difference of the two integers, and a positive one.                     *)
NoBorrow ==
  /\ c_fsm = "DECR_A" => c_opa' = c_opa - c_opb /\ c_opa' > 0 /\ c_opb' = c_opb
  /\ c_fsm = "DECR_B" => c_opb' = c_opb - c_opa /\ c_opb' > 0 /\ c_opa' = c_opa

(* The registers hold words of MaxWord + 1 values and WordSub is modulo     *)
(* that number, yet no subtraction of DECR_A or DECR_B ever wraps: Compare *)
(* sends the coprocessor to the one that takes the smaller operand from    *)
(* the larger (fifo_gcd_coprocessor.cpp:80-93).                            *)
THEOREM SubtractionsNeverWrap == Spec => [][NoBorrow]_vars
<1>1. IInv /\ [Clock]_vars => [NoBorrow]_vars
  <2> SUFFICES ASSUME IInv, Clock PROVE NoBorrow
    OBVIOUS
  <2>1. c_opa \in 0 .. MaxWord /\ c_opb \in 0 .. MaxWord /\ MaxWord \in Nat
    BY MaxWordAssumption DEF IInv, TypeOK, Word
  <2>2. CoprocTransition(MasterW, MasterData, MasterR)
    BY DEF Clock
  <2>3. CASE c_fsm = "DECR_A"
    <3>1. DecrA /\ c_opa > c_opb
      BY <2>2, <2>3 DEF CoprocTransition, ReadOpa, ReadOpb, Compare, DecrB, WriteRes, IInv, GcdKept
    <3>2. WordSub(c_opa, c_opb) = c_opa - c_opb /\ c_opa - c_opb > 0
      BY <2>1, <3>1 DEF WordSub
    <3> QED BY <2>3, <3>1, <3>2 DEF DecrA, NoBorrow
  <2>4. CASE c_fsm = "DECR_B"
    <3>1. DecrB /\ c_opb > c_opa
      BY <2>2, <2>4 DEF CoprocTransition, ReadOpa, ReadOpb, Compare, DecrA, WriteRes, IInv, GcdKept
    <3>2. WordSub(c_opb, c_opa) = c_opb - c_opa /\ c_opb - c_opa > 0
      BY <2>1, <3>1 DEF WordSub
    <3> QED BY <2>4, <3>1, <3>2 DEF DecrB, NoBorrow
  <2>5. CASE c_fsm \notin {"DECR_A", "DECR_B"}
    BY <2>5 DEF NoBorrow
  <2> QED BY <2>3, <2>4, <2>5
<1> QED BY InitIInv, StepIInv, <1>1, PTL DEF Spec

(* The two state machines of TP1 stay in lockstep, whatever the operands.  *)
THEOREM LockstepAlways == Spec => []Lockstep
<1>1. IInv => Lockstep
  BY DEF IInv
<1>2. QED
  BY InitIInv, StepIInv, <1>1, PTL DEF Spec

(* The master only ever displays the gcd of the operands it displays.      *)
THEOREM ResultAlwaysGcd == Spec => []ResultIsGcd
<1>1. IInv => ResultIsGcd
  BY DEF IInv
<1>2. QED
  BY InitIInv, StepIInv, <1>1, PTL DEF Spec

(* No result is ever displayed for a pair with exactly one null operand.   *)
THEOREM OneZeroNever == Spec => []OneZeroNeverAnswered
<1>1. IInv => OneZeroNeverAnswered
  BY DEF IInv
<1>2. QED
  BY InitIInv, StepIInv, <1>1, PTL DEF Spec

-------------------------------------------------------------------------------
LEMMA InitService == Init => Service!Init
BY DEF Init, MasterInit, JobOfMaster, Jobs, Service!Init, Service!Idle

(* RANDOM asks, the last READ_RES answers, DISPLAY forgets, and every      *)
(* other cycle leaves the job as it is.                                    *)
LEMMA StepService ==
  ASSUME IInv, IInv', [Clock]_vars
  PROVE  [Service!Next]_Jobs
<1> DEFINE c == TheClient
<1>1. Jobs' \in [{TheClient} -> Service!Job]
  <2>1. 0 \in Word /\ TypeOK'
    BY MaxWordAssumption DEF IInv, Word
  <2>2. JobOfMaster' \in Service!Job
    BY <2>1 DEF TypeOK, JobOfMaster, Service!Job, Service!Word, Word
  <2>3. QED
    BY <2>2 DEF Jobs
<1>2. Jobs[c] = JobOfMaster /\ Jobs'[c] = JobOfMaster'
  BY DEF Jobs
<1>3. ASSUME Clock
      PROVE  \/ JobOfMaster' = JobOfMaster
             \/ Service!Ask(c) \/ Service!Answer(c) \/ Service!Forget(c)
  <2>1. MasterTransition(CoprocR, CoprocW, CoprocData)
    BY <1>3 DEF Clock
  <2>2. CASE Random
    <3>1. m_fsm = "RANDOM" /\ m_fsm' = "WRITE_OPA" /\ m_opa' \in Word /\ m_opb' \in Word
      BY <2>2 DEF Random, IInv, TypeOK
    <3>2. Jobs[c] = Service!Idle
      BY <3>1, <1>2 DEF JobOfMaster, Service!Idle
    <3>3. Jobs'[c] = Service!Asked(m_opa', m_opb')
      BY <3>1, <1>2 DEF JobOfMaster, Service!Asked
    <3>4. Service!Ask(c)
      BY <3>1, <3>2, <3>3 DEF Service!Ask, Service!Word, Word
    <3>5. QED
      BY <3>4
  <2>3. CASE WriteOpa(CoprocR) \/ WriteOpb(CoprocR)
    BY <2>3 DEF WriteOpa, WriteOpb, JobOfMaster
  <2>4. CASE ReadRes(CoprocW, CoprocData) /\ m_fsm' = "DISPLAY"
    <3>1. m_fsm = "READ_RES" /\ UNCHANGED <<m_opa, m_opb>> /\ m_res' \in Word
      BY <2>4 DEF ReadRes, IInv, TypeOK
    <3>2. IsGcd(m_res', m_opa, m_opb)
      BY <2>4, <3>1 DEF IInv, ResultIsGcd
    <3>3. Service!IsGcd(m_res', m_opa, m_opb)
      BY <3>2 DEF IsGcd, CommonDivisors, Divides, Divisor, Service!IsGcd,
                  Service!CommonDivisors, Service!Divides, Service!Divisor
    <3>4. /\ Jobs[c].st = "asked" /\ Jobs[c].a = m_opa /\ Jobs[c].b = m_opb
          /\ Jobs'[c] = Service!Answered(m_opa, m_opb, m_res')
      BY <2>4, <3>1, <1>2 DEF JobOfMaster, Service!Answered
    <3>5. Service!Answer(c)
      BY <3>1, <3>3, <3>4 DEF Service!Answer, Service!Word, Word
    <3>6. QED
      BY <3>5
  <2>5. CASE ReadRes(CoprocW, CoprocData) /\ m_fsm' /= "DISPLAY"
    BY <2>5 DEF ReadRes, JobOfMaster
  <2>6. CASE Display
    BY <2>6, <1>2 DEF Display, JobOfMaster, Service!Forget, Service!Idle
  <2>7. QED
    BY <2>1, <2>2, <2>3, <2>4, <2>5, <2>6 DEF MasterTransition
<1>4. CASE Clock
  BY <1>1, <1>2, <1>3, <1>4 DEF Service!Next, TheClient
<1>5. CASE UNCHANGED vars
  BY <1>5 DEF vars, masterVars, Jobs, JobOfMaster
<1>6. QED
  BY <1>4, <1>5

(* The cycle-accurate TP1 platform implements the abstract gcd service.    *)
THEOREM FifoImplementsService == Spec => ImplementsService
<1>1. IInv /\ IInv' /\ [Clock]_vars => [Service!Next]_Jobs
  BY StepService
<1>2. QED
  BY InitIInv, StepIInv, InitService, <1>1, PTL DEF Spec, ImplementsService, Service!Spec
===============================================================================
