----------------------------- MODULE GcdBusProofs -----------------------------
(***************************************************************************)
(* The TP2 platform for any number of masters and coprocessors, registers  *)
(* of any width and every operand pair.                                    *)
(***************************************************************************)
EXTENDS GcdBusTop, GcdArithProofs

CoprocReg == [vci : CoprocState, exe : ExeState, srcid : Initiator, opa : Word, opb : Word]

(* BusyOnlyWhilePolled, GcdKept and ResultIsGcd of a master and the        *)
(* coprocessor it addresses.                                               *)
Pair(m, c) ==
  /\ c.exe /= "EXE_IDLE" => m.fsm \in {"CMD_STATUS", "RSP_STATUS"}
  /\ c.exe = "EXE_DECA" => c.opa > c.opb
  /\ c.exe = "EXE_DECB" => c.opb > c.opa
  /\ m.fsm \in {"RSP_OPA", "CMD_OPB"} => c.opa = m.opa
  /\ m.fsm \in {"RSP_OPB", "CMD_START", "RSP_START"} => c.opa = m.opa /\ c.opb = m.opb
  /\ m.fsm \in {"CMD_STATUS", "RSP_STATUS", "CMD_RESULT", "RSP_RESULT"} =>
       /\ CommonDivisors(c.opa, c.opb) = CommonDivisors(m.opa, m.opb)
       /\ c.exe = "EXE_IDLE" => c.opa = c.opb
  /\ m.fsm = "DISPLAY" => IsGcd(m.res, m.opa, m.opb)

IInv == TypeOK /\ OneTransaction /\ \A i \in Initiator : Pair(master[i], coproc[Base[i]])

USE DEF MasterReg, CoprocReg, MasterState, MasterCmd, MasterRsp, CoprocState, CoprocRspState,
        ExeState

-------------------------------------------------------------------------------
(* A cycle of the execution state machine.                                 *)
LEMMA ExeMoves ==
  ASSUME NEW c \in CoprocReg, NEW e, e = ExeTransition(c),
         c.exe = "EXE_DECA" => c.opa > c.opb,
         c.exe = "EXE_DECB" => c.opb > c.opa
  PROVE  /\ e \in CoprocReg /\ e.vci = c.vci /\ e.srcid = c.srcid
         /\ CommonDivisors(e.opa, e.opb) = CommonDivisors(c.opa, c.opb)
         /\ e.exe = "EXE_DECA" => e.opa > e.opb
         /\ e.exe = "EXE_DECB" => e.opb > e.opa
         /\ c.exe = "EXE_IDLE" =>
              /\ e.opa = c.opa /\ e.opb = c.opb
              /\ e.exe = IF c.vci = "VCI_RSP_START" THEN "EXE_COMPARE" ELSE "EXE_IDLE"
         /\ c.exe /= "EXE_IDLE" /\ e.exe = "EXE_IDLE" => e.opa = e.opb
<1>1. /\ c.opa \in Nat /\ c.opb \in Nat
  BY MaxWordAssumption DEF Word
<1>2. CASE c.exe = "EXE_IDLE"
  BY <1>2 DEF ExeTransition
<1>3. CASE c.exe = "EXE_COMPARE"
  <2>1. e = [c EXCEPT !.exe = Compare(c)]
    BY <1>3 DEF ExeTransition
  <2>2. /\ Compare(c) \in {"EXE_DECA", "EXE_DECB", "EXE_IDLE"}
        /\ Compare(c) = "EXE_DECA" => c.opa > c.opb
        /\ Compare(c) = "EXE_DECB" => c.opb > c.opa
        /\ Compare(c) = "EXE_IDLE" => c.opa = c.opb
    BY <1>1 DEF Compare
  <2> QED
    BY <1>3, <2>1, <2>2
<1>4. CASE c.exe = "EXE_DECA"
  <2>1. e = [c EXCEPT !.exe = "EXE_COMPARE", !.opa = WordSub(c.opa, c.opb)]
    BY <1>4 DEF ExeTransition
  <2>2. CommonDivisors(WordSub(c.opa, c.opb), c.opb) = CommonDivisors(c.opa, c.opb)
    BY <1>4, SubtractionKeepsDivisors
  <2> QED
    BY <1>4, <2>1, <2>2, WordSubInWord, ZenonT(30)
<1>5. CASE c.exe = "EXE_DECB"
  <2>1. e = [c EXCEPT !.exe = "EXE_COMPARE", !.opb = WordSub(c.opb, c.opa)]
    BY <1>5 DEF ExeTransition
  <2>2. CommonDivisors(c.opa, WordSub(c.opb, c.opa)) = CommonDivisors(c.opa, c.opb)
    BY <1>5, SubtractionKeepsDivisors, CommonDivisorsSwap
  <2> QED
    BY <1>5, <2>1, <2>2, WordSubInWord, ZenonT(30)
<1> QED
  BY <1>2, <1>3, <1>4, <1>5

(* A command that is being sent, and the response that it calls for.       *)
LEMMA Sends ==
  ASSUME NEW m \in MasterReg, m.fsm \in MasterCmd, NEW c \in CoprocReg, Pair(m, c),
         c.vci = "VCI_GET_CMD", NEW s \in Initiator
  PROVE  LET n == MasterSend(m, TRUE)
             d == GetCmd(ExeTransition(c), TRUE, MasterCommand(m), s, TRUE)
         IN  /\ n \in MasterReg /\ d \in CoprocReg /\ Pair(n, d) /\ n.fsm \in MasterRsp
             /\ d.vci = Answering(n.fsm) /\ d.srcid = s
<1> DEFINE e == ExeTransition(c)
           n == MasterSend(m, TRUE)
           d == GetCmd(ExeTransition(c), TRUE, MasterCommand(m), s, TRUE)
<1>1. /\ e \in CoprocReg /\ e.vci = c.vci /\ e.srcid = c.srcid
      /\ CommonDivisors(e.opa, e.opb) = CommonDivisors(c.opa, c.opb)
      /\ e.exe = "EXE_DECA" => e.opa > e.opb
      /\ e.exe = "EXE_DECB" => e.opb > e.opa
      /\ c.exe = "EXE_IDLE" => e.opa = c.opa /\ e.opb = c.opb /\ e.exe = "EXE_IDLE"
      /\ c.exe /= "EXE_IDLE" /\ e.exe = "EXE_IDLE" => e.opa = e.opb
  BY ExeMoves DEF Pair
<1>2. n = [m EXCEPT !.fsm = AwaitRsp(m.fsm)]
  BY DEF MasterSend
<1> DEFINE cmd == MasterCommand(m)
           rsp == Decode(cmd.cmd, cmd.cell)
<1>3. d = [e EXCEPT !.vci = rsp, !.srcid = s,
                    !.opa = IF rsp = "VCI_RSP_OPA" THEN cmd.wdata ELSE e.opa,
                    !.opb = IF rsp = "VCI_RSP_OPB" THEN cmd.wdata ELSE e.opb]
  BY DEF GetCmd
<1>4. /\ m.fsm = "CMD_OPA" => rsp = "VCI_RSP_OPA" /\ cmd.wdata = m.opa
      /\ m.fsm = "CMD_OPB" => rsp = "VCI_RSP_OPB" /\ cmd.wdata = m.opb
      /\ m.fsm = "CMD_START" => rsp = "VCI_RSP_START"
      /\ m.fsm = "CMD_STATUS" => rsp = "VCI_RSP_STATUS"
      /\ m.fsm = "CMD_RESULT" => rsp = "VCI_RSP_RESULT"
  BY DEF MasterCommand, Write, Read, Decode
<1> HIDE DEF e, n, d, cmd, rsp
<1>5. /\ AwaitRsp(m.fsm) \in MasterRsp
      /\ m.fsm = "CMD_OPA" => AwaitRsp(m.fsm) = "RSP_OPA"
      /\ m.fsm = "CMD_OPB" => AwaitRsp(m.fsm) = "RSP_OPB"
      /\ m.fsm = "CMD_START" => AwaitRsp(m.fsm) = "RSP_START"
      /\ m.fsm = "CMD_STATUS" => AwaitRsp(m.fsm) = "RSP_STATUS"
      /\ m.fsm = "CMD_RESULT" => AwaitRsp(m.fsm) = "RSP_RESULT"
  BY DEF AwaitRsp
<1>6. rsp = Answering(AwaitRsp(m.fsm)) /\ rsp \in CoprocRspState
  BY <1>4, <1>5 DEF Answering
<1>7. /\ n \in MasterReg /\ n.fsm = AwaitRsp(m.fsm)
      /\ n.opa = m.opa /\ n.opb = m.opb /\ n.res = m.res
  BY <1>2, <1>5
<1>8. /\ d.vci = rsp /\ d.srcid = s /\ d.exe = e.exe
      /\ d.opa = (IF rsp = "VCI_RSP_OPA" THEN cmd.wdata ELSE e.opa)
      /\ d.opb = (IF rsp = "VCI_RSP_OPB" THEN cmd.wdata ELSE e.opb)
      /\ e.exe \in ExeState /\ e.opa \in Word /\ e.opb \in Word
  BY <1>1, <1>3
<1>9. d \in CoprocReg
  <2>1. rsp = "VCI_RSP_OPA" => cmd.wdata \in Word
    BY <1>4
  <2>2. rsp = "VCI_RSP_OPB" => cmd.wdata \in Word
    BY <1>4
  <2> QED
    BY <1>1, <1>3, <1>6, <2>1, <2>2
<1>10. Pair(n, d)
  <2>1. CASE m.fsm = "CMD_OPA"
    BY <1>1, <1>4, <1>5, <1>7, <1>8, <2>1 DEF Pair
  <2>2. CASE m.fsm = "CMD_OPB"
    BY <1>1, <1>4, <1>5, <1>7, <1>8, <2>2 DEF Pair
  <2>3. CASE m.fsm = "CMD_START"
    BY <1>1, <1>4, <1>5, <1>7, <1>8, <2>3 DEF Pair
  <2>4. CASE m.fsm = "CMD_STATUS"
    BY <1>1, <1>4, <1>5, <1>7, <1>8, <2>4 DEF Pair
  <2>5. CASE m.fsm = "CMD_RESULT"
    BY <1>1, <1>4, <1>5, <1>7, <1>8, <2>5 DEF Pair
  <2> QED
    BY <2>1, <2>2, <2>3, <2>4, <2>5
<1> QED
  BY <1>5, <1>6, <1>7, <1>8, <1>9, <1>10 DEF n, d

(* The response, which is there at once.                                   *)
LEMMA Answers ==
  ASSUME NEW m \in MasterReg, m.fsm \in MasterRsp, NEW c \in CoprocReg, Pair(m, c),
         c.vci = Answering(m.fsm),
         NEW n, n = MasterReceive(m, TRUE, CoprocRdata(c)),
         NEW d, d = Respond(ExeTransition(c), TRUE)
  PROVE  /\ CoprocRspval(c) /\ n \in MasterReg /\ d \in CoprocReg /\ Pair(n, d)
         /\ n.fsm \notin MasterRsp /\ d.vci = "VCI_GET_CMD"
<1> DEFINE e == ExeTransition(c)
<1>1. /\ e \in CoprocReg /\ e.vci = c.vci /\ e.srcid = c.srcid
      /\ CommonDivisors(e.opa, e.opb) = CommonDivisors(c.opa, c.opb)
      /\ e.exe = "EXE_DECA" => e.opa > e.opb
      /\ e.exe = "EXE_DECB" => e.opb > e.opa
      /\ c.exe = "EXE_IDLE" =>
           /\ e.opa = c.opa /\ e.opb = c.opb
           /\ e.exe = IF c.vci = "VCI_RSP_START" THEN "EXE_COMPARE" ELSE "EXE_IDLE"
      /\ c.exe /= "EXE_IDLE" /\ e.exe = "EXE_IDLE" => e.opa = e.opb
  BY ExeMoves DEF Pair
<1>2. d = [e EXCEPT !.vci = "VCI_GET_CMD"]
  BY DEF Respond
<1>3. n = [m EXCEPT !.fsm = AfterRsp(m.fsm, CoprocRdata(c)),
                    !.res = IF m.fsm = "RSP_RESULT" THEN CoprocRdata(c) ELSE m.res]
  BY DEF MasterReceive
<1>4. /\ m.fsm = "RSP_STATUS" => CoprocRdata(c) = IF c.exe = "EXE_IDLE" THEN 0 ELSE 1
      /\ m.fsm = "RSP_RESULT" => CoprocRdata(c) = c.opa
  BY DEF CoprocRdata, Answering
<1>5. CoprocRspval(c)
  BY DEF CoprocRspval, Answering, Pair
<1> HIDE DEF e
<1>6. /\ m.fsm = "RSP_OPA" => AfterRsp(m.fsm, CoprocRdata(c)) = "CMD_OPB"
      /\ m.fsm = "RSP_OPB" => AfterRsp(m.fsm, CoprocRdata(c)) = "CMD_START"
      /\ m.fsm = "RSP_START" => AfterRsp(m.fsm, CoprocRdata(c)) = "CMD_STATUS"
      /\ m.fsm = "RSP_STATUS" => AfterRsp(m.fsm, CoprocRdata(c)) =
           IF c.exe = "EXE_IDLE" THEN "CMD_RESULT" ELSE "CMD_STATUS"
      /\ m.fsm = "RSP_RESULT" => AfterRsp(m.fsm, CoprocRdata(c)) = "DISPLAY"
  BY <1>4 DEF AfterRsp
<1>7. /\ n.fsm = AfterRsp(m.fsm, CoprocRdata(c)) /\ n.opa = m.opa /\ n.opb = m.opb
      /\ n.res = IF m.fsm = "RSP_RESULT" THEN CoprocRdata(c) ELSE m.res
  BY <1>3
<1>8. AfterRsp(m.fsm, CoprocRdata(c)) \in MasterCmd \cup {"DISPLAY"}
  BY <1>6
<1>9. n \in MasterReg
  BY <1>3, <1>4, <1>8
<1>10. /\ d \in CoprocReg /\ d.vci = "VCI_GET_CMD" /\ d.exe = e.exe
       /\ d.opa = e.opa /\ d.opb = e.opb
  BY <1>1, <1>2
<1>11. c.vci = "VCI_RSP_START" <=> m.fsm = "RSP_START"
  BY DEF Answering
<1>12. Pair(n, d)
  <2>1. CASE m.fsm \in {"RSP_OPA", "RSP_OPB"}
    BY <1>1, <1>6, <1>7, <1>10, <1>11, <2>1, ZenonT(30) DEF Pair
  <2>2. CASE m.fsm = "RSP_START"
    BY <1>1, <1>6, <1>7, <1>10, <1>11, <2>2, ZenonT(30) DEF Pair
  <2>3. CASE m.fsm = "RSP_STATUS"
    BY <1>1, <1>6, <1>7, <1>10, <1>11, <2>3, ZenonT(30) DEF Pair
  <2>4. CASE m.fsm = "RSP_RESULT"
    <3>1. c.exe = "EXE_IDLE" /\ c.opa = c.opb /\ n.res = c.opa
            /\ CommonDivisors(c.opa, c.opb) = CommonDivisors(m.opa, m.opb)
      BY <1>4, <1>7, <2>4 DEF Pair
    <3>2. IsGcd(n.res, n.opa, n.opb)
      BY <1>7, <3>1 DEF IsGcd
    <3>3. d.exe = "EXE_IDLE" /\ n.fsm = "DISPLAY"
      BY <1>1, <1>6, <1>7, <1>10, <1>11, <2>4, <3>1
    <3> QED
      BY <3>2, <3>3 DEF Pair
  <2> QED
    BY <2>1, <2>2, <2>3, <2>4
<1> QED
  BY <1>5, <1>7, <1>8, <1>9, <1>10, <1>12

(* A master without a transaction on the bus.                              *)
LEMMA Rests ==
  ASSUME NEW m \in MasterReg, NEW c \in CoprocReg, Pair(m, c), c.vci = "VCI_GET_CMD",
         NEW n, \/ n = m
                \/ /\ m.fsm = "RANDOM" /\ \E pair \in Word \X Word : n = MasterRandom(m, pair)
                \/ m.fsm = "DISPLAY" /\ n = [m EXCEPT !.fsm = "RANDOM"],
         NEW e, e = ExeTransition(c)
  PROVE  /\ n \in MasterReg /\ e \in CoprocReg /\ Pair(n, e)
         /\ m.fsm \notin MasterRsp => n.fsm \notin MasterRsp
         /\ e.vci = "VCI_GET_CMD" /\ (m.fsm \in MasterCmd => n.fsm = m.fsm)
<1>1. /\ e \in CoprocReg /\ e.vci = c.vci
      /\ CommonDivisors(e.opa, e.opb) = CommonDivisors(c.opa, c.opb)
      /\ e.exe = "EXE_DECA" => e.opa > e.opb
      /\ e.exe = "EXE_DECB" => e.opb > e.opa
      /\ c.exe = "EXE_IDLE" => e.opa = c.opa /\ e.opb = c.opb /\ e.exe = "EXE_IDLE"
      /\ c.exe /= "EXE_IDLE" /\ e.exe = "EXE_IDLE" => e.opa = e.opb
  BY ExeMoves DEF Pair
<1>2. CASE n = m
  BY <1>1, <1>2 DEF Pair
<1>3. CASE m.fsm = "RANDOM" /\ \E pair \in Word \X Word : n = MasterRandom(m, pair)
  BY <1>1, <1>3, ZenonT(30) DEF Pair, MasterRandom
<1>4. CASE m.fsm = "DISPLAY" /\ n = [m EXCEPT !.fsm = "RANDOM"]
  BY <1>1, <1>4 DEF Pair
<1> QED
  BY <1>2, <1>3, <1>4

-------------------------------------------------------------------------------
LEMMA InitiatorsTargets ==
  /\ 0 \in Initiator /\ 0 \in Target /\ 0 \in Word /\ 0 \in 0 .. CounterSize - 1
  /\ \A i \in Initiator : Base[i] \in Target
  /\ \A i, j \in Initiator : Base[i] = Base[j] => i = j
BY VgsbAssumption, BaseAssumption, MaxWordAssumption DEF Initiator, Target, Word

LEMMA CounterWraps ==
  ASSUME NEW n \in 0 .. CounterSize - 1
  PROVE  (n + 1) % CounterSize \in 0 .. CounterSize - 1
<1>1. CounterSize \in Nat \ {0} /\ n + 1 \in Nat
  BY VgsbAssumption
<1> QED
  BY <1>1

LEMMA AllocatedType ==
  ASSUME bus \in BusReg, NEW i \in Initiator, NEW t \in Target
  PROVE  /\ Allocated(i, t) \in BusReg
         /\ Allocated(i, t).ini = i /\ Allocated(i, t).tgt = t
<1>1. bus.counter \in [Initiator -> [Target -> 0 .. CounterSize - 1]]
  BY DEF BusReg
<1> DEFINE row == [bus.counter[i] EXCEPT ![t] = (bus.counter[i][t] + 1) % CounterSize]
<1>2. row \in [Target -> 0 .. CounterSize - 1]
  BY <1>1, CounterWraps
<1>3. Allocated(i, t) = [bus EXCEPT !.ini = i, !.tgt = t, !.counter = [bus.counter EXCEPT ![i] = row]]
  BY DEF Allocated, BusReg
<1> HIDE DEF row
<1>4. [bus.counter EXCEPT ![i] = row] \in [Initiator -> [Target -> 0 .. CounterSize - 1]]
  BY <1>1, <1>2
<1> QED
  BY <1>3, <1>4 DEF BusReg

(* A cycle of the bus, whatever the arbiter's choice.                      *)
LEMMA BusMoves ==
  ASSUME bus \in BusReg, BusTransition(cmdval, Base, cmdack, rspval, rspack)
  PROVE  /\ bus' \in BusReg
         /\ \/ bus.fsm = "FSM_IDLE" /\ bus'.fsm = "FSM_IDLE"
            \/ /\ bus.fsm = "FSM_IDLE" /\ bus'.fsm = "FSM_CMD"
               /\ cmdval[bus'.ini] /\ bus'.tgt = Base[bus'.ini]
            \/ /\ bus.fsm = "FSM_CMD"
               /\ cmdval[bus.ini] /\ cmdack[bus.tgt] =>
                    bus'.fsm = "FSM_RSP" /\ bus'.ini = bus.ini /\ bus'.tgt = bus.tgt
               /\ ~(cmdval[bus.ini] /\ cmdack[bus.tgt]) => bus' = bus
            \/ /\ bus.fsm = "FSM_RSP"
               /\ rspval[bus.tgt] /\ rspack[bus.ini] => bus'.fsm = "FSM_IDLE"
               /\ ~(rspval[bus.tgt] /\ rspack[bus.ini]) => bus' = bus
<1>1. CASE Allocate(cmdval, Base)
  <2>1. PICK i \in Initiator :
          cmdval[i] /\ bus' = [Allocated(i, Base[i]) EXCEPT !.fsm = "FSM_CMD"]
    BY <1>1 DEF Allocate, First
  <2>2. /\ Allocated(i, Base[i]) \in BusReg
        /\ Allocated(i, Base[i]).ini = i /\ Allocated(i, Base[i]).tgt = Base[i]
    BY AllocatedType, InitiatorsTargets
  <2>3. bus' \in BusReg /\ bus'.fsm = "FSM_CMD" /\ bus'.ini = i /\ bus'.tgt = Base[i]
    BY <2>1, <2>2 DEF BusReg, BusState
  <2> QED
    BY <1>1, <2>1, <2>3 DEF Allocate
<1>2. CASE NoRequest(cmdval)
  BY <1>2 DEF NoRequest
<1>3. CASE TransferCmd(cmdval, cmdack)
  BY <1>3 DEF TransferCmd, BusReg, BusState
<1>4. CASE TransferRsp(cmdval, Base, rspval, rspack)
  <2>1. CASE rspval[bus.tgt] /\ rspack[bus.ini]
    <3>1. CASE bus' = [bus EXCEPT !.fsm = "FSM_IDLE"]
      BY <1>4, <2>1, <3>1 DEF TransferRsp, BusReg, BusState
    <3>2. ASSUME NEW i \in Initiator, bus' = [Allocated(i, Base[i]) EXCEPT !.fsm = "FSM_IDLE"]
          PROVE  bus' \in BusReg /\ bus'.fsm = "FSM_IDLE"
      <4>1. Allocated(i, Base[i]) \in BusReg
        BY AllocatedType, InitiatorsTargets
      <4> QED
        BY <3>2, <4>1 DEF BusReg, BusState
    <3> QED
      BY <1>4, <2>1, <3>1, <3>2 DEF TransferRsp
  <2>2. CASE ~(rspval[bus.tgt] /\ rspack[bus.ini])
    BY <1>4, <2>2 DEF TransferRsp
  <2> QED
    BY <2>1, <2>2
<1> QED
  BY <1>1, <1>2, <1>3, <1>4 DEF BusTransition

(* The transaction of master i is on the bus.                              *)
Sending(i)  == bus.fsm = "FSM_CMD" /\ bus.ini = i
Awaiting(i) == bus.fsm = "FSM_RSP" /\ bus.ini = i

(* What IInv says of master i and its coprocessor.                         *)
LEMMA Partners ==
  ASSUME IInv, NEW i \in Initiator
  PROVE  /\ master[i] \in MasterReg /\ coproc[Base[i]] \in CoprocReg
         /\ Pair(master[i], coproc[Base[i]]) /\ Base[i] \in Target
         /\ Sending(i) => /\ master[i].fsm \in MasterCmd /\ bus.tgt = Base[i]
                          /\ coproc[Base[i]].vci = "VCI_GET_CMD"
         /\ Awaiting(i) => /\ master[i].fsm \in MasterRsp /\ bus.tgt = Base[i]
                           /\ coproc[Base[i]].vci = Answering(master[i].fsm)
         /\ ~Awaiting(i) => /\ master[i].fsm \notin MasterRsp
                            /\ coproc[Base[i]].vci = "VCI_GET_CMD"
<1>1. master[i] \in MasterReg /\ coproc[Base[i]] \in CoprocReg /\ Base[i] \in Target
  BY InitiatorsTargets DEF IInv, TypeOK
<1>2. bus.ini \in Initiator
  BY DEF IInv, TypeOK, BusReg
<1>3. ~Awaiting(i) => coproc[Base[i]].vci = "VCI_GET_CMD"
  <2> SUFFICES ASSUME coproc[Base[i]].vci /= "VCI_GET_CMD" PROVE Awaiting(i)
    OBVIOUS
  <2>1. bus.fsm = "FSM_RSP" /\ bus.tgt = Base[i]
    BY <1>1 DEF IInv, OneTransaction
  <2>2. master[bus.ini].fsm \in MasterRsp /\ bus.tgt = Base[bus.ini]
    BY <1>2, <2>1 DEF IInv, OneTransaction
  <2> QED
    BY <1>2, <2>1, <2>2, InitiatorsTargets DEF Awaiting
<1> QED
  BY <1>1, <1>3 DEF IInv, OneTransaction, Sending, Awaiting

(* A cycle of the platform, seen by master i and by any coprocessor t.     *)
LEMMA MasterMoves ==
  ASSUME IInv, Clock, NEW i \in Initiator
  PROVE  /\ Sending(i) => master'[i] = MasterSend(master[i], TRUE)
         /\ Awaiting(i) =>
              master'[i] = MasterReceive(master[i], TRUE, CoprocRdata(coproc[Base[i]]))
         /\ ~Sending(i) /\ ~Awaiting(i) =>
              \/ master'[i] = master[i]
              \/ /\ master[i].fsm = "RANDOM"
                 /\ \E pair \in Word \X Word : master'[i] = MasterRandom(master[i], pair)
              \/ master[i].fsm = "DISPLAY" /\ master'[i] = [master[i] EXCEPT !.fsm = "RANDOM"]
<1>1. /\ master[i] \in MasterReg /\ coproc[Base[i]] \in CoprocReg /\ Base[i] \in Target
      /\ Pair(master[i], coproc[Base[i]])
      /\ Sending(i) => /\ master[i].fsm \in MasterCmd /\ bus.tgt = Base[i]
                       /\ coproc[Base[i]].vci = "VCI_GET_CMD"
      /\ Awaiting(i) => /\ master[i].fsm \in MasterRsp /\ bus.tgt = Base[i]
                        /\ coproc[Base[i]].vci = Answering(master[i].fsm)
      /\ ~Awaiting(i) => master[i].fsm \notin MasterRsp
  BY Partners
<1>2. PICK pairs \in [{j \in Initiator : master[j].fsm = "RANDOM"} -> RandPairs] : Masters(pairs)
  BY DEF Clock
<1> DEFINE pair == IF i \in DOMAIN pairs THEN pairs[i] ELSE <<0, 0>>
           ack == ToInitiatorCmdack(i, cmdack)
           val == ToInitiatorRspval(i, rspval)
           rdata == CoprocRdata(coproc[bus.tgt])
<1>3. master'[i] = MasterTransition(master[i], ack, val, rdata, pair)
  BY <1>2 DEF Masters
<1>4. pair \in Word \X Word
  BY <1>2, RandPairsAssumption, InitiatorsTargets
<1>5. Sending(i) => ack = TRUE
  BY <1>1 DEF Sending, ToInitiatorCmdack, cmdack, CoprocCmdack
<1>6. Awaiting(i) => val = TRUE
  <2>1. SUFFICES ASSUME Awaiting(i) PROVE val = TRUE
    BY DEF val
  <2>2. CoprocRspval(coproc[Base[i]])
    BY <1>1, <2>1, Answers
  <2> QED
    BY <1>1, <2>1, <2>2 DEF Awaiting, ToInitiatorRspval, rspval
<1>7. ack => Sending(i)
  BY DEF Sending, ToInitiatorCmdack
<1>8. val => Awaiting(i)
  BY DEF Awaiting, ToInitiatorRspval
<1> HIDE DEF pair, ack, val, rdata
<1>9. CASE master[i].fsm \in MasterCmd
  <2>1. master'[i] = MasterSend(master[i], ack) /\ ~Awaiting(i)
    BY <1>1, <1>3, <1>9 DEF MasterTransition
  <2> QED
    BY <1>5, <1>7, <2>1 DEF MasterSend
<1>10. CASE master[i].fsm \in MasterRsp
  <2>1. master'[i] = MasterReceive(master[i], val, rdata) /\ Awaiting(i)
    BY <1>1, <1>3, <1>10 DEF MasterTransition
  <2> QED
    BY <1>1, <1>6, <2>1 DEF rdata, Sending, Awaiting
<1>11. CASE master[i].fsm = "RANDOM"
  <2>1. master'[i] = MasterRandom(master[i], pair) /\ ~Awaiting(i) /\ ~Sending(i)
    BY <1>1, <1>3, <1>11 DEF MasterTransition
  <2> QED
    BY <1>4, <1>11, <2>1
<1>12. CASE master[i].fsm = "DISPLAY"
  <2>1. master'[i] = [master[i] EXCEPT !.fsm = "RANDOM"] /\ ~Awaiting(i) /\ ~Sending(i)
    BY <1>1, <1>3, <1>12 DEF MasterTransition
  <2> QED
    BY <1>12, <2>1
<1> QED
  BY <1>1, <1>9, <1>10, <1>11, <1>12

LEMMA CoprocMoves ==
  ASSUME IInv, Clock, NEW t \in Target
  PROVE  /\ bus.fsm = "FSM_CMD" /\ bus.tgt = t =>
              coproc'[t] = GetCmd(ExeTransition(coproc[t]), TRUE,
                                  MasterCommand(master[bus.ini]), bus.ini, TRUE)
         /\ bus.fsm = "FSM_RSP" /\ bus.tgt = t =>
              coproc'[t] = Respond(ExeTransition(coproc[t]), TRUE)
         /\ bus.fsm = "FSM_IDLE" \/ bus.tgt /= t => coproc'[t] = ExeTransition(coproc[t])
<1> DEFINE i == bus.ini
<1>1. i \in Initiator
  BY DEF IInv, TypeOK, BusReg
<1>2. /\ bus.fsm = "FSM_CMD" => master[i].fsm \in MasterCmd /\ bus.tgt = Base[i]
      /\ bus.fsm = "FSM_RSP" => master[i].fsm \in MasterRsp /\ bus.tgt = Base[i]
      /\ coproc[t].vci /= "VCI_GET_CMD" => bus.fsm = "FSM_RSP" /\ bus.tgt = t
  BY <1>1 DEF IInv, OneTransaction
<1>3. coproc'[t] = CoprocTransition(coproc[t], ToTargetCmdval(t, cmdval), MasterCommand(master[i]),
                                    i, Base[i] = t, ToTargetRspack(t, rspack))
  BY DEF Clock, Coprocessors
<1>4. CASE bus.fsm = "FSM_CMD" /\ bus.tgt = t
  <2>1. ToTargetCmdval(t, cmdval) = TRUE /\ (Base[i] = t) = TRUE /\ coproc[t].vci = "VCI_GET_CMD"
    BY <1>1, <1>2, <1>4 DEF ToTargetCmdval, cmdval, MasterCmdval
  <2> QED
    BY <1>3, <1>4, <2>1 DEF CoprocTransition
<1>5. CASE bus.fsm = "FSM_RSP" /\ bus.tgt = t
  <2>1. ToTargetRspack(t, rspack) = TRUE
    BY <1>1, <1>2, <1>5 DEF ToTargetRspack, rspack, MasterRspack
  <2>2. coproc[t].vci \in CoprocRspState
    <3>1. coproc[t].vci = Answering(master[i].fsm)
      BY <1>1, <1>2, <1>5 DEF IInv, OneTransaction
    <3> QED
      BY <1>2, <1>5, <3>1 DEF Answering
  <2> QED
    BY <1>3, <1>5, <2>1, <2>2 DEF CoprocTransition
<1>6. CASE bus.fsm = "FSM_IDLE" \/ bus.tgt /= t
  <2>1. ToTargetCmdval(t, cmdval) = FALSE /\ coproc[t].vci = "VCI_GET_CMD"
    BY <1>2, <1>6 DEF ToTargetCmdval
  <2> QED
    BY <1>3, <1>6, <2>1 DEF CoprocTransition, GetCmd
<1> QED
  BY <1>4, <1>5, <1>6

-------------------------------------------------------------------------------
LEMMA InitIInv == Init => IInv
<1> SUFFICES ASSUME Init PROVE IInv
  OBVIOUS
<1> USE DEF Init, MasterReset, CoprocReset, BusReset
<1>1. master \in [Initiator -> MasterReg] /\ coproc \in [Target -> CoprocReg]
  BY InitiatorsTargets
<1>2. bus \in BusReg
  BY InitiatorsTargets DEF BusReg, BusState
<1>3. OneTransaction
  BY DEF OneTransaction
<1>4. ASSUME NEW i \in Initiator PROVE Pair(master[i], coproc[Base[i]])
  BY InitiatorsTargets DEF Pair
<1> QED
  BY <1>1, <1>2, <1>3, <1>4 DEF IInv, TypeOK

(* Where the cycle takes master i and its coprocessor, in the three        *)
(* situations of the pair.                                                 *)
LEMMA PairMoves ==
  ASSUME IInv, Clock, NEW i \in Initiator
  PROVE  /\ master'[i] \in MasterReg /\ coproc'[Base[i]] \in CoprocReg
         /\ Pair(master'[i], coproc'[Base[i]])
         /\ Sending(i) => /\ master'[i].fsm \in MasterRsp
                          /\ coproc'[Base[i]].vci = Answering(master'[i].fsm)
                          /\ coproc'[Base[i]].srcid = i
         /\ ~Sending(i) => master'[i].fsm \notin MasterRsp /\ coproc'[Base[i]].vci = "VCI_GET_CMD"
         /\ ~Sending(i) /\ master[i].fsm \in MasterCmd => master'[i].fsm = master[i].fsm
<1> DEFINE m == master[i]
           t == Base[i]
           c == coproc[t]
<1>1. /\ m \in MasterReg /\ c \in CoprocReg /\ Pair(m, c) /\ t \in Target
      /\ Sending(i) => m.fsm \in MasterCmd /\ bus.tgt = t /\ c.vci = "VCI_GET_CMD"
      /\ Awaiting(i) => m.fsm \in MasterRsp /\ bus.tgt = t /\ c.vci = Answering(m.fsm)
      /\ ~Awaiting(i) => m.fsm \notin MasterRsp /\ c.vci = "VCI_GET_CMD"
  BY Partners
<1>2. /\ Sending(i) => master'[i] = MasterSend(m, TRUE)
      /\ Awaiting(i) => master'[i] = MasterReceive(m, TRUE, CoprocRdata(c))
      /\ ~Sending(i) /\ ~Awaiting(i) =>
           \/ master'[i] = m
           \/ m.fsm = "RANDOM" /\ \E pair \in Word \X Word : master'[i] = MasterRandom(m, pair)
           \/ m.fsm = "DISPLAY" /\ master'[i] = [m EXCEPT !.fsm = "RANDOM"]
  BY MasterMoves
<1>3. /\ bus.fsm = "FSM_CMD" /\ bus.tgt = t =>
           coproc'[t] = GetCmd(ExeTransition(c), TRUE,
                               MasterCommand(master[bus.ini]), bus.ini, TRUE)
      /\ bus.fsm = "FSM_RSP" /\ bus.tgt = t => coproc'[t] = Respond(ExeTransition(c), TRUE)
      /\ bus.fsm = "FSM_IDLE" \/ bus.tgt /= t => coproc'[t] = ExeTransition(c)
  BY <1>1, CoprocMoves
<1> HIDE DEF m, c, t
<1>4. CASE Sending(i)
  <2>1. coproc'[t] = GetCmd(ExeTransition(c), TRUE, MasterCommand(m), i, TRUE)
    BY <1>1, <1>3, <1>4 DEF Sending, m
  <2>2. /\ master'[i] \in MasterReg /\ coproc'[t] \in CoprocReg /\ Pair(master'[i], coproc'[t])
        /\ master'[i].fsm \in MasterRsp /\ coproc'[t].vci = Answering(master'[i].fsm)
        /\ coproc'[t].srcid = i
    <3>1. master'[i] = MasterSend(m, TRUE)
      BY <1>2, <1>4
    <3>2. /\ m \in MasterReg /\ m.fsm \in MasterCmd /\ c \in CoprocReg /\ Pair(m, c)
          /\ c.vci = "VCI_GET_CMD"
      BY <1>1, <1>4
    <3> HIDE DEF MasterReg, MasterState, MasterCmd, MasterRsp, CoprocReg, CoprocState,
                 CoprocRspState, ExeState
    <3>3. LET n == MasterSend(m, TRUE)
              d == GetCmd(ExeTransition(c), TRUE, MasterCommand(m), i, TRUE)
          IN  /\ n \in MasterReg /\ d \in CoprocReg /\ Pair(n, d) /\ n.fsm \in MasterRsp
              /\ d.vci = Answering(n.fsm) /\ d.srcid = i
      BY <3>2, Sends, Zenon
    <3> QED
      BY <2>1, <3>1, <3>3
  <2> QED
    BY <1>4, <2>2 DEF t
<1>5. CASE Awaiting(i)
  <2>1. coproc'[t] = Respond(ExeTransition(c), TRUE) /\ ~Sending(i)
    BY <1>1, <1>3, <1>5 DEF Awaiting, Sending
  <2>2. /\ master'[i] \in MasterReg /\ coproc'[t] \in CoprocReg /\ Pair(master'[i], coproc'[t])
        /\ master'[i].fsm \notin MasterRsp /\ coproc'[t].vci = "VCI_GET_CMD"
    <3>1. master'[i] = MasterReceive(m, TRUE, CoprocRdata(c))
      BY <1>2, <1>5
    <3>2. /\ m \in MasterReg /\ m.fsm \in MasterRsp /\ c \in CoprocReg /\ Pair(m, c)
          /\ c.vci = Answering(m.fsm)
      BY <1>1, <1>5
    <3> QED
      BY <2>1, <3>1, <3>2, Answers, ZenonT(30)
  <2>3. m.fsm \notin MasterCmd
    BY <1>1, <1>5
  <2> QED
    BY <2>1, <2>2, <2>3 DEF t, m
<1>6. CASE ~Sending(i) /\ ~Awaiting(i)
  <2>1. bus.fsm = "FSM_IDLE" \/ bus.tgt /= t
    <3> SUFFICES ASSUME bus.fsm /= "FSM_IDLE", bus.tgt = t PROVE FALSE
      OBVIOUS
    <3>1. bus.fsm \in {"FSM_CMD", "FSM_RSP"} /\ bus.ini \in Initiator
      BY DEF IInv, TypeOK, BusReg, BusState
    <3>2. bus.tgt = Base[bus.ini]
      BY <3>1 DEF IInv, OneTransaction
    <3> QED
      BY <1>6, <3>1, <3>2, InitiatorsTargets DEF t, Sending, Awaiting
  <2>2. coproc'[t] = ExeTransition(c)
    BY <1>3, <2>1
  <2> QED
    BY <1>1, <1>2, <1>6, <2>2, Rests DEF t, m
<1> QED
  BY <1>4, <1>5, <1>6

LEMMA ExeTyped ==
  ASSUME NEW c \in CoprocReg
  PROVE  ExeTransition(c) \in CoprocReg /\ ExeTransition(c).vci = c.vci
<1>1. WordSub(c.opa, c.opb) \in Word /\ WordSub(c.opb, c.opa) \in Word
  BY WordSubInWord
<1>2. c.opa \in Nat /\ c.opb \in Nat
  BY MaxWordAssumption DEF Word
<1>3. Compare(c) \in ExeState
  BY <1>2 DEF Compare
<1>4. CASE c.exe = "EXE_IDLE"
  BY <1>4 DEF ExeTransition
<1>5. CASE c.exe = "EXE_COMPARE"
  BY <1>3, <1>5 DEF ExeTransition
<1>6. CASE c.exe = "EXE_DECA"
  BY <1>1, <1>6 DEF ExeTransition
<1>7. CASE c.exe = "EXE_DECB"
  BY <1>1, <1>7 DEF ExeTransition
<1> QED
  BY <1>4, <1>5, <1>6, <1>7

(* The bus never waits: a transaction takes two cycles once elected.       *)
LEMMA BusNeverWaits ==
  ASSUME IInv, Clock
  PROVE  /\ bus' \in BusReg
         /\ bus.fsm = "FSM_CMD" =>
              bus'.fsm = "FSM_RSP" /\ bus'.ini = bus.ini /\ bus'.tgt = bus.tgt
         /\ bus.fsm = "FSM_RSP" => bus'.fsm = "FSM_IDLE"
         /\ bus.fsm = "FSM_IDLE" =>
              \/ bus'.fsm = "FSM_IDLE"
              \/ /\ bus'.fsm = "FSM_CMD" /\ cmdval[bus'.ini] /\ bus'.tgt = Base[bus'.ini]
<1> DEFINE i == bus.ini
<1>1. bus \in BusReg /\ i \in Initiator /\ bus.tgt \in Target
  BY DEF IInv, TypeOK, BusReg
<1>2. BusTransition(cmdval, Base, cmdack, rspval, rspack)
  BY DEF Clock
<1>3. bus.fsm = "FSM_CMD" => cmdval[i] /\ cmdack[bus.tgt]
  BY <1>1, Partners DEF Sending, cmdval, cmdack, MasterCmdval, CoprocCmdack
<1>4. bus.fsm = "FSM_RSP" => rspval[bus.tgt] /\ rspack[i]
  <2> SUFFICES ASSUME bus.fsm = "FSM_RSP" PROVE rspval[bus.tgt] /\ rspack[i]
    OBVIOUS
  <2>1. /\ master[i] \in MasterReg /\ coproc[bus.tgt] \in CoprocReg
        /\ Pair(master[i], coproc[bus.tgt]) /\ master[i].fsm \in MasterRsp
        /\ coproc[bus.tgt].vci = Answering(master[i].fsm)
    BY <1>1, Partners DEF Awaiting
  <2>2. CoprocRspval(coproc[bus.tgt])
    BY <2>1, Answers
  <2> QED
    BY <1>1, <2>1, <2>2 DEF rspval, rspack, MasterRspack
<1> QED
  BY <1>1, <1>2, <1>3, <1>4, BusMoves

LEMMA ClockIInv == IInv /\ [Clock]_vars => IInv'
<1> SUFFICES ASSUME IInv, [Clock]_vars PROVE IInv'
  OBVIOUS
<1>1. CASE UNCHANGED vars
  BY <1>1 DEF vars, IInv, TypeOK, OneTransaction
<1>2. CASE Clock
  <2> USE <1>2
  <2>1. bus \in BusReg /\ bus.ini \in Initiator /\ bus.fsm \in BusState
          /\ coproc \in [Target -> CoprocReg]
    BY DEF IInv, TypeOK, BusReg
  <2>2. bus' \in BusReg /\ bus'.ini \in Initiator /\ bus'.fsm \in BusState
    BY BusNeverWaits DEF BusReg
  <2>3. ASSUME NEW t \in Target
        PROVE  /\ coproc'[t] \in CoprocReg
               /\ coproc'[t].vci /= "VCI_GET_CMD" => bus.fsm = "FSM_CMD" /\ bus.tgt = t
    <3>1. CASE bus.fsm = "FSM_IDLE" \/ bus.tgt /= t
      <4>1. coproc[t].vci = "VCI_GET_CMD"
        BY <3>1 DEF IInv, OneTransaction
      <4> QED
        BY <2>1, <3>1, <4>1, CoprocMoves, ExeTyped, ZenonT(30)
    <3>2. CASE bus.fsm \in {"FSM_CMD", "FSM_RSP"} /\ bus.tgt = t
      <4>1. t = Base[bus.ini]
        BY <2>1, <3>2 DEF IInv, OneTransaction
      <4> QED
        BY <2>1, <3>2, <4>1, PairMoves DEF Sending
    <3> QED
      BY <2>1, <3>1, <3>2 DEF BusState
  <2>4. master' \in [Initiator -> MasterReg] /\ coproc' \in [Target -> CoprocReg]
    <3>1. master' = [i \in Initiator |-> master'[i]] /\ coproc' = [t \in Target |-> coproc'[t]]
      BY DEF Clock, Masters, Coprocessors
    <3> QED
      BY <2>3, <3>1, PairMoves
  <2>5. bus'.fsm = "FSM_CMD" => master'[bus'.ini].fsm \in MasterCmd /\ bus'.tgt = Base[bus'.ini]
    <3> SUFFICES ASSUME bus'.fsm = "FSM_CMD"
                 PROVE  master'[bus'.ini].fsm \in MasterCmd /\ bus'.tgt = Base[bus'.ini]
      OBVIOUS
    <3>1. bus.fsm = "FSM_IDLE" /\ cmdval[bus'.ini] /\ bus'.tgt = Base[bus'.ini]
      BY <2>1, BusNeverWaits DEF BusState
    <3>2. ~Sending(bus'.ini) /\ master[bus'.ini].fsm \in MasterCmd
      BY <2>2, <3>1 DEF Sending, cmdval, MasterCmdval
    <3> QED
      BY <2>2, <3>1, <3>2, PairMoves
  <2>6. ASSUME NEW i \in Initiator, master'[i].fsm \in MasterRsp
        PROVE  /\ bus'.fsm = "FSM_RSP" /\ bus'.ini = i /\ bus'.tgt = Base[i]
               /\ coproc'[Base[i]].vci = Answering(master'[i].fsm)
               /\ coproc'[Base[i]].srcid = i
    <3>1. Sending(i)
      BY <2>6, PairMoves
    <3> QED
      BY <3>1, PairMoves, Partners, BusNeverWaits DEF Sending
  <2>7. bus'.fsm = "FSM_RSP" => master'[bus'.ini].fsm \in MasterRsp
    BY <2>1, BusNeverWaits, PairMoves DEF BusState, Sending
  <2>8. \A t \in Target : coproc'[t].vci /= "VCI_GET_CMD" => bus'.fsm = "FSM_RSP" /\ bus'.tgt = t
    BY <2>3, BusNeverWaits
  <2>9. OneTransaction'
    BY <2>5, <2>6, <2>7, <2>8 DEF OneTransaction
  <2> QED
    BY <2>2, <2>4, <2>9, PairMoves DEF IInv, TypeOK
<1> QED
  BY <1>1, <1>2

THEOREM AlwaysIInv == Spec => []IInv
BY InitIInv, ClockIInv, PTL DEF Spec

(* No register of a platform of any size leaves its range.                 *)
THEOREM BusTypeAlwaysOK == Spec => []TypeOK
<1>1. IInv => TypeOK
  BY DEF IInv
<1> QED
  BY <1>1, AlwaysIInv, PTL

(* However many masters there are, the bus carries one transaction at a    *)
(* time between an initiator and the target it addressed.                  *)
THEOREM AlwaysOneTransaction == Spec => []OneTransaction
<1>1. IInv => OneTransaction
  BY DEF IInv
<1> QED
  BY <1>1, AlwaysIInv, PTL

(* A coprocessor computes only while its master polls its status.          *)
THEOREM BusyAlwaysPolled == Spec => []BusyOnlyWhilePolled
<1>1. IInv => BusyOnlyWhilePolled
  BY DEF IInv, Pair, BusyOnlyWhilePolled
<1> QED
  BY <1>1, AlwaysIInv, PTL

(* Every master of the platform displays the gcd of its own operands.      *)
THEOREM EveryResultIsGcd == Spec => []ResultIsGcd
<1>1. IInv => ResultIsGcd
  BY DEF IInv, Pair, ResultIsGcd
<1> QED
  BY <1>1, AlwaysIInv, PTL

-------------------------------------------------------------------------------
Jobs == [i \in Initiator |-> JobOf(master[i])]

LEMMA InitService == Init => Service!Init
BY DEF Init, MasterReset, JobOf, Service!Init, Service!Idle

LEMMA JobType ==
  ASSUME NEW m \in MasterReg
  PROVE  JobOf(m) \in Service!Job
BY InitiatorsTargets DEF JobOf, Service!Job, Service!Word, Word

(* RANDOM asks, the last response answers, DISPLAY forgets, and every      *)
(* other cycle leaves the job of a master as it is.                        *)
LEMMA JobMoves ==
  ASSUME IInv, Clock, NEW i \in Initiator,
         NEW job, job = JobOf(master[i]), NEW next, next = JobOf(master'[i])
  PROVE  \/ next = job
         \/ job = Service!Idle /\ \E a, b \in Word : next = Service!Asked(a, b)
         \/ /\ job.st = "asked"
            /\ \E g \in Word : IsGcd(g, job.a, job.b) /\ next = Service!Answered(job.a, job.b, g)
         \/ job.st = "answered" /\ next = Service!Idle
<1> DEFINE m == master[i]
           n == master'[i]
<1>1. /\ m \in MasterReg /\ n \in MasterReg /\ Pair(n, coproc'[Base[i]])
      /\ Sending(i) => m.fsm \in MasterCmd
      /\ Awaiting(i) => m.fsm \in MasterRsp
  BY Partners, PairMoves
<1>2. /\ Sending(i) => n = MasterSend(m, TRUE) /\ n.fsm \in MasterRsp
      /\ Awaiting(i) => n = MasterReceive(m, TRUE, CoprocRdata(coproc[Base[i]]))
      /\ ~Sending(i) /\ ~Awaiting(i) =>
           \/ n = m
           \/ m.fsm = "RANDOM" /\ \E pair \in Word \X Word : n = MasterRandom(m, pair)
           \/ m.fsm = "DISPLAY" /\ n = [m EXCEPT !.fsm = "RANDOM"]
  BY MasterMoves, PairMoves
<1>3. job = JobOf(m) /\ next = JobOf(n)
  OBVIOUS
<1> HIDE DEF m, n
<1>4. CASE Sending(i)
  <2>1. n.opa = m.opa /\ n.opb = m.opb
    BY <1>1, <1>2, <1>4 DEF MasterSend
  <2> QED
    BY <1>1, <1>2, <1>3, <1>4, <2>1 DEF JobOf
<1>5. CASE Awaiting(i)
  <2>1. n.opa = m.opa /\ n.opb = m.opb
    BY <1>1, <1>2, <1>5 DEF MasterReceive
  <2>2. n.fsm \in MasterCmd \cup {"DISPLAY"}
    BY <1>1, <1>2, <1>5 DEF MasterReceive, AfterRsp
  <2>3. job.st = "asked" /\ job.a = m.opa /\ job.b = m.opb
    BY <1>1, <1>3, <1>5 DEF JobOf
  <2>4. CASE n.fsm = "DISPLAY"
    <3>1. IsGcd(n.res, m.opa, m.opb) /\ n.res \in Word
      BY <1>1, <2>1, <2>4 DEF Pair
    <3>2. next = Service!Answered(m.opa, m.opb, n.res)
      BY <1>3, <2>1, <2>4 DEF JobOf, Service!Answered
    <3> QED
      BY <2>3, <3>1, <3>2
  <2>5. CASE n.fsm \in MasterCmd
    BY <1>1, <1>3, <1>5, <2>1, <2>5 DEF JobOf
  <2> QED
    BY <2>2, <2>4, <2>5
<1>6. CASE ~Sending(i) /\ ~Awaiting(i)
  <2>1. CASE n = m
    BY <1>3, <2>1
  <2>2. CASE m.fsm = "RANDOM" /\ \E pair \in Word \X Word : n = MasterRandom(m, pair)
    <3>1. job = Service!Idle
      BY <1>3, <2>2 DEF JobOf, Service!Idle
    <3>2. n.fsm = "CMD_OPA"
      BY <1>1, <2>2 DEF MasterRandom
    <3>3. next = Service!Asked(n.opa, n.opb) /\ n.opa \in Word /\ n.opb \in Word
      BY <1>1, <1>3, <3>2 DEF JobOf, Service!Asked
    <3> QED
      BY <3>1, <3>3
  <2>3. CASE m.fsm = "DISPLAY" /\ n = [m EXCEPT !.fsm = "RANDOM"]
    BY <1>1, <1>3, <2>3 DEF JobOf, Service!Idle
  <2> QED
    BY <1>2, <1>6, <2>1, <2>2, <2>3
<1> QED
  BY <1>4, <1>5, <1>6

LEMMA StepService ==
  ASSUME IInv, IInv', [Clock]_vars
  PROVE  [Service!Next]_Jobs
<1>1. CASE UNCHANGED vars
  BY <1>1 DEF vars, Jobs
<1>2. CASE Clock
  <2>1. Jobs' \in [Initiator -> Service!Job]
    BY JobType DEF IInv, TypeOK, Jobs
  <2>2. Service!Word = Word
    BY DEF Service!Word, Word
  <2>3. \A g, a, b : IsGcd(g, a, b) <=> Service!IsGcd(g, a, b)
    BY DEF IsGcd, CommonDivisors, Divides, Divisor, Service!IsGcd, Service!CommonDivisors,
           Service!Divides, Service!Divisor
  <2>4. ASSUME NEW i \in Initiator
        PROVE  \/ Jobs'[i] = Jobs[i]
               \/ Service!Ask(i) \/ Service!Answer(i) \/ Service!Forget(i)
    <3>1. Jobs[i] = JobOf(master[i]) /\ Jobs'[i] = JobOf(master'[i])
      BY DEF Jobs
    <3>2. \/ Jobs'[i] = Jobs[i]
          \/ /\ Jobs[i] = Service!Idle
             /\ \E a, b \in Word : Jobs'[i] = Service!Asked(a, b)
          \/ /\ Jobs[i].st = "asked"
             /\ \E g \in Word : /\ IsGcd(g, Jobs[i].a, Jobs[i].b)
                                /\ Jobs'[i] = Service!Answered(Jobs[i].a, Jobs[i].b, g)
          \/ Jobs[i].st = "answered" /\ Jobs'[i] = Service!Idle
      BY <1>2, <3>1, JobMoves
    <3> QED
      BY <2>2, <2>3, <3>2 DEF Service!Ask, Service!Answer, Service!Forget, Jobs
  <2> QED
    BY <2>1, <2>4 DEF Service!Next, Jobs
<1> QED
  BY <1>1, <1>2

(* The platform of any number of masters implements the gcd service that   *)
(* TP1 implements for one.                                                 *)
THEOREM BusImplementsService == Spec => ImplementsService
<1>1. IInv /\ IInv' /\ [Clock]_vars => [Service!Next]_Jobs
  BY StepService
<1> QED
  BY InitIInv, ClockIInv, InitService, <1>1, PTL DEF Spec, ImplementsService, Service!Spec, Jobs
===============================================================================
