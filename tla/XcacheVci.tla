-------------------------------- MODULE XcacheVci --------------------------------
(***************************************************************************)
(* The CMD and RSP state machines of VciXcacheWrapperAdvanced, between the *)
(* two caches, the write buffer and the VCI port.  Both run after the      *)
(* caches in transition(): the CMD machine sees the write buffer wb as the *)
(* cycle has already changed it, and when two machines assign the same     *)
(* flip-flop in a cycle, the assignment made here is the last.             *)
(*                                                                         *)
(* ack is cmdack; flit is the response flit of the cycle, NoFlit if rspval *)
(* is not set.  r_vci_rsp_cpt is left out: only assertions about the       *)
(* targets read it.  trdid is a read type, or that of a write with its slot. *)
(***************************************************************************)
EXTENDS XcacheDcache, XcacheIcache

VARIABLES cmd_fsm, cmd_slot,            \* r_vci_cmd_fsm, the slot it sends
          cmd_max, cmd_cpt,             \* r_vci_cmd_max, r_vci_cmd_cpt
          rsp_fsm                       \* r_vci_rsp_fsm

cmdRegs == <<cmd_fsm, cmd_slot, cmd_max, cmd_cpt>>
cmdVars == <<cmdRegs, d_miss_req, i_miss_req, d_unc_req, i_unc_req>>
rspVars == <<rsp_fsm, fifo_data, fifo_ins, data_error, ins_error>>

ReadType == {"DATA_MISS", "DATA_UNC", "INS_MISS", "INS_UNC"}

VciInit ==
  /\ cmd_fsm = "IDLE" /\ cmd_slot = 0 /\ cmd_max = 0 /\ cmd_cpt = 0
  /\ rsp_fsm = "IDLE"

-------------------------------------------------------------------------------
(* The priorities of CMD_IDLE.                                             *)
(* A read miss that does not mind the writes to its line.                  *)
TakesDataMissAtOnce(wb) == cmd_fsm = "IDLE" /\ d_miss_req

TakesDataMiss(wb) == cmd_fsm = "IDLE" /\ d_miss_req /\ WbufMiss(wb, d_addr.line)

TakesInsMiss(wb) ==
  cmd_fsm = "IDLE" /\ ~TakesDataMiss(wb) /\ i_miss_req /\ WbufMiss(wb, i_addr.line)

TakesWrite(wb) ==
  cmd_fsm = "IDLE" /\ ~TakesDataMiss(wb) /\ ~TakesInsMiss(wb) /\ Ready(wb) /= {}

NoneBefore(wb) == cmd_fsm = "IDLE" /\ ~TakesDataMiss(wb) /\ ~TakesInsMiss(wb) /\ ~TakesWrite(wb)

TakesDataUnc(wb) == NoneBefore(wb) /\ d_unc_req

TakesInsUnc(wb) == NoneBefore(wb) /\ ~d_unc_req /\ i_unc_req

CmdIdle(wb) ==
  /\ cmd_fsm = "IDLE"
  /\ \/ /\ TakesWrite(wb)
        /\ \E s \in Ready(wb) :
             /\ cmd_slot' = s
             /\ cmd_cpt' = MinWord(wb, s) /\ cmd_max' = MaxWord(wb, s)
        /\ cmd_fsm' = "DATA_WRITE"
     \/ /\ ~TakesWrite(wb)
        /\ cmd_fsm' = CASE TakesDataMiss(wb) -> "DATA_MISS"
                        [] TakesInsMiss(wb)  -> "INS_MISS"
                        [] TakesDataUnc(wb)  -> "DATA_UNC"
                        [] TakesInsUnc(wb)   -> "INS_UNC"
                        [] OTHER             -> "IDLE"
        /\ UNCHANGED <<cmd_slot, cmd_cpt, cmd_max>>

(* A burst with one flit more.                                             *)
BurstSentLate(ack) == cmd_fsm = "DATA_WRITE" /\ ack /\ cmd_cpt > cmd_max

(* The last flit of a write burst is accepted.                             *)
BurstSent(ack) == cmd_fsm = "DATA_WRITE" /\ ack /\ cmd_cpt = cmd_max

CmdDataWrite(ack) ==
  /\ cmd_fsm = "DATA_WRITE"
  /\ cmd_cpt' = IF ack THEN cmd_cpt + 1 ELSE cmd_cpt
  /\ cmd_fsm' = IF BurstSent(ack) THEN "IDLE" ELSE cmd_fsm
  /\ UNCHANGED <<cmd_slot, cmd_max>>

CmdRead(ack) ==
  /\ cmd_fsm \in ReadType
  /\ cmd_fsm' = IF ack THEN "IDLE" ELSE cmd_fsm
  /\ UNCHANGED <<cmd_slot, cmd_cpt, cmd_max>>

Cmd(wb, ack) ==
  /\ CmdIdle(wb) \/ CmdDataWrite(ack) \/ CmdRead(ack)
  /\ d_miss_req' = (~TakesDataMiss(wb) /\ (d_miss_req \/ ReadMiss))
  /\ i_miss_req' = (~TakesInsMiss(wb) /\ (i_miss_req \/ IMiss))
  /\ d_unc_req'  = (~TakesDataUnc(wb) /\ (d_unc_req \/ Uncached))
  /\ i_unc_req'  = (~TakesInsUnc(wb) /\ (i_unc_req \/ IUnc))

-------------------------------------------------------------------------------
(* A transaction identifier.                                               *)
Trdid(type, slot) == [type |-> type, slot |-> slot]

NoFlit == [trdid |-> Trdid("NONE", 0), error |-> FALSE, rdata |-> None, eop |-> FALSE]

Rspval(flit) == flit /= NoFlit

OneFlitState == {"DATA_WRITE", "DATA_UNC", "INS_UNC"}
BurstState   == {"DATA_MISS", "INS_MISS"}

(* rspack, driven by genMoore.                                             *)
Rspack == rsp_fsm /= "IDLE"

(* The words of flit go to the data, or to the instruction cache.          *)
Takes(flit, types) == rsp_fsm \in types /\ Rspval(flit)

DataPut(flit) ==
  Takes(flit, {"DATA_MISS", "DATA_UNC"}) /\ ~flit.error /\ Len(fifo_data) < FifoDepth
InsPut(flit) ==
  Takes(flit, {"INS_MISS", "INS_UNC"}) /\ ~flit.error /\ Len(fifo_ins) < FifoDepth

DataErrorSet(flit) == Takes(flit, {"DATA_MISS", "DATA_UNC"}) /\ flit.error
InsErrorSet(flit)  == Takes(flit, {"INS_MISS", "INS_UNC"}) /\ flit.error

WriteDone(flit) == Takes(flit, {"DATA_WRITE"})

(* The flit is taken: its words find room, it is an error, or it ends a    *)
(* write.                                                                  *)
Taken(flit) ==
  \/ WriteDone(flit)
  \/ DataPut(flit) \/ DataErrorSet(flit) \/ InsPut(flit) \/ InsErrorSet(flit)

Rsp(flit) ==
  /\ rsp_fsm' = CASE rsp_fsm = "IDLE" /\ Rspval(flit)                -> flit.trdid.type
                  [] rsp_fsm \in OneFlitState /\ Taken(flit)         -> "IDLE"
                  [] rsp_fsm \in BurstState /\ Taken(flit) /\ flit.eop -> "IDLE"
                  [] OTHER                                           -> rsp_fsm
  /\ fifo_data'  = Update(fifo_data, DataGet, DataPut(flit), flit.rdata)
  /\ fifo_ins'   = Update(fifo_ins, InsGet, InsPut(flit), flit.rdata)
  /\ data_error' = (DataErrorSet(flit) \/ (data_error /\ ~DataError))
  /\ ins_error'  = (InsErrorSet(flit) \/ (ins_error /\ ~InsError))
===============================================================================
