------------------------------ MODULE XcacheDcache ------------------------------
(***************************************************************************)
(* The DCACHE state machine of VciXcacheWrapperAdvanced.  A request of the *)
(* processor is taken in IDLE, and in WRITE_REQ on the cycle the write     *)
(* buffer accepts the previous write.  The response of a cycle, Drsp, is a *)
(* function of the registers; so are the flip-flops the cycle sets.        *)
(***************************************************************************)
EXTENDS XcacheStores

VARIABLES d_fsm,        \* r_dcache_fsm
          d_addr, d_type, d_wdata,      \* the saved request
          d_way, d_word,                \* r_dcache_way_save, r_dcache_word_save
          d_miss_req, d_unc_req,        \* to the CMD state machine
          data_error, fifo_data,        \* from the RSP state machine
          dcache, wbuf,
          dreq          \* m_dreq, the request of the processor

dcacheRegs == <<d_fsm, d_addr, d_type, d_wdata, d_way, d_word, dcache>>

DcacheState == {"IDLE", "WRITE_UPDT", "WRITE_REQ", "MISS_SELECT", "MISS_INVAL", "MISS_WAIT",
                "UNC_WAIT", "XTN_HIT", "XTN_INVAL", "XTN_SYNC"}

DcacheInit ==
  /\ d_fsm = "IDLE" /\ d_type = "NONE" /\ d_wdata = None /\ d_addr = XtnAddr
  /\ d_way = 0 /\ d_word = 0
  /\ d_miss_req = FALSE /\ d_unc_req = FALSE /\ data_error = FALSE
  /\ fifo_data = <<>> /\ dcache = EmptyCache /\ wbuf = EmptyBuffer

-------------------------------------------------------------------------------
(* WRITE_REQ: the write buffer after the write, if it accepts it.          *)
Accepted == d_fsm = "WRITE_REQ" /\ Writable(wbuf, d_addr.line)

WbufWritten == IF Accepted THEN WbufWrite(wbuf, d_addr, d_wdata) ELSE wbuf

(* The cycles in which the request of the processor is considered.         *)
Considered(type) == (d_fsm = "IDLE" \/ Accepted) /\ dreq.type = type

(* LL and SC are handled as uncacheable.                                   *)
Uncached ==
  \/ Considered("LL") \/ Considered("SC")
  \/ (Considered("READ") \/ Considered("WRITE")) /\ ~Cacheable(dreq.addr)

DHit == Hit(dcache, dreq.addr.line)

ReadHit   == Considered("READ") /\ Cacheable(dreq.addr) /\ DHit
ReadMiss  == Considered("READ") /\ Cacheable(dreq.addr) /\ ~DHit
WriteHit  == Considered("WRITE") /\ Cacheable(dreq.addr) /\ DHit
WriteMiss == Considered("WRITE") /\ Cacheable(dreq.addr) /\ ~DHit

(* The line an XTN_DCACHE_INVAL names is in its data.                      *)
XtnMiss == ~Hit(dcache, d_wdata)

(* A SYNC that does not wait.                                              *)
SyncDoneAtOnce == d_fsm = "XTN_SYNC"

SyncDone == d_fsm = "XTN_SYNC" /\ WbufEmpty(wbuf)

Waiting == d_fsm \in {"MISS_WAIT", "UNC_WAIT"}

DataError == Waiting /\ data_error

(* A MISS_WAIT that leaves its words in the FIFO.                          *)
DataGetUnc == d_fsm = "UNC_WAIT" /\ ~data_error /\ fifo_data /= <<>>

(* A word is read from the FIFO.                                           *)
DataGet == Waiting /\ ~data_error /\ fifo_data /= <<>>

NoResponse       == [valid |-> FALSE, error |-> FALSE, rdata |-> None]
Response(rdata)  == [valid |-> TRUE,  error |-> FALSE, rdata |-> rdata]
ErrorResponse    == [valid |-> TRUE,  error |-> TRUE,  rdata |-> None]

Drsp ==
  CASE ReadHit                                   -> Response(Lookup(dcache, dreq.addr))
    [] WriteHit \/ WriteMiss                     -> Response(None)
    [] DataError                                 -> ErrorResponse
    [] d_fsm = "UNC_WAIT" /\ DataGet /\ dreq.addr = d_addr
                                                 -> Response(Head(fifo_data))
    [] d_fsm = "XTN_HIT" /\ XtnMiss              -> Response(None)
    [] d_fsm = "XTN_INVAL"                       -> Response(None)
    [] SyncDone                                  -> Response(None)
    [] OTHER                                     -> NoResponse

-------------------------------------------------------------------------------
Saved == UNCHANGED <<d_addr, d_type, d_wdata>>

AfterRequest ==
  CASE Uncached            -> "UNC_WAIT"
    [] ReadHit             -> "IDLE"
    [] ReadMiss            -> "MISS_SELECT"
    [] WriteMiss           -> "WRITE_REQ"
    [] WriteHit            -> "WRITE_UPDT"
    [] Considered("INVAL") -> "XTN_HIT"
    [] Considered("SYNC")  -> "XTN_SYNC"

Idle ==
  /\ d_fsm = "IDLE" \/ Accepted
  /\ IF dreq.type = "NONE"
     THEN d_fsm' = "IDLE" /\ Saved /\ UNCHANGED <<d_way, d_word>>
     ELSE /\ d_fsm' = AfterRequest
          /\ d_addr' = dreq.addr /\ d_type' = dreq.type /\ d_wdata' = dreq.wdata
          /\ d_way' = IF DHit THEN HitWay(dcache, dreq.addr.line) ELSE 0
          /\ d_word' = IF ReadMiss THEN 0 ELSE dreq.addr.word
  /\ UNCHANGED dcache

(* A write that is forgotten when the write buffer refuses it.             *)
WriteReqForgotten ==
  /\ d_fsm = "WRITE_REQ" /\ ~Accepted
  /\ d_fsm' = "IDLE"
  /\ Saved /\ UNCHANGED <<d_way, d_word, dcache>>

WriteReqRefused ==
  /\ d_fsm = "WRITE_REQ" /\ ~Accepted
  /\ UNCHANGED dcacheRegs

WriteUpdt ==
  /\ d_fsm = "WRITE_UPDT"
  /\ dcache' = WriteWord(dcache, d_way, d_word, d_wdata)
  /\ d_fsm' = "WRITE_REQ"
  /\ Saved /\ UNCHANGED <<d_way, d_word>>

MissSelect ==
  /\ d_fsm = "MISS_SELECT"
  /\ \E way \in Way :
       /\ Victim(dcache, way)
       /\ d_way' = way
       /\ d_fsm' = IF dcache[way].valid THEN "MISS_INVAL" ELSE "MISS_WAIT"
  /\ Saved /\ UNCHANGED <<d_word, dcache>>

MissInval ==
  /\ d_fsm = "MISS_INVAL"
  /\ dcache' = [dcache EXCEPT ![d_way] = InvalidWay]
  /\ d_fsm' = "MISS_WAIT"
  /\ Saved /\ UNCHANGED <<d_way, d_word>>

MissWait ==
  /\ d_fsm = "MISS_WAIT"
  /\ LET filled == WriteWord(dcache, d_way, d_word, Head(fifo_data))
     IN  \/ DataError /\ d_fsm' = "IDLE" /\ UNCHANGED <<d_word, dcache>>
         \/ /\ DataGet /\ d_word' = d_word + 1
            /\ IF d_word = NbWords - 1
               THEN dcache' = UpdateTag(filled, d_way, d_addr.line) /\ d_fsm' = "IDLE"
               ELSE dcache' = filled /\ UNCHANGED d_fsm
         \/ ~DataError /\ ~DataGet /\ UNCHANGED <<d_fsm, d_word, dcache>>
  /\ Saved /\ UNCHANGED d_way

UncWait ==
  /\ d_fsm = "UNC_WAIT"
  /\ d_fsm' = IF DataError \/ DataGet THEN "IDLE" ELSE d_fsm
  /\ Saved /\ UNCHANGED <<d_way, d_word, dcache>>

XtnHit ==
  /\ d_fsm = "XTN_HIT"
  /\ IF XtnMiss
     THEN d_fsm' = "IDLE" /\ UNCHANGED d_way
     ELSE d_fsm' = "XTN_INVAL" /\ d_way' = HitWay(dcache, d_wdata)
  /\ Saved /\ UNCHANGED <<d_word, dcache>>

(* An invalidation that does not invalidate.                               *)
XtnInvalNothing ==
  /\ d_fsm = "XTN_INVAL"
  /\ d_fsm' = "IDLE"
  /\ Saved /\ UNCHANGED <<d_way, d_word, dcache>>

XtnInval ==
  /\ d_fsm = "XTN_INVAL"
  /\ dcache' = [dcache EXCEPT ![d_way] = InvalidWay]
  /\ d_fsm' = "IDLE"
  /\ Saved /\ UNCHANGED <<d_way, d_word>>

XtnSync ==
  /\ d_fsm = "XTN_SYNC"
  /\ d_fsm' = IF SyncDone THEN "IDLE" ELSE d_fsm
  /\ Saved /\ UNCHANGED <<d_way, d_word, dcache>>

Dcache ==
  \/ Idle \/ WriteReqRefused \/ WriteUpdt
  \/ MissSelect \/ MissInval \/ MissWait \/ UncWait
  \/ XtnHit \/ XtnInval \/ XtnSync
===============================================================================
