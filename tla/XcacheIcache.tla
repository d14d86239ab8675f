------------------------------ MODULE XcacheIcache ------------------------------
(***************************************************************************)
(* The ICACHE state machine of VciXcacheWrapperAdvanced.  The response of  *)
(* a cycle, Irsp, is a function of the registers, as are the flip-flops    *)
(* the cycle sets.                                                         *)
(***************************************************************************)
EXTENDS XcacheStores

VARIABLES i_fsm,        \* r_icache_fsm
          i_addr, i_way, i_word,        \* r_icache_*_save
          i_miss_req, i_unc_req,        \* to the CMD state machine
          ins_error, fifo_ins,          \* from the RSP state machine
          icache,
          ireq          \* m_ireq, the request of the processor

icacheRegs == <<i_fsm, i_addr, i_way, i_word, icache>>

IcacheState == {"IDLE", "MISS_SELECT", "MISS_INVAL", "MISS_WAIT", "UNC_WAIT"}

IcacheInit ==
  /\ i_fsm = "IDLE" /\ i_addr = XtnAddr /\ i_way = 0 /\ i_word = 0
  /\ i_miss_req = FALSE /\ i_unc_req = FALSE /\ ins_error = FALSE
  /\ fifo_ins = <<>> /\ icache = EmptyCache

-------------------------------------------------------------------------------
Fetched == i_fsm = "IDLE" /\ ireq.valid

IHit  == Fetched /\ Cacheable(ireq.addr) /\ Hit(icache, ireq.addr.line)
IMiss == Fetched /\ Cacheable(ireq.addr) /\ ~Hit(icache, ireq.addr.line)
IUnc  == Fetched /\ ~Cacheable(ireq.addr)

IWaiting == i_fsm \in {"MISS_WAIT", "UNC_WAIT"}
InsError == IWaiting /\ ins_error
InsGet   == IWaiting /\ ~ins_error /\ fifo_ins /= <<>>

Irsp ==
  CASE IHit     -> [valid |-> TRUE, error |-> FALSE, instruction |-> Lookup(icache, ireq.addr)]
    [] InsError -> [valid |-> TRUE, error |-> TRUE, instruction |-> None]
    [] i_fsm = "UNC_WAIT" /\ InsGet /\ ireq = [valid |-> TRUE, addr |-> i_addr]
                -> [valid |-> TRUE, error |-> FALSE, instruction |-> Head(fifo_ins)]
    [] OTHER    -> [valid |-> FALSE, error |-> FALSE, instruction |-> None]

-------------------------------------------------------------------------------
IcacheIdle ==
  /\ i_fsm = "IDLE"
  /\ IF IMiss \/ IUnc
     THEN /\ i_addr' = ireq.addr
          /\ i_word' = IF IMiss THEN 0 ELSE i_word
          /\ i_fsm' = IF IMiss THEN "MISS_SELECT" ELSE "UNC_WAIT"
     ELSE UNCHANGED <<i_addr, i_word, i_fsm>>
  /\ UNCHANGED <<i_way, icache>>

IcacheMissSelect ==
  /\ i_fsm = "MISS_SELECT"
  /\ \E way \in Way :
       /\ Victim(icache, way)
       /\ i_way' = way
       /\ i_fsm' = IF icache[way].valid THEN "MISS_INVAL" ELSE "MISS_WAIT"
  /\ UNCHANGED <<i_addr, i_word, icache>>

IcacheMissInval ==
  /\ i_fsm = "MISS_INVAL"
  /\ icache' = [icache EXCEPT ![i_way] = InvalidWay]
  /\ i_fsm' = "MISS_WAIT"
  /\ UNCHANGED <<i_addr, i_way, i_word>>

(* A last word that comes one word early.                                  *)
LastWordEarly(word) == word + 2 >= NbWords

(* A last word that comes one word late.                                   *)
LastWordLate(word) == word = NbWords

LastWord(word) == word = NbWords - 1

IcacheMissWait ==
  /\ i_fsm = "MISS_WAIT"
  /\ LET filled == WriteWord(icache, i_way, i_word, Head(fifo_ins))
     IN  \/ InsError /\ i_fsm' = "IDLE" /\ UNCHANGED <<i_word, icache>>
         \/ /\ InsGet /\ i_word' = i_word + 1
            /\ IF LastWord(i_word)
               THEN icache' = UpdateTag(filled, i_way, i_addr.line) /\ i_fsm' = "IDLE"
               ELSE icache' = filled /\ UNCHANGED i_fsm
         \/ ~InsError /\ ~InsGet /\ UNCHANGED <<i_fsm, i_word, icache>>
  /\ UNCHANGED <<i_addr, i_way>>

IcacheUncWait ==
  /\ i_fsm = "UNC_WAIT"
  /\ i_fsm' = IF InsError \/ InsGet THEN "IDLE" ELSE i_fsm
  /\ UNCHANGED <<i_addr, i_way, i_word, icache>>

Icache ==
  \/ IcacheIdle \/ IcacheMissSelect \/ IcacheMissInval \/ IcacheMissWait \/ IcacheUncWait
===============================================================================
