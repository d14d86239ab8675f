-------------------------------- MODULE XcacheTop --------------------------------
(***************************************************************************)
(* The cache controller of TP6 between its processor and the network       *)
(* (tp6_top_advanced.cpp).  One step is one clock cycle.                   *)
(*                                                                         *)
(* Processor, network, memory and DMA are external.  The processor issues  *)
(* a fetch and at most one data request, and issues the next ones when     *)
(* both are answered.  It writes into each word another value than the     *)
(* one it holds.  The network accepts a command flit when it pleases; it   *)
(* delivers whole response packets, in the order of the commands for those *)
(* to one target.  A target answers an error in one flit.                  *)
(***************************************************************************)
EXTENDS XcacheVci

CONSTANTS Programs,     \* what a processor may do: fetches, the addresses of its
                        \* instructions, and requests, its data requests
          Contents,     \* what memory holds at the start
          TargetOf,     \* the target each line belongs to
          ErrorLine,    \* the lines that answer with an error
          DmaLine       \* the lines the DMA writes, once

Access == [type : {"READ", "WRITE", "LL", "SC"}, addr : Addr, wdata : {None}]

Extern == [type : {"INVAL"}, addr : {XtnAddr}, wdata : Line]
          \cup [type : {"SYNC"}, addr : {XtnAddr}, wdata : {None}]

Stores(r) == r.type \in {"WRITE", "SC"}

Requests == UNION {p.requests : p \in Programs}

FetchedLine == {addr.line : addr \in UNION {p.fetches : p \in Programs}}
StoredLine  == {r.addr.line : r \in {q \in Requests : Stores(q)}}

(* No software stores into its instructions or into the lines of the DMA,  *)
(* and its locks, the words it accesses by LL and SC, are not cacheable.   *)
ASSUME TopAssumption ==
  /\ \A p \in Programs : p.fetches \subseteq Addr /\ p.requests \subseteq Access \cup Extern
  /\ \A r \in Requests : r.type \in {"LL", "SC"} => ~Cacheable(r.addr)
  /\ Contents \in [Line -> [Word -> STRING]]
  /\ \A line \in StoredLine : \A word \in Word : Contents[line][word] \in {"old", "new"}
  /\ StoredLine \cap (DmaLine \cup FetchedLine) = {} /\ DmaLine \cap FetchedLine = {}
  /\ ErrorLine \subseteq Line /\ DmaLine \subseteq Line

VARIABLES program,      \* the program of the processor
          mem,          \* the words of every line
          expected,     \* history: the word as the processor has written it
          burst,        \* the words of the write command being sent
          net,          \* the commands on their way
          rsp,          \* the response flits on their way
          dmaDone,      \* the DMA has written its lines
          fresh         \* history: the lines invalidated after that

externals == <<program, mem, expected, burst, net, rsp, dmaDone, fresh, ireq, dreq>>
vars == <<dcacheRegs, icacheRegs, cmdVars, rspVars, wbuf, externals>>

NoFetch == [valid |-> FALSE, addr |-> XtnAddr]
NoData  == [type |-> "NONE", addr |-> XtnAddr, wdata |-> None]

NoBurst == [w \in Word |-> Hole]

(* Two values are enough to tell a word from the one before.               *)
Other(value) == IF value = "old" THEN "new" ELSE "old"

Init ==
  /\ DcacheInit /\ IcacheInit /\ VciInit
  /\ program \in Programs
  /\ mem = Contents /\ expected = Contents /\ burst = NoBurst
  /\ net = <<>> /\ rsp = <<>> /\ dmaDone = FALSE /\ fresh = {}
  /\ ireq = NoFetch /\ dreq = NoData

-------------------------------------------------------------------------------
(* The processor: executeNCycles with the responses of the cycle.          *)
Issue(r) ==
  /\ expected' = IF Stores(r) /\ r.addr.line \notin ErrorLine
                 THEN [expected EXCEPT ![r.addr.line][r.addr.word] = Other(@)]
                 ELSE expected
  /\ dreq' = IF Stores(r) THEN [r EXCEPT !.wdata = expected'[r.addr.line][r.addr.word]] ELSE r

(* Both requests of the processor are answered, if it has made them.       *)
Answered ==
  /\ ireq.valid => Irsp.valid
  /\ dreq.type /= "NONE" => Drsp.valid

Processor ==
  IF Answered
  THEN /\ \E addr \in program.fetches : ireq' = [valid |-> TRUE, addr |-> addr]
       /\ \E r \in program.requests \cup {NoData} : Issue(r)
  ELSE /\ ireq' = IF Irsp.valid THEN NoFetch ELSE ireq
       /\ dreq' = IF Drsp.valid THEN NoData ELSE dreq
       /\ UNCHANGED expected

(* The command of a cycle, driven by genMoore, is one flit long unless it  *)
(* is a write burst.                                                       *)
Cmdval == cmd_fsm /= "IDLE"

Sent == [burst EXCEPT ![cmd_cpt] = wbuf[cmd_slot].data[cmd_cpt]]

OneWord(addr, value) == [w \in Word |-> IF w = addr.word THEN value ELSE Hole]

Packet ==
  CASE cmd_fsm = "DATA_WRITE" ->
         [trdid |-> Trdid("DATA_WRITE", cmd_slot), line |-> wbuf[cmd_slot].line, write |-> TRUE, words |-> Sent]
    [] cmd_fsm = "DATA_MISS" ->
         [trdid |-> Trdid("DATA_MISS", 0), line |-> d_addr.line, write |-> FALSE, words |-> Word]
    [] cmd_fsm = "INS_MISS" ->
         [trdid |-> Trdid("INS_MISS", 0), line |-> i_addr.line, write |-> FALSE, words |-> Word]
    [] cmd_fsm = "DATA_UNC" /\ d_type \in {"WRITE", "SC"} ->
         [trdid |-> Trdid("DATA_UNC", 0), line |-> d_addr.line, write |-> TRUE,
          words |-> OneWord(d_addr, d_wdata)]
    [] cmd_fsm = "DATA_UNC" /\ d_type \in {"READ", "LL"} ->
         [trdid |-> Trdid("DATA_UNC", 0), line |-> d_addr.line, write |-> FALSE, words |-> {d_addr.word}]
    [] cmd_fsm = "INS_UNC" ->
         [trdid |-> Trdid("INS_UNC", 0), line |-> i_addr.line, write |-> FALSE, words |-> {i_addr.word}]

(* A target executes a command: the flits of its response.                 *)
ReadFlits(p) ==
  LET flit(w) == [trdid |-> p.trdid, error |-> FALSE, rdata |-> mem[p.line][w],
                  eop |-> \A v \in p.words : v <= w]
  IN  IF p.words = Word THEN [n \in 1 .. NbWords |-> flit(n - 1)]
                        ELSE <<flit(CHOOSE w \in p.words : TRUE)>>

OneFlit(p, error) == <<[trdid |-> p.trdid, error |-> error, rdata |-> None, eop |-> TRUE]>>

Flits(p) ==
  CASE p.line \in ErrorLine -> OneFlit(p, TRUE)
    [] p.line \notin ErrorLine /\ p.write -> OneFlit(p, FALSE)
    [] p.line \notin ErrorLine /\ ~p.write -> ReadFlits(p)

Execute(p) ==
  IF p.write /\ p.line \notin ErrorLine
  THEN [mem EXCEPT ![p.line] = [w \in Word |-> IF p.words[w] = Hole THEN @[w] ELSE p.words[w]]]
  ELSE mem

(* The commands that no earlier one to the same target precedes.           *)
Serviceable ==
  {k \in DOMAIN net : \A j \in 1 .. k - 1 : TargetOf[net[j].line] /= TargetOf[net[k].line]}

(* The commands without the k-th.                                          *)
Without(k) == [n \in 1 .. Len(net) - 1 |-> IF n < k THEN net[n] ELSE net[n + 1]]

(* The network takes the flit of the command, and sends the command with   *)
(* its last flit; served is the command that a target executes, if any.    *)
Network(ack, served) ==
  LET left == IF served = 0 THEN net ELSE Without(served)
      last == cmd_fsm = "DATA_WRITE" => cmd_cpt = cmd_max
  IN  IF Cmdval /\ ack
      THEN IF last THEN burst' = NoBurst /\ net' = Append(left, Packet)
                   ELSE burst' = Sent /\ net' = left
      ELSE burst' = burst /\ net' = left

(* A command is executed when the response to the previous one has gone.   *)
Serve(served) ==
  /\ rsp = <<>> /\ served \in Serviceable
  /\ rsp' = Flits(net[served]) /\ mem' = Execute(net[served])
  /\ UNCHANGED dmaDone

Dma ==
  /\ ~dmaDone /\ dmaDone' = TRUE
  /\ mem' = [line \in Line |-> IF line \in DmaLine THEN [w \in Word |-> "new"] ELSE mem[line]]

Deliver(flit) ==
  /\ rsp' = IF Rspval(flit) /\ Rspack THEN Tail(rsp) ELSE rsp
  /\ Dma \/ UNCHANGED <<mem, dmaDone>>

-------------------------------------------------------------------------------
(* The write buffer: its update locks the slots of locks.                  *)
Updated(locks) == WbufUpdate(WbufWritten, locks)

WbufNext(locks, ack, flit) ==
  LET sent == IF BurstSent(ack) THEN WbufSent(Updated(locks), cmd_slot) ELSE Updated(locks)
  IN  IF WriteDone(flit) THEN WbufCompleted(sent, flit.trdid.slot) ELSE sent

Invalidate ==
  fresh' = IF d_fsm \in {"XTN_HIT", "XTN_INVAL"} /\ Drsp.valid /\ dmaDone
           THEN fresh \cup {d_wdata} ELSE fresh

Cycle(locks, ack, served, flit) ==
  /\ Dcache /\ Icache
  /\ Cmd(Updated(locks), ack) /\ Rsp(flit)
  /\ wbuf' = WbufNext(locks, ack, flit)
  /\ Processor /\ Invalidate /\ UNCHANGED program
  /\ Network(ack, served)
  /\ IF served = 0 THEN Deliver(flit) ELSE Serve(served)

Flit == {NoFlit} \cup {rsp[1] : n \in 1 .. Len(rsp)}

Clock ==
  \E locks \in SUBSET Open(WbufWritten), ack \in BOOLEAN,
     served \in {0} \cup Serviceable, flit \in Flit :
       Cycle(locks, ack, served, flit)

-------------------------------------------------------------------------------
(* Fairness.  The clock never stops, so that each state machine takes the  *)
(* steps it can take; and the components around the controller do their    *)
(* part in the end: the write buffer locks its slots, the network accepts  *)
(* a flit, a target executes a command, the network delivers a flit.       *)
Locks ==
  /\ Open(WbufWritten) /= {}
  /\ \E ack \in BOOLEAN, flit \in Flit : wbuf' = WbufNext(Open(WbufWritten), ack, flit)

Commands ==
  \E wb \in {Updated(locks) : locks \in SUBSET Open(WbufWritten)} : Cmd(wb, TRUE)

Serves == rsp = <<>> /\ \E served \in Serviceable : rsp' = Flits(net[served])

Delivers == \E flit \in Flit \ {NoFlit} : Rsp(flit)

Fairness ==
  /\ WF_dcacheRegs(Dcache) /\ WF_icacheRegs(Icache)
  /\ WF_cmdVars(Commands) /\ WF_rspVars(Delivers)
  /\ WF_wbuf(Locks) /\ WF_rsp(Serves)

Spec == Init /\ [][Clock]_vars /\ Fairness

-------------------------------------------------------------------------------
Value == {"old", "new"} \cup UNION { {Contents[line][w] : w \in Word} : line \in Line }

CacheType == [Way -> [valid : BOOLEAN, tag : CacheableLine \cup {None},
                      data : [Word -> Value \cup {Junk}]]]

TypeOK ==
  /\ d_fsm \in DcacheState /\ i_fsm \in IcacheState
  /\ d_word \in 0 .. NbWords /\ i_word \in 0 .. NbWords /\ d_way \in Way /\ i_way \in Way
  /\ dcache \in CacheType /\ icache \in CacheType
  /\ wbuf \in [Slot -> [st : {"EMPTY", "OPEN", "LOCKED", "SENT"}, line : CacheableLine \cup {None},
                        data : [Word -> Value \cup {Hole}]]]
  /\ cmd_fsm \in ReadType \cup {"IDLE", "DATA_WRITE"} /\ rsp_fsm \in ReadType \cup {"IDLE", "DATA_WRITE"}
  /\ cmd_slot \in Slot /\ cmd_cpt \in 0 .. NbWords /\ cmd_max \in Word
  /\ cmd_fsm = "DATA_WRITE" => cmd_cpt <= cmd_max
  /\ Len(fifo_data) <= FifoDepth /\ Len(fifo_ins) <= FifoDepth
  /\ {d_miss_req, d_unc_req, data_error, i_miss_req, i_unc_req, ins_error} \subseteq BOOLEAN
  /\ mem \in [Line -> [Word -> Value]]

(* The lines only the processor writes, and whose reads succeed.           *)
OwnLine == Line \ (DmaLine \cup ErrorLine)

(***************************************************************************)
(* The processor reads what it has last written, cached or not, wherever   *)
(* the write is: in the cache, the write buffer, the network or memory;    *)
(* and it is told of an error exactly when its own request has one         *)
(* (vci_xcache_wrapper_advanced.cpp:463, "Read Bus Errors are synchronous  *)
(* events").                                                               *)
(***************************************************************************)
ReadsOwnWrites ==
  Drsp.valid /\ dreq.type \in {"READ", "LL", "SC"} =>
    /\ Drsp.error <=> dreq.addr.line \in ErrorLine
    /\ dreq.type \in {"READ", "LL"} /\ dreq.addr.line \in OwnLine =>
         Drsp.rdata = expected[dreq.addr.line][dreq.addr.word]

(***************************************************************************)
(* Every fetch is answered with the instruction at its address, cached or  *)
(* not, or with an error if its own line has one.                          *)
(***************************************************************************)
FetchesRight ==
  Irsp.valid =>
    /\ Irsp.error <=> ireq.addr.line \in ErrorLine
    /\ ~Irsp.error => Irsp.instruction = Contents[ireq.addr.line][ireq.addr.word]

(* The word as of the requests that have been answered.                    *)
Latest(line, word) ==
  LET value == expected[line][word]
  IN  IF dreq.type = "WRITE" /\ dreq.addr = [line |-> line, word |-> word] THEN Other(value) ELSE value

Queued(line, word) ==
  {k \in DOMAIN net : net[k].write /\ net[k].line = line /\ net[k].words[word] /= Hole}

Buffered(line, word) ==
  {s \in Slot : wbuf[s].st \in {"OPEN", "LOCKED"} /\ wbuf[s].line = line /\ wbuf[s].data[word] /= Hole}

(* The write that reaches memory last, among those on their way.           *)
LastWritten(line, word) ==
  IF d_fsm \in {"WRITE_UPDT", "WRITE_REQ"} /\ d_addr = [line |-> line, word |-> word] THEN d_wdata
  ELSE IF Buffered(line, word) /= {} THEN wbuf[CHOOSE s \in Buffered(line, word) : TRUE].data[word]
  ELSE IF Queued(line, word) /= {} THEN net[CHOOSE k \in Queued(line, word) : TRUE].words[word]
  ELSE mem[line][word]

(***************************************************************************)
(* A write answered to the processor before it has gone anywhere is not    *)
(* lost nor overtaken by an older one, however bursts are gathered, sent   *)
(* and refused: memory, or what is on its way to it, ends with that value. *)
(***************************************************************************)
NoWriteLost ==
  \A line \in OwnLine \cap CacheableLine : \A word \in Word :
    LastWritten(line, word) = Latest(line, word)

(***************************************************************************)
(* A SYNC waits for the "write buffer empty" (line 744): once it is answered   *)
(* every earlier write is in memory, where other devices read it.          *)
(***************************************************************************)
SyncDrains ==
  d_fsm = "XTN_SYNC" /\ Drsp.valid => \A line \in OwnLine : mem[line] = expected[line]

(* A read command of one of types is on its way to its target.             *)
OnItsWay(types) == cmd_fsm \in types \/ \E k \in DOMAIN net : net[k].trdid.type \in types

ToCome(request, types, size) ==
  IF request \/ OnItsWay(types) THEN size
  ELSE Cardinality({n \in DOMAIN rsp : rsp[n].trdid.type \in types})

(***************************************************************************)
(* The words a cache waits for are all accounted for: still to be asked    *)
(* for, on their way, in its FIFO, or stored.  No word is dropped at a     *)
(* full FIFO (rspack does not depend on it), left there for a later        *)
(* request, or given to the other cache; none is awaited that nobody sends.*)
(***************************************************************************)
Accounted(fsm, word, line, fifo, error, miss, unc) ==
  CASE fsm \in {"MISS_SELECT", "MISS_INVAL", "MISS_WAIT"} /\ line \notin ErrorLine ->
         word + Len(fifo) + miss = NbWords /\ unc = 0 /\ ~error
    [] fsm = "UNC_WAIT" /\ line \notin ErrorLine ->
         Len(fifo) + unc = 1 /\ miss = 0 /\ ~error
    [] fsm \in {"MISS_SELECT", "MISS_INVAL", "MISS_WAIT", "UNC_WAIT"} /\ line \in ErrorLine ->
         fifo = <<>> /\ error = (miss + unc = 0)
    [] OTHER -> fifo = <<>> /\ miss + unc = 0 /\ ~error

ResponsesAccounted ==
  /\ Accounted(d_fsm, d_word, d_addr.line, fifo_data, data_error,
               ToCome(d_miss_req, {"DATA_MISS"}, NbWords), ToCome(d_unc_req, {"DATA_UNC"}, 1))
  /\ Accounted(i_fsm, i_word, i_addr.line, fifo_ins, ins_error,
               ToCome(i_miss_req, {"INS_MISS"}, NbWords), ToCome(i_unc_req, {"INS_UNC"}, 1))

(***************************************************************************)
(* Software coherence: after an XTN_DCACHE_INVAL of a line that a DMA has  *)
(* written, the processor reads what the DMA has written.                  *)
(***************************************************************************)
InvalidatedFresh ==
  Drsp.valid /\ dreq.type = "READ" /\ dreq.addr.line \in (fresh \cap DmaLine) \ ErrorLine =>
    Drsp.rdata = "new"

(***************************************************************************)
(* The processor is never frozen for good: time and again both its fetch   *)
(* and its data request are answered, whatever the caches, the write       *)
(* buffer and the command state machine wait for.                          *)
(***************************************************************************)
RequestsAnswered == []<>Answered
===============================================================================
