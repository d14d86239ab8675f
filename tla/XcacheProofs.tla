---------------------------- MODULE XcacheProofs -----------------------------
(***************************************************************************)
(* The cache proved for any lines, ways, slots, words and programs.        *)
(* Controlled is the inductive invariant of its control: what the machines *)
(* of the wrapper wait for, and where the words they wait for are.  IInv   *)
(* adds the values: what a word is worth in memory, in the network, in the *)
(* write buffer, in the FIFOs and in the caches.                           *)
(***************************************************************************)
EXTENDS XcacheTop, WellFoundedInduction, FiniteSetTheorems, TLAPS

(***************************************************************************)
(* Types.                                                                  *)
(***************************************************************************)
Bit == {"old", "new"}

DataRequest ==
  {NoData} \cup [type : {"READ", "LL"}, addr : Addr, wdata : {None}]
  \cup [type : {"WRITE", "SC"}, addr : Addr, wdata : Bit] \cup Extern

TrdidSet == [type : ReadType \cup {"DATA_WRITE"}, slot : Slot]
Burst    == [Word -> Bit \cup {Hole}]
FlitSet  == [trdid : TrdidSet, error : BOOLEAN, rdata : Value \cup {None}, eop : BOOLEAN]

PacketSet ==
  [trdid : TrdidSet, line : Line, write : {FALSE}, words : {Word} \cup {{w} : w \in Word}]
  \cup [trdid : TrdidSet, line : Line, write : {TRUE}, words : Burst]

DataTypes ==
  /\ d_fsm \in DcacheState /\ d_addr \in Addr \cup {XtnAddr}
  /\ d_type \in {"NONE", "READ", "LL", "WRITE", "SC", "INVAL", "SYNC"}
  /\ d_wdata \in {None} \cup Bit \cup Line
  /\ d_way \in Way /\ d_word \in 0 .. NbWords
  /\ dreq \in DataRequest

InsTypes ==
  /\ i_fsm \in IcacheState /\ i_addr \in Addr \cup {XtnAddr}
  /\ i_way \in Way /\ i_word \in 0 .. NbWords
  /\ ireq \in {NoFetch} \cup [valid : {TRUE}, addr : Addr]

CmdTypes ==
  /\ cmd_fsm \in ReadType \cup {"IDLE", "DATA_WRITE"}
  /\ cmd_slot \in Slot /\ cmd_cpt \in 0 .. NbWords /\ cmd_max \in Word
  /\ {d_miss_req, d_unc_req, i_miss_req, i_unc_req} \subseteq BOOLEAN

RspTypes ==
  /\ rsp_fsm \in ReadType \cup {"IDLE", "DATA_WRITE"}
  /\ fifo_data \in Seq(Value \cup {None}) /\ Len(fifo_data) <= 1
  /\ fifo_ins \in Seq(Value \cup {None}) /\ Len(fifo_ins) <= 1
  /\ {data_error, ins_error} \subseteq BOOLEAN

StoreTypes ==
  /\ dcache \in CacheType /\ icache \in CacheType
  /\ wbuf \in [Slot -> [st : {"EMPTY", "OPEN", "LOCKED", "SENT"}, line : CacheableLine \cup {None},
                        data : Burst]]

NetTypes == net \in Seq(PacketSet) /\ rsp \in Seq(FlitSet) /\ burst \in Burst

MemTypes ==
  /\ mem \in [Line -> [Word -> Value]] /\ expected \in [Line -> [Word -> Value]]
  /\ program \in Programs /\ fresh \subseteq Line /\ dmaDone \in BOOLEAN

(***************************************************************************)
(* What the registers of a cache hold is the request it serves.            *)
(***************************************************************************)
Missing == {"MISS_SELECT", "MISS_INVAL", "MISS_WAIT"}
Writing == {"WRITE_UPDT", "WRITE_REQ"}

AskedData ==
  /\ dreq.type \in {"LL", "SC"} => ~Cacheable(dreq.addr)
  /\ Stores(dreq) => dreq.addr.line \in StoredLine
  /\ Stores(dreq) /\ dreq.addr.line \notin ErrorLine =>
       dreq.wdata = expected[dreq.addr.line][dreq.addr.word]
  /\ \A line \in StoredLine : \A word \in Word : expected[line][word] \in Bit

ServedData ==
  /\ d_fsm \in Missing => d_addr = dreq.addr /\ dreq.type = "READ" /\ Cacheable(dreq.addr)
  /\ d_fsm = "UNC_WAIT" =>
       /\ d_addr = dreq.addr /\ d_type = dreq.type /\ d_wdata = dreq.wdata
       /\ dreq.type \in {"READ", "LL", "WRITE", "SC"} /\ ~Cacheable(dreq.addr)
  /\ d_fsm \in {"XTN_HIT", "XTN_INVAL"} => dreq.type = "INVAL" /\ d_wdata = dreq.wdata
  /\ d_fsm = "XTN_SYNC" => dreq.type = "SYNC"
  /\ d_fsm \in Writing =>
       /\ d_addr \in Addr /\ Cacheable(d_addr) /\ d_addr.line \in StoredLine /\ d_wdata \in Bit

ServedIns ==
  /\ ireq.valid => ireq.addr.line \in FetchedLine
  /\ i_fsm \in Missing => ireq = [valid |-> TRUE, addr |-> i_addr] /\ Cacheable(i_addr)
  /\ i_fsm = "UNC_WAIT" => ireq = [valid |-> TRUE, addr |-> i_addr] /\ ~Cacheable(i_addr)

(***************************************************************************)
(* The caches: a line is in one way at most.                               *)
(***************************************************************************)
CacheShape(cache) ==
  /\ \A v, w \in Way : cache[v].valid /\ cache[w].valid /\ cache[v].tag = cache[w].tag => v = w
  /\ \A w \in Way : cache[w].valid => cache[w].tag \in CacheableLine \ ErrorLine

DcacheShape ==
  /\ CacheShape(dcache)
  /\ d_fsm \in Missing => ~Hit(dcache, d_addr.line)
  /\ d_fsm = "MISS_WAIT" => ~dcache[d_way].valid
  /\ d_fsm = "WRITE_UPDT" => Holds(dcache, d_addr.line, d_way) /\ d_word = d_addr.word
  /\ d_fsm = "XTN_INVAL" => Holds(dcache, d_wdata, d_way)

IcacheShape ==
  /\ CacheShape(icache)
  /\ i_fsm \in Missing => ~Hit(icache, i_addr.line)
  /\ i_fsm = "MISS_WAIT" => ~icache[i_way].valid

(***************************************************************************)
(* The write buffer, and the burst that leaves it.                         *)
(***************************************************************************)
Gathers(s) == wbuf[s].st \in {"OPEN", "LOCKED"}

WbufShape ==
  /\ \A s \in Slot : ~Busy(wbuf, s) => wbuf[s] = EmptySlot
  /\ \A s \in Slot : Busy(wbuf, s) => wbuf[s].line \in CacheableLine \cap StoredLine
  /\ \A r, s \in Slot : Busy(wbuf, r) /\ Busy(wbuf, s) /\ wbuf[r].line = wbuf[s].line => r = s
  /\ \A s \in Slot : Gathers(s) => \E w \in Word : wbuf[s].data[w] /= Hole

BurstShape ==
  IF cmd_fsm = "DATA_WRITE"
  THEN /\ wbuf[cmd_slot].st = "LOCKED" /\ cmd_cpt <= cmd_max
       /\ \A w \in Word : w > cmd_max => wbuf[cmd_slot].data[w] = Hole
       /\ \A w \in Word : burst[w] = IF w < cmd_cpt THEN wbuf[cmd_slot].data[w] ELSE Hole
  ELSE burst = NoBurst

(***************************************************************************)
(* Commands and responses.  Each read request is in one place at a time.   *)
(***************************************************************************)
InFlight == {net[k] : k \in DOMAIN net}

AtReq(type) ==
  \/ type = "DATA_MISS" /\ d_miss_req
  \/ type = "DATA_UNC" /\ d_unc_req
  \/ type = "INS_MISS" /\ i_miss_req
  \/ type = "INS_UNC" /\ i_unc_req
AtCmd(type) == cmd_fsm = type
AtNet(type) == \E p \in InFlight : p.trdid.type = type
AtRsp(type) == rsp /= <<>> /\ rsp[1].trdid.type = type

Place(type) ==
  IF AtReq(type) THEN "req" ELSE IF AtCmd(type) THEN "cmd" ELSE IF AtNet(type) THEN "net"
  ELSE IF AtRsp(type) THEN "rsp" ELSE "none"

OncePlaced ==
  \A type \in ReadType :
    /\ AtReq(type) => Place(type) = "req"
    /\ AtCmd(type) => Place(type) = "cmd"
    /\ AtNet(type) => Place(type) = "net"
    /\ AtRsp(type) => Place(type) = "rsp"

WritesPlaced ==
  /\ \A p \in InFlight : p.trdid.type = "DATA_WRITE" =>
        p.write /\ wbuf[p.trdid.slot].st = "SENT" /\ p.line = wbuf[p.trdid.slot].line
  /\ AtRsp("DATA_WRITE") => wbuf[rsp[1].trdid.slot].st = "SENT"

NetDistinct ==
  /\ \A j, k \in DOMAIN net : net[j].trdid = net[k].trdid => j = k
  /\ rsp /= <<>> => \A p \in InFlight : p.trdid /= rsp[1].trdid

RspShape ==
  /\ \A n \in DOMAIN rsp : rsp[n].trdid = rsp[1].trdid /\ (rsp[n].eop <=> n = Len(rsp))
  /\ rsp_fsm = "IDLE" \/ AtRsp(rsp_fsm)
  /\ rsp /= <<>> /\ rsp[1].trdid.type \notin BurstState => Len(rsp) = 1
  /\ \A n \in DOMAIN rsp : rsp[n].error => Len(rsp) = 1
  /\ \A n \in DOMAIN rsp : rsp[n].trdid.type \in BurstState /\ ~rsp[n].error => rsp[n].rdata \in Value

Asks(p) ==
  /\ p.trdid.type \in ReadType => p.trdid.slot = 0
  /\ p.trdid.type = "DATA_MISS" => p.line = d_addr.line /\ ~p.write /\ p.words = Word
  /\ p.trdid.type = "DATA_UNC" =>
       /\ p.line = d_addr.line
       /\ IF d_type \in {"WRITE", "SC"} THEN p.write /\ p.words = OneWord(d_addr, d_wdata)
                                        ELSE ~p.write /\ p.words = {d_addr.word}
  /\ p.trdid.type = "INS_MISS" => p.line = i_addr.line /\ ~p.write /\ p.words = Word
  /\ p.trdid.type = "INS_UNC" => p.line = i_addr.line /\ ~p.write /\ p.words = {i_addr.word}

PacketsAsk == \A p \in InFlight : Asks(p)

(***************************************************************************)
(* The words a cache waits for: where they are.                            *)
(***************************************************************************)
Coming(type, size) ==
  IF Place(type) = "none" THEN 0 ELSE IF Place(type) = "rsp" THEN Len(rsp) ELSE size

Accounts(line, word, size, fifo, error, type) ==
  IF line \notin ErrorLine
  THEN /\ word + Len(fifo) + Coming(type, size) = size /\ ~error
       /\ Place(type) = "rsp" => \A n \in DOMAIN rsp : ~rsp[n].error
  ELSE /\ fifo = <<>> /\ (error <=> Place(type) = "none")
       /\ Place(type) = "rsp" => rsp[1].error

DataTraffic ==
  /\ d_fsm \notin Missing => Place("DATA_MISS") = "none"
  /\ d_fsm /= "UNC_WAIT" => Place("DATA_UNC") = "none"
  /\ d_fsm = "MISS_SELECT" => Place("DATA_MISS") = "req"
  /\ d_fsm = "MISS_INVAL" => Place("DATA_MISS") \in {"req", "cmd"}
  /\ d_fsm \in Missing =>
       /\ Accounts(d_addr.line, d_word, NbWords, fifo_data, data_error, "DATA_MISS")
       /\ fifo_data /= <<>> => fifo_data[1] \in Value
  /\ d_fsm = "UNC_WAIT" => Accounts(d_addr.line, 0, 1, fifo_data, data_error, "DATA_UNC")
  /\ d_fsm \notin Missing \cup {"UNC_WAIT"} => fifo_data = <<>> /\ ~data_error

InsTraffic ==
  /\ i_fsm \notin Missing => Place("INS_MISS") = "none"
  /\ i_fsm /= "UNC_WAIT" => Place("INS_UNC") = "none"
  /\ i_fsm = "MISS_SELECT" => Place("INS_MISS") = "req"
  /\ i_fsm = "MISS_INVAL" => Place("INS_MISS") \in {"req", "cmd"}
  /\ i_fsm \in Missing =>
       /\ Accounts(i_addr.line, i_word, NbWords, fifo_ins, ins_error, "INS_MISS")
       /\ fifo_ins /= <<>> => fifo_ins[1] \in Value
  /\ i_fsm = "UNC_WAIT" => Accounts(i_addr.line, 0, 1, fifo_ins, ins_error, "INS_UNC")
  /\ i_fsm \notin Missing \cup {"UNC_WAIT"} => fifo_ins = <<>> /\ ~ins_error

(***************************************************************************)
(* The step of a cycle.                                                    *)
(***************************************************************************)
Ticks(locks, ack, served, flit) ==
  /\ locks \subseteq Open(WbufWritten) /\ ack \in BOOLEAN
  /\ served \in {0} \cup Serviceable /\ flit \in Flit
  /\ Cycle(locks, ack, served, flit)

(* Every clock cycle is the step of some inputs.                           *)
LEMMA ClockTicks ==
  ASSUME Clock
  PROVE  \E locks, ack, served, flit : Ticks(locks, ack, served, flit)
BY DEF Clock, Ticks

(* The indices the machines start from.                                    *)
LEMMA Zero == 0 \in Word /\ 0 \in Slot /\ 0 \in Way /\ NbWords - 1 \in Word
BY StoresAssumption DEF Word, Slot, Way

(* The values that the program stores are values of the memory.            *)
LEMMA BitIsValue == Bit \subseteq Value
BY DEF Bit, Value

(* The initial memory holds values.                                        *)
LEMMA ContentsAreValues ==
  ASSUME NEW line \in Line, NEW word \in Word
  PROVE  Contents[line][word] \in Value
BY DEF Value

(* The way that a hit selects holds the line.                              *)
LEMMA HitWayHolds ==
  ASSUME NEW cache, NEW line, Hit(cache, line)
  PROVE  HitWay(cache, line) \in Way /\ Holds(cache, line, HitWay(cache, line))
BY DEF Hit, HitWay

(* What the operations on a cache do.                                      *)
WayType == [valid : BOOLEAN, tag : CacheableLine \cup {None}, data : [Word -> Value \cup {Junk}]]

(* Writing a word of a way changes that word alone.                        *)
LEMMA WriteWordIs ==
  ASSUME NEW cache \in CacheType, NEW way \in Way, NEW word \in Word, NEW value \in Value,
         NEW after, after = WriteWord(cache, way, word, value)
  PROVE  /\ after \in CacheType
         /\ \A w \in Way : after[w].valid = cache[w].valid /\ after[w].tag = cache[w].tag
         /\ \A w \in Way : \A x \in Word :
              after[w].data[x] = IF w = way /\ x = word THEN value ELSE cache[w].data[x]
<1>1. \A w \in Way : cache[w] \in WayType
  BY DEF CacheType, WayType
<1>2. \A w \in Way : after[w] = IF w = way THEN [cache[w] EXCEPT !.data[word] = value] ELSE cache[w]
  BY DEF WriteWord, CacheType
<1>3. [cache[way].data EXCEPT ![word] = value] \in [Word -> Value \cup {Junk}]
      /\ \A x \in Word : [cache[way].data EXCEPT ![word] = value][x]
                          = IF x = word THEN value ELSE cache[way].data[x]
  BY <1>1 DEF WayType
<1>4. [cache[way] EXCEPT !.data[word] = value] \in WayType
  BY <1>1, <1>3 DEF WayType
<1>5. after \in CacheType
  BY <1>1, <1>2, <1>4 DEF WriteWord, CacheType, WayType
<1>6. ASSUME NEW w \in Way, w /= way
      PROVE  after[w] = cache[w]
  BY <1>2, <1>6
<1>7. /\ after[way].data = [cache[way].data EXCEPT ![word] = value]
      /\ after[way].valid = cache[way].valid /\ after[way].tag = cache[way].tag
  BY <1>1, <1>2 DEF WayType
<1>8. \A x \in Word : after[way].data[x] = IF x = word THEN value ELSE cache[way].data[x]
  BY <1>3, <1>7
<1>9. QED BY <1>5, <1>6, <1>7, <1>8

(* Setting the tag of a way validates it for the line, data unchanged.     *)
LEMMA UpdateTagIs ==
  ASSUME NEW cache \in CacheType, NEW way \in Way, NEW line \in CacheableLine,
         NEW after, after = UpdateTag(cache, way, line)
  PROVE  /\ after \in CacheType
         /\ \A w \in Way : after[w].data = cache[w].data
         /\ \A w \in Way : w /= way => after[w] = cache[w]
         /\ after[way].valid /\ after[way].tag = line
<1>1. \A w \in Way : cache[w] \in [valid : BOOLEAN, tag : CacheableLine \cup {None},
                                   data : [Word -> Value \cup {Junk}]]
  BY DEF CacheType
<1>2. \A w \in Way : after[w] = IF w = way THEN [cache[w] EXCEPT !.valid = TRUE, !.tag = line] ELSE cache[w]
  BY DEF UpdateTag, CacheType
<1>3. [cache[way] EXCEPT !.valid = TRUE, !.tag = line]
        \in [valid : BOOLEAN, tag : CacheableLine \cup {None}, data : [Word -> Value \cup {Junk}]]
  BY <1>1
<1>4. after \in CacheType
  <2>1. \A w \in Way : after[w] \in [valid : BOOLEAN, tag : CacheableLine \cup {None},
                                     data : [Word -> Value \cup {Junk}]]
    BY <1>1, <1>2, <1>3
  <2> QED
    BY <2>1 DEF UpdateTag, CacheType
<1>5. /\ \A w \in Way : after[w].data = cache[w].data
      /\ after[way].valid /\ after[way].tag = line
  BY <1>1, <1>2
<1>6. \A w \in Way : w /= way => after[w] = cache[w]
  BY <1>2
<1>7. QED BY <1>4, <1>5, <1>6

Invalidated(cache, way) == [cache EXCEPT ![way] = InvalidWay]

(* Invalidating a way leaves the others as they are.                       *)
LEMMA InvalidateIs ==
  ASSUME NEW cache \in CacheType, NEW way \in Way,
         NEW after, after = Invalidated(cache, way)
  PROVE  /\ after \in CacheType
         /\ ~after[way].valid
         /\ \A w \in Way : w /= way => after[w] = cache[w]
<1>1. InvalidWay \in [valid : BOOLEAN, tag : CacheableLine \cup {None}, data : [Word -> Value \cup {Junk}]]
      /\ ~InvalidWay.valid
  BY DEF InvalidWay
<1>2. QED BY <1>1 DEF CacheType, Invalidated

(***************************************************************************)
(* What the DCACHE machine does in a cycle, case by case.                  *)
(***************************************************************************)
Idles == d_fsm = "IDLE" \/ Accepted

TakesTo(fsm) ==
  /\ Idles /\ d_fsm' = fsm /\ dcache' = dcache
  /\ d_addr' = dreq.addr /\ d_type' = dreq.type /\ d_wdata' = dreq.wdata
  /\ d_way' = IF DHit THEN HitWay(dcache, dreq.addr.line) ELSE 0
  /\ d_word' = IF ReadMiss THEN 0 ELSE dreq.addr.word
  /\ ~DataGet /\ ~DataError

Stays(from, to) ==
  /\ d_fsm = from /\ d_fsm' = to
  /\ d_addr' = d_addr /\ d_type' = d_type /\ d_wdata' = d_wdata

AsksNothing == /\ Idles /\ dreq.type = "NONE" /\ ~Drsp.valid /\ d_fsm' = "IDLE"
               /\ ~DataGet /\ ~DataError /\ dcache' = dcache
               /\ UNCHANGED <<d_addr, d_type, d_wdata, d_way, d_word>>
AsksHit       == TakesTo("IDLE") /\ ReadHit /\ Drsp.valid
AsksMiss      == TakesTo("MISS_SELECT") /\ ReadMiss /\ ~Drsp.valid
AsksUncached  == TakesTo("UNC_WAIT") /\ Uncached /\ ~Drsp.valid
StoresHit     == TakesTo("WRITE_UPDT") /\ WriteHit /\ Drsp.valid
StoresMiss    == TakesTo("WRITE_REQ") /\ WriteMiss /\ Drsp.valid
AsksInval     == TakesTo("XTN_HIT") /\ Considered("INVAL") /\ ~Drsp.valid
AsksSync      == TakesTo("XTN_SYNC") /\ Considered("SYNC") /\ ~Drsp.valid

Quiet == ~Drsp.valid /\ ~DataGet /\ ~DataError
Same  == dcache' = dcache /\ d_way' = d_way /\ d_word' = d_word

StoreRefused == Stays("WRITE_REQ", "WRITE_REQ") /\ ~Accepted /\ Quiet /\ Same
StoreUpdates == /\ Stays("WRITE_UPDT", "WRITE_REQ") /\ Quiet
                /\ dcache' = WriteWord(dcache, d_way, d_word, d_wdata)
                /\ d_way' = d_way /\ d_word' = d_word
MissSelects  == /\ d_fsm = "MISS_SELECT" /\ Quiet
                /\ d_addr' = d_addr /\ d_type' = d_type /\ d_wdata' = d_wdata
                /\ d_way' \in Way /\ Victim(dcache, d_way')
                /\ d_fsm' = IF dcache[d_way'].valid THEN "MISS_INVAL" ELSE "MISS_WAIT"
                /\ dcache' = dcache /\ d_word' = d_word
MissInvals   == /\ Stays("MISS_INVAL", "MISS_WAIT") /\ Quiet
                /\ dcache' = Invalidated(dcache, d_way)
                /\ d_way' = d_way /\ d_word' = d_word
MissFails    == Stays("MISS_WAIT", "IDLE") /\ DataError /\ ~DataGet /\ Drsp.valid /\ Same
MissFills    == /\ Stays("MISS_WAIT", "MISS_WAIT") /\ DataGet /\ ~DataError /\ ~Drsp.valid
                /\ d_word' = d_word + 1 /\ d_way' = d_way /\ d_word /= NbWords - 1
                /\ dcache' = WriteWord(dcache, d_way, d_word, Head(fifo_data))
MissEnds     == /\ Stays("MISS_WAIT", "IDLE") /\ DataGet /\ ~DataError /\ ~Drsp.valid
                /\ d_word' = d_word + 1 /\ d_way' = d_way /\ d_word = NbWords - 1
                /\ dcache' = UpdateTag(WriteWord(dcache, d_way, d_word, Head(fifo_data)), d_way, d_addr.line)
MissWaits    == Stays("MISS_WAIT", "MISS_WAIT") /\ Quiet /\ Same
UncFails     == Stays("UNC_WAIT", "IDLE") /\ DataError /\ ~DataGet /\ Drsp.valid /\ Same
UncEnds      == Stays("UNC_WAIT", "IDLE") /\ DataGet /\ ~DataError /\ Drsp.valid /\ Same
UncWaits     == Stays("UNC_WAIT", "UNC_WAIT") /\ Quiet /\ Same
InvalMisses  == Stays("XTN_HIT", "IDLE") /\ XtnMiss /\ Drsp.valid /\ ~DataGet /\ ~DataError /\ Same
InvalHits    == /\ Stays("XTN_HIT", "XTN_INVAL") /\ ~XtnMiss /\ Quiet
                /\ dcache' = dcache /\ d_way' = HitWay(dcache, d_wdata) /\ d_word' = d_word
InvalEnds    == /\ Stays("XTN_INVAL", "IDLE") /\ Drsp.valid /\ ~DataGet /\ ~DataError
                /\ dcache' = Invalidated(dcache, d_way)
                /\ d_way' = d_way /\ d_word' = d_word
SyncEnds     == Stays("XTN_SYNC", "IDLE") /\ SyncDone /\ Drsp.valid /\ ~DataGet /\ ~DataError /\ Same
SyncWaits    == Stays("XTN_SYNC", "XTN_SYNC") /\ Quiet /\ Same

TakesRequest ==
  \/ AsksNothing \/ AsksHit \/ AsksMiss \/ AsksUncached \/ StoresHit \/ StoresMiss
  \/ AsksInval \/ AsksSync
ServesStore == StoreRefused \/ StoreUpdates
ServesMiss  == MissSelects \/ MissInvals \/ MissFails \/ MissFills \/ MissEnds \/ MissWaits
ServesUnc   == UncFails \/ UncEnds \/ UncWaits
ServesXtn   == InvalMisses \/ InvalHits \/ InvalEnds \/ SyncEnds \/ SyncWaits

(* Which answer the processor gets.                                        *)
LEMMA AnswerIs ==
  ASSUME DataTypes, ServedData
  PROVE  Drsp.valid <=> \/ ReadHit \/ WriteHit \/ WriteMiss \/ DataError
                        \/ d_fsm = "UNC_WAIT" /\ DataGet
                        \/ d_fsm = "XTN_HIT" /\ XtnMiss
                        \/ d_fsm = "XTN_INVAL" \/ SyncDone
<1>1. d_fsm = "UNC_WAIT" => dreq.addr = d_addr
  BY DEF ServedData
<1>2. QED
  BY <1>1 DEF Drsp, Response, ErrorResponse, NoResponse, ReadHit, WriteHit, WriteMiss, DataError,
              Waiting, DataGet, SyncDone, Considered, Accepted

(* The data cache consumes a response only while it waits for one.         *)
LEMMA NotWaiting == d_fsm \notin {"MISS_WAIT", "UNC_WAIT"} => ~DataGet /\ ~DataError
BY DEF DataGet, DataError, Waiting

(* What the processor may ask for.                                         *)
LEMMA RequestIs ==
  ASSUME DataTypes
  PROVE  /\ dreq.type \in {"NONE", "READ", "LL", "WRITE", "SC", "INVAL", "SYNC"}
         /\ dreq.type = "NONE" => dreq = NoData
         /\ dreq.type \in {"READ", "LL", "WRITE", "SC"} => dreq.addr \in Addr
         /\ dreq.type \in {"WRITE", "SC"} => dreq.wdata \in Bit
         /\ dreq.type = "INVAL" => dreq.wdata \in Line
         /\ dreq.addr \in Addr \cup {XtnAddr}
         /\ dreq.wdata \in {None} \cup Bit \cup Line
<1>1. CASE dreq = NoData
  BY <1>1 DEF NoData
<1>2. CASE dreq \in [type : {"READ", "LL"}, addr : Addr, wdata : {None}]
  BY <1>2
<1>3. CASE dreq \in [type : {"WRITE", "SC"}, addr : Addr, wdata : Bit]
  BY <1>3
<1>4. CASE dreq \in Extern
  BY <1>4 DEF Extern
<1>5. QED BY <1>1, <1>2, <1>3, <1>4 DEF DataTypes, DataRequest

(* A request is taken.                                                     *)
LEMMA TakesCases ==
  ASSUME DataTypes, ServedData, Idle
  PROVE  TakesRequest
<1>1. Idles /\ dcache' = dcache /\ ~DataGet /\ ~DataError
  BY DEF Idle, Idles, DataGet, DataError, Waiting, Accepted
<1>2. ~DataError /\ d_fsm \notin {"UNC_WAIT", "XTN_HIT", "XTN_INVAL"} /\ ~SyncDone
  BY <1>1 DEF Idles, Accepted, SyncDone
<1>3. Drsp.valid <=> ReadHit \/ WriteHit \/ WriteMiss
  BY <1>2, AnswerIs
<1>4. CASE dreq.type = "NONE"
  BY <1>1, <1>3, <1>4 DEF Idle, AsksNothing, TakesRequest, ReadHit, WriteHit, WriteMiss, Considered, Saved
<1>5. CASE dreq.type /= "NONE"
  <2>1. /\ d_fsm' = AfterRequest
        /\ d_addr' = dreq.addr /\ d_type' = dreq.type /\ d_wdata' = dreq.wdata
        /\ d_way' = IF DHit THEN HitWay(dcache, dreq.addr.line) ELSE 0
        /\ d_word' = IF ReadMiss THEN 0 ELSE dreq.addr.word
    BY <1>5 DEF Idle
  <2>2. \A type : Considered(type) <=> dreq.type = type
    BY <1>1 DEF Considered, Idles
  <2>3. ASSUME NEW fsm, AfterRequest = fsm
        PROVE  TakesTo(fsm)
    BY <1>1, <2>1, <2>3 DEF TakesTo
  <2>4. CASE Uncached
    <3>1. AfterRequest = "UNC_WAIT"
      BY <2>2, <2>4 DEF AfterRequest, Uncached, ReadHit, ReadMiss, WriteHit, WriteMiss
    <3>2. ~Drsp.valid
      BY <1>3, <2>2, <2>4 DEF Uncached, ReadHit, WriteHit, WriteMiss
    <3>3. QED BY <2>3, <2>4, <3>1, <3>2 DEF AsksUncached, TakesRequest
  <2>5. CASE ReadHit
    <3>1. ~Uncached
      BY <2>2, <2>5 DEF Uncached, ReadHit
    <3>2. AfterRequest = "IDLE"
      BY <2>5, <3>1, <2>2 DEF AfterRequest, ReadHit, ReadMiss, WriteMiss, WriteHit
    <3>3. QED BY <1>3, <2>3, <2>5, <3>2 DEF AsksHit, TakesRequest
  <2>6. CASE ReadMiss
    <3>1. ~Uncached /\ ~ReadHit /\ ~WriteHit /\ ~WriteMiss
      BY <2>2, <2>6 DEF Uncached, ReadHit, ReadMiss, WriteHit, WriteMiss
    <3>2. AfterRequest = "MISS_SELECT"
      BY <2>6, <3>1, <2>2 DEF AfterRequest, ReadMiss
    <3>3. QED BY <1>3, <2>3, <2>6, <3>1, <3>2 DEF AsksMiss, TakesRequest
  <2>7. CASE WriteHit
    <3>1. ~Uncached /\ ~ReadHit /\ ~ReadMiss /\ ~WriteMiss
      BY <2>2, <2>7 DEF Uncached, ReadHit, ReadMiss, WriteHit, WriteMiss
    <3>2. AfterRequest = "WRITE_UPDT"
      BY <2>7, <3>1, <2>2 DEF AfterRequest, WriteHit
    <3>3. QED BY <1>3, <2>3, <2>7, <3>2 DEF StoresHit, TakesRequest
  <2>8. CASE WriteMiss
    <3>1. ~Uncached /\ ~ReadHit /\ ~ReadMiss /\ ~WriteHit
      BY <2>2, <2>8 DEF Uncached, ReadHit, ReadMiss, WriteHit, WriteMiss
    <3>2. AfterRequest = "WRITE_REQ"
      BY <2>8, <3>1, <2>2 DEF AfterRequest, WriteMiss
    <3>3. QED BY <1>3, <2>3, <2>8, <3>2 DEF StoresMiss, TakesRequest
  <2>9. CASE dreq.type = "INVAL"
    <3>1. ~Uncached /\ ~ReadHit /\ ~ReadMiss /\ ~WriteHit /\ ~WriteMiss
      BY <2>2, <2>9 DEF Uncached, ReadHit, ReadMiss, WriteHit, WriteMiss
    <3>2. AfterRequest = "XTN_HIT"
      BY <2>9, <3>1, <2>2 DEF AfterRequest
    <3>3. QED BY <1>3, <2>2, <2>3, <2>9, <3>1, <3>2 DEF AsksInval, TakesRequest
  <2>10. CASE dreq.type = "SYNC"
    <3>1. ~Uncached /\ ~ReadHit /\ ~ReadMiss /\ ~WriteHit /\ ~WriteMiss
      BY <2>2, <2>10 DEF Uncached, ReadHit, ReadMiss, WriteHit, WriteMiss
    <3>2. AfterRequest = "XTN_SYNC"
      BY <2>10, <3>1, <2>2 DEF AfterRequest
    <3>3. QED BY <1>3, <2>2, <2>3, <2>10, <3>1, <3>2 DEF AsksSync, TakesRequest
  <2>11. dreq.type \in {"READ", "LL", "WRITE", "SC", "INVAL", "SYNC"}
    BY <1>5, RequestIs
  <2>12. QED
    BY <2>2, <2>4, <2>5, <2>6, <2>7, <2>8, <2>9, <2>10, <2>11
       DEF Uncached, ReadHit, ReadMiss, WriteHit, WriteMiss
<1>6. QED BY <1>4, <1>5

(* A cycle of the DCACHE machine is one of the cases above.                *)
LEMMA DataCases ==
  ASSUME DataTypes, ServedData, Dcache
  PROVE  TakesRequest \/ ServesStore \/ ServesMiss \/ ServesUnc \/ ServesXtn
<1>1. CASE Idle
  BY <1>1, TakesCases
<1>2. ASSUME d_fsm \notin {"IDLE"}, ~Accepted
      PROVE  ~ReadHit /\ ~WriteHit /\ ~WriteMiss
  BY <1>2 DEF ReadHit, WriteHit, WriteMiss, Considered
<1>3. d_fsm /= "WRITE_REQ" => ~Accepted
  BY DEF Accepted
<1>4. CASE WriteReqRefused
  <2>1. Quiet
    BY <1>2, <1>4, AnswerIs, NotWaiting DEF WriteReqRefused, Quiet, SyncDone
  <2>2. QED BY <1>4, <2>1 DEF WriteReqRefused, StoreRefused, ServesStore, Stays, Same, dcacheRegs
<1>5. CASE WriteUpdt
  <2>1. Quiet
    BY <1>2, <1>3, <1>5, AnswerIs, NotWaiting DEF WriteUpdt, Quiet, SyncDone
  <2>2. QED BY <1>5, <2>1 DEF WriteUpdt, StoreUpdates, ServesStore, Stays, Saved
<1>6. CASE MissSelect
  <2>1. Quiet
    BY <1>2, <1>3, <1>6, AnswerIs, NotWaiting DEF MissSelect, Quiet, SyncDone
  <2>2. QED BY <1>6, <2>1 DEF MissSelect, MissSelects, ServesMiss, Saved
<1>7. CASE MissInval
  <2>1. Quiet
    BY <1>2, <1>3, <1>7, AnswerIs, NotWaiting DEF MissInval, Quiet, SyncDone
  <2>2. QED BY <1>7, <2>1 DEF MissInval, MissInvals, Invalidated, ServesMiss, Stays, Saved
<1>8. CASE MissWait
  <2>1. Drsp.valid <=> DataError
    BY <1>2, <1>3, <1>8, AnswerIs DEF MissWait, SyncDone
  <2>2. DataError => ~DataGet
    BY DEF DataError, DataGet
  <2>3. d_fsm = "MISS_WAIT" /\ d_addr' = d_addr /\ d_type' = d_type /\ d_wdata' = d_wdata /\ d_way' = d_way
    BY <1>8 DEF MissWait, Saved
  <2>4. CASE DataError /\ d_fsm' = "IDLE" /\ UNCHANGED <<d_word, dcache>>
    BY <2>1, <2>2, <2>3, <2>4 DEF MissFails, ServesMiss, Stays, Same
  <2>5. CASE /\ DataGet /\ d_word' = d_word + 1
             /\ IF d_word = NbWords - 1
                THEN /\ dcache' = UpdateTag(WriteWord(dcache, d_way, d_word, Head(fifo_data)), d_way, d_addr.line)
                     /\ d_fsm' = "IDLE"
                ELSE dcache' = WriteWord(dcache, d_way, d_word, Head(fifo_data)) /\ UNCHANGED d_fsm
    BY <2>1, <2>2, <2>3, <2>5 DEF MissFills, MissEnds, ServesMiss, Stays
  <2>6. CASE ~DataError /\ ~DataGet /\ UNCHANGED <<d_fsm, d_word, dcache>>
    BY <2>1, <2>2, <2>3, <2>6 DEF MissWaits, ServesMiss, Stays, Same, Quiet
  <2>7. QED BY <1>8, <2>4, <2>5, <2>6 DEF MissWait
<1>9. CASE UncWait
  <2>1. Drsp.valid <=> DataError \/ DataGet
    BY <1>2, <1>3, <1>9, AnswerIs DEF UncWait, SyncDone
  <2>2. DataError => ~DataGet
    BY DEF DataError, DataGet
  <2>3. QED
    BY <1>9, <2>1, <2>2 DEF UncWait, Saved, UncFails, UncEnds, UncWaits, ServesUnc, Stays, Same, Quiet
<1>10. CASE XtnHit
  <2>1. Drsp.valid <=> XtnMiss
    BY <1>2, <1>3, <1>10, AnswerIs, NotWaiting DEF XtnHit, SyncDone
  <2>2. QED
    BY <1>10, <2>1, NotWaiting DEF XtnHit, Saved, InvalMisses, InvalHits, ServesXtn, Stays, Same, Quiet
<1>11. CASE XtnInval
  <2>1. Drsp.valid
    BY <1>11, AnswerIs DEF XtnInval
  <2>2. QED
    BY <1>11, <2>1, NotWaiting DEF XtnInval, Invalidated, Saved, InvalEnds, ServesXtn, Stays
<1>12. CASE XtnSync
  <2>1. Drsp.valid <=> SyncDone
    BY <1>2, <1>3, <1>12, AnswerIs, NotWaiting DEF XtnSync
  <2>2. QED
    BY <1>12, <2>1, NotWaiting DEF XtnSync, Saved, SyncEnds, SyncWaits, ServesXtn, Stays, Same, Quiet
<1>13. QED
  BY <1>1, <1>4, <1>5, <1>6, <1>7, <1>8, <1>9, <1>10, <1>11, <1>12 DEF Dcache

(***************************************************************************)
(* What the processor does in a cycle.                                     *)
(***************************************************************************)
HoldsRequest == ~Drsp.valid /\ dreq.type /= "NONE" /\ dreq' = dreq /\ expected' = expected
Free   == Drsp.valid \/ dreq.type = "NONE"

(* A cycle of the processor's data side: it holds its request, drops it or *)
(* issues the next one.                                                    *)
LEMMA ProcessorCases ==
  ASSUME DataTypes, Processor
  PROVE  \/ HoldsRequest
         \/ Free /\ dreq' = NoData /\ expected' = expected
         \/ Free /\ \E r \in program.requests : Issue(r)
<1>1. dreq.type = "NONE" => dreq = NoData
  BY RequestIs
<1>2. CASE Answered
  <2>1. Free
    BY <1>2 DEF Answered, Free
  <2>2. Issue(NoData) => dreq' = NoData /\ expected' = expected
    BY DEF Issue, Stores, NoData
  <2>3. \E r \in program.requests \cup {NoData} : Issue(r)
    BY <1>2 DEF Processor
  <2>4. QED BY <2>1, <2>2, <2>3
<1>3. CASE ~Answered
  <2>1. dreq' = (IF Drsp.valid THEN NoData ELSE dreq) /\ expected' = expected
    BY <1>3 DEF Processor
  <2>2. QED BY <1>1, <2>1 DEF Free, HoldsRequest
<1>4. QED BY <1>2, <1>3

(* What the programs ask of the data cache.                                *)
LEMMA AskedForm ==
  ASSUME NEW r \in Requests
  PROVE  /\ r \in Access \cup Extern
         /\ r.type \in {"LL", "SC"} => ~Cacheable(r.addr)
         /\ Stores(r) => r.addr.line \in StoredLine /\ r \in Access
<1>1. r \in Access \cup Extern
  BY TopAssumption DEF Requests
<1>2. Stores(r) => r \in Access
  BY <1>1 DEF Stores, Extern
<1>3. Stores(r) => r.addr.line \in StoredLine
  BY DEF StoredLine
<1>4. QED BY <1>1, <1>2, <1>3, TopAssumption

(* Issuing a request: a store also changes the value the program expects.  *)
LEMMA IssueIs ==
  ASSUME MemTypes, AskedData, NEW r \in program.requests, Issue(r)
  PROVE  /\ r \in Requests
         /\ dreq' \in DataRequest /\ dreq'.type = r.type /\ dreq'.addr = r.addr
         /\ expected' \in [Line -> [Word -> Value]]
         /\ \A line \in Line : \A word \in Word : expected'[line][word] =
              IF Stores(r) /\ r.addr = [line |-> line, word |-> word] /\ line \notin ErrorLine
              THEN Other(expected[line][word]) ELSE expected[line][word]
         /\ Stores(r) => dreq'.wdata = expected'[r.addr.line][r.addr.word]
<1>1. r \in Requests
  BY DEF Requests, MemTypes
<1>2. r \in Access \cup Extern
  BY <1>1, AskedForm
<1>3. CASE ~Stores(r)
  <2>1. dreq' = r /\ expected' = expected
    BY <1>3 DEF Issue
  <2>2. r \in DataRequest
    BY <1>2, <1>3 DEF DataRequest, Access, Stores
  <2>3. QED BY <1>1, <1>3, <2>1, <2>2 DEF MemTypes
<1>4. CASE Stores(r)
  <2>1. r \in Access /\ r.addr.line \in StoredLine /\ r.addr \in Addr
    BY <1>1, <1>4, AskedForm DEF Access
  <2>2. r.addr.line \in Line /\ r.addr.word \in Word
    BY <2>1 DEF Addr
  <2>3. r.addr = [line |-> r.addr.line, word |-> r.addr.word]
    BY <2>1 DEF Addr
  <2>4. CASE r.addr.line \in ErrorLine
    <3>1. expected' = expected
      BY <2>4 DEF Issue
    <3>2. expected'[r.addr.line][r.addr.word] \in Bit
      BY <2>1, <2>2, <3>1 DEF AskedData
    <3>3. dreq' = [r EXCEPT !.wdata = expected'[r.addr.line][r.addr.word]]
      BY <1>4 DEF Issue
    <3>4. dreq' \in DataRequest /\ dreq'.type = r.type /\ dreq'.addr = r.addr
          /\ dreq'.wdata = expected'[r.addr.line][r.addr.word]
      BY <1>4, <2>1, <3>2, <3>3 DEF DataRequest, Access, Stores
    <3>5. QED BY <1>1, <2>3, <2>4, <3>1, <3>4 DEF MemTypes
  <2>5. CASE r.addr.line \notin ErrorLine
    <3>1. expected' = [expected EXCEPT ![r.addr.line][r.addr.word] = Other(@)]
      BY <1>4, <2>5 DEF Issue
    <3>2. Other(expected[r.addr.line][r.addr.word]) \in Bit
      BY DEF Other, Bit
    <3>3. Other(expected[r.addr.line][r.addr.word]) \in Value
      BY <3>2, BitIsValue
    <3>4. expected' \in [Line -> [Word -> Value]]
      BY <2>2, <3>1, <3>3 DEF MemTypes
    <3>5. ASSUME NEW line \in Line, NEW word \in Word
          PROVE  expected'[line][word] =
                   IF line = r.addr.line /\ word = r.addr.word THEN Other(expected[line][word])
                   ELSE expected[line][word]
      BY <2>2, <3>1 DEF MemTypes
    <3>6. expected'[r.addr.line][r.addr.word] \in Bit
      BY <2>2, <3>2, <3>5
    <3>7. dreq' = [r EXCEPT !.wdata = expected'[r.addr.line][r.addr.word]]
      BY <1>4 DEF Issue
    <3>8. dreq' \in DataRequest /\ dreq'.type = r.type /\ dreq'.addr = r.addr
          /\ dreq'.wdata = expected'[r.addr.line][r.addr.word]
      BY <1>4, <2>1, <3>6, <3>7 DEF DataRequest, Access, Stores
    <3>9. ASSUME NEW line \in Line, NEW word \in Word
          PROVE  expected'[line][word] =
                   IF Stores(r) /\ r.addr = [line |-> line, word |-> word] /\ line \notin ErrorLine
                   THEN Other(expected[line][word]) ELSE expected[line][word]
      BY <1>4, <2>3, <2>5, <3>5
    <3>10. QED BY <1>1, <3>4, <3>8, <3>9
  <2>6. QED BY <2>4, <2>5
<1>5. QED BY <1>3, <1>4

(* A cycle keeps what is known of the pending request.                     *)
LEMMA AskedDataKept ==
  ASSUME DataTypes, MemTypes, AskedData, Processor
  PROVE  AskedData' /\ dreq' \in DataRequest /\ expected' \in [Line -> [Word -> Value]]
<1>1. CASE dreq' = dreq /\ expected' = expected
  BY <1>1 DEF AskedData, DataTypes, MemTypes, Stores, Cacheable
<1>2. CASE dreq' = NoData /\ expected' = expected
  BY <1>2 DEF AskedData, DataRequest, MemTypes, Stores, NoData
<1>3. ASSUME NEW r \in program.requests, Issue(r)
      PROVE  AskedData' /\ dreq' \in DataRequest /\ expected' \in [Line -> [Word -> Value]]
  <2>1. r \in Requests /\ dreq' \in DataRequest /\ dreq'.type = r.type /\ dreq'.addr = r.addr
        /\ expected' \in [Line -> [Word -> Value]]
    BY <1>3, IssueIs
  <2>2. dreq'.type \in {"LL", "SC"} => ~Cacheable(dreq'.addr)
    BY <2>1, AskedForm
  <2>3. Stores(dreq') => dreq'.addr.line \in StoredLine
    BY <2>1, AskedForm DEF Stores
  <2>4. Stores(dreq') => dreq'.wdata = expected'[dreq'.addr.line][dreq'.addr.word]
    BY <1>3, <2>1, IssueIs DEF Stores
  <2>5. ASSUME NEW line \in StoredLine, NEW word \in Word
        PROVE  expected'[line][word] \in Bit
    <3>1. line \in Line
      <4>1. \A q \in Requests : Stores(q) => q.addr.line \in Line
        BY AskedForm DEF Access, Addr
      <4>2. QED BY <4>1 DEF StoredLine
    <3>2. expected'[line][word] = Other(expected[line][word]) \/ expected'[line][word] = expected[line][word]
      BY <1>3, <3>1, IssueIs
    <3>3. Other(expected[line][word]) \in Bit
      BY DEF Other, Bit
    <3>4. QED BY <3>2, <3>3 DEF AskedData
  <2>6. QED BY <2>1, <2>2, <2>3, <2>4, <2>5 DEF AskedData, Stores, Cacheable
<1>4. QED BY <1>1, <1>2, <1>3, ProcessorCases DEF HoldsRequest

(* A word as the processor has last written it.                            *)
LEMMA LatestIs ==
  ASSUME DataTypes, AskedData, NEW line \in OwnLine, NEW word \in Word,
         dreq.type = "WRITE", dreq.addr = [line |-> line, word |-> word]
  PROVE  dreq.wdata = expected[line][word]
BY DEF AskedData, Stores, OwnLine

(* The latest value of a word changes when the data cache accepts a store  *)
(* to it, and never otherwise.                                             *)
LEMMA LatestStep ==
  ASSUME DataTypes, MemTypes, AskedData, ServedData, Processor,
         NEW line \in OwnLine \cap CacheableLine, NEW word \in Word
  PROVE  Latest(line, word)' = IF /\ WriteHit \/ WriteMiss
                                  /\ dreq.addr = [line |-> line, word |-> word]
                               THEN dreq.wdata ELSE Latest(line, word)
<1> DEFINE addr == [line |-> line, word |-> word]
<1>1. line \in Line /\ line \notin ErrorLine /\ Cacheable(addr) /\ addr.line = line /\ addr.word = word
  BY StoresAssumption DEF OwnLine, Cacheable
<1>2. CASE HoldsRequest
  <2>1. ~WriteHit /\ ~WriteMiss
    BY <1>2, AnswerIs DEF HoldsRequest
  <2>2. QED BY <1>2, <2>1 DEF HoldsRequest, Latest
<1>3. ASSUME Free, ~HoldsRequest
      PROVE  Latest(line, word)' = expected[line][word]
  <2>1. CASE dreq' = NoData /\ expected' = expected
    BY <2>1 DEF Latest, NoData
  <2>2. ASSUME NEW r \in program.requests, Issue(r)
        PROVE  Latest(line, word)' = expected[line][word]
    <3>1. dreq'.type = r.type /\ dreq'.addr = r.addr
      BY <2>2, IssueIs
    <3>2. expected'[line][word] =
            IF Stores(r) /\ r.addr = addr THEN Other(expected[line][word]) ELSE expected[line][word]
      BY <1>1, <2>2, IssueIs
    <3>3. r.type = "SC" => r.addr /= addr
      BY <1>1, <2>2, IssueIs, AskedForm
    <3>4. CASE r.type = "WRITE" /\ r.addr = addr
      <4>1. line \in StoredLine
        BY <2>2, <3>4, IssueIs, AskedForm DEF Stores
      <4>2. expected[line][word] \in Bit
        BY <4>1 DEF AskedData
      <4>3. Other(Other(expected[line][word])) = expected[line][word]
        BY <4>2 DEF Other, Bit
      <4>4. QED BY <3>1, <3>2, <3>4, <4>3 DEF Latest, Stores
    <3>5. CASE ~(r.type = "WRITE" /\ r.addr = addr)
      BY <3>1, <3>2, <3>3, <3>5 DEF Latest, Stores
    <3>6. QED BY <3>4, <3>5
  <2>3. QED BY <1>3, <2>1, <2>2, ProcessorCases
<1>4. CASE ~HoldsRequest /\ dreq.type = "WRITE" /\ dreq.addr = addr
  <2>1. Drsp.valid /\ Free
    BY <1>4, ProcessorCases DEF Free
  <2>2. WriteHit \/ WriteMiss
    BY <1>4, <2>1, AnswerIs DEF ServedData, Considered, ReadHit, DataError, Waiting, DataGet, SyncDone, Missing, Cacheable
  <2>3. QED BY <1>3, <1>4, <2>1, <2>2, LatestIs
<1>5. CASE ~HoldsRequest /\ ~(dreq.type = "WRITE" /\ dreq.addr = addr)
  <2>1. ~((WriteHit \/ WriteMiss) /\ dreq.addr = addr)
    BY <1>5 DEF WriteHit, WriteMiss, Considered
  <2>2. Latest(line, word) = expected[line][word]
    BY <1>5 DEF Latest
  <2>3. QED BY <1>3, <1>5, <2>1, <2>2, ProcessorCases
<1>6. QED BY <1>2, <1>4, <1>5

(* The number of words on their way is a number.                           *)
LEMMA ComingIs ==
  ASSUME NetTypes, NEW type, NEW size \in Nat
  PROVE  Coming(type, size) \in Nat
BY DEF Coming, NetTypes

(* The first element of a sequence that is not empty.                      *)
LEMMA FirstIs ==
  ASSUME NEW S, NEW s \in Seq(S), s /= <<>>
  PROVE  Len(s) \in Nat /\ Len(s) >= 1 /\ Head(s) = s[1] /\ s[1] \in S /\ 1 \in DOMAIN s
OBVIOUS

(* The word that a miss reads from the FIFO.                               *)
LEMMA DataWord ==
  ASSUME RspTypes, NetTypes, DataTypes, DataTraffic, DataGet
  PROVE  /\ Len(fifo_data) = 1 /\ Head(fifo_data) = fifo_data[1]
         /\ d_addr.line \notin ErrorLine
         /\ d_fsm = "MISS_WAIT" => /\ fifo_data[1] \in Value /\ d_word \in Word
                                   /\ d_word + 1 + Coming("DATA_MISS", NbWords) = NbWords
         /\ d_fsm = "UNC_WAIT" => Coming("DATA_UNC", 1) = 0
<1>1. fifo_data /= <<>> /\ d_fsm \in {"MISS_WAIT", "UNC_WAIT"}
  BY DEF DataGet, Waiting
<1>2. Len(fifo_data) = 1 /\ Head(fifo_data) = fifo_data[1]
  <2>1. Len(fifo_data) >= 1 /\ Head(fifo_data) = fifo_data[1]
    BY <1>1, FirstIs DEF RspTypes
  <2>2. \A n \in Nat : n >= 1 /\ n <= 1 => n = 1
    OBVIOUS
  <2>3. Len(fifo_data) \in Nat /\ Len(fifo_data) <= 1
    BY DEF RspTypes
  <2>4. QED BY <2>1, <2>2, <2>3
<1>3. Coming("DATA_MISS", NbWords) \in Nat /\ Coming("DATA_UNC", 1) \in Nat
  BY ComingIs, StoresAssumption
<1>4. CASE d_fsm = "MISS_WAIT"
  <2>1. /\ Accounts(d_addr.line, d_word, NbWords, fifo_data, data_error, "DATA_MISS")
        /\ fifo_data[1] \in Value
    BY <1>1, <1>4 DEF DataTraffic, Missing
  <2>2. d_addr.line \notin ErrorLine /\ d_word + 1 + Coming("DATA_MISS", NbWords) = NbWords
    BY <1>1, <1>2, <2>1 DEF Accounts
  <2>3. d_word \in Word
    BY <1>3, <2>2, StoresAssumption DEF DataTypes, Word
  <2>4. QED BY <1>2, <1>4, <2>1, <2>2, <2>3
<1>5. CASE d_fsm = "UNC_WAIT"
  <2>1. Accounts(d_addr.line, 0, 1, fifo_data, data_error, "DATA_UNC")
    BY <1>5 DEF DataTraffic
  <2>2. d_addr.line \notin ErrorLine /\ Coming("DATA_UNC", 1) = 0
    BY <1>1, <1>2, <1>3, <2>1 DEF Accounts
  <2>3. QED BY <1>2, <1>5, <2>2
<1>6. QED BY <1>1, <1>4, <1>5

(* A cycle keeps the types of the data cache and of its machine.           *)
LEMMA DataTypesKept ==
  ASSUME DataTypes, ServedData, MemTypes, AskedData, RspTypes, NetTypes, StoreTypes, DcacheShape, DataTraffic,
         Dcache, Processor
  PROVE  DataTypes' /\ dcache' \in CacheType
<1>1. dreq' \in DataRequest
  BY AskedDataKept
<1>2. d_way \in Way /\ d_word \in 0 .. NbWords /\ dcache \in CacheType /\ d_wdata \in {None} \cup Bit \cup Line
      /\ d_type \in {"NONE", "READ", "LL", "WRITE", "SC", "INVAL", "SYNC"} /\ d_addr \in Addr \cup {XtnAddr}
  BY DEF DataTypes, StoreTypes
<1>3. CASE TakesRequest
  <2>1. CASE AsksNothing
    BY <1>1, <1>2, <2>1 DEF AsksNothing, DataTypes, DcacheState
  <2>2. ASSUME NEW fsm \in DcacheState, TakesTo(fsm)
        PROVE  DataTypes' /\ dcache' \in CacheType
    <3>1. d_way' \in Way
      BY <2>2, HitWayHolds, Zero DEF TakesTo, DHit
    <3>2. d_word' \in 0 .. NbWords
      <4>1. XtnAddr.word = 0 /\ \A a \in Addr : a.word \in Word
        BY DEF XtnAddr, Addr
      <4>2. dreq.addr.word \in 0 .. NbWords
        BY <4>1, RequestIs, StoresAssumption DEF Word
      <4>3. QED BY <2>2, <4>2, StoresAssumption DEF TakesTo
    <3>3. d_addr' \in Addr \cup {XtnAddr} /\ d_wdata' \in {None} \cup Bit \cup Line
          /\ d_type' \in {"NONE", "READ", "LL", "WRITE", "SC", "INVAL", "SYNC"}
      BY <2>2, RequestIs DEF TakesTo
    <3>4. QED BY <1>1, <1>2, <2>2, <3>1, <3>2, <3>3 DEF TakesTo, DataTypes
  <2>3. QED
    BY <1>3, <2>1, <2>2 DEF TakesRequest, AsksHit, AsksMiss, AsksUncached, StoresHit, StoresMiss,
                            AsksInval, AsksSync, DcacheState
<1>4. CASE StoreRefused
  BY <1>1, <1>2, <1>4 DEF StoreRefused, Stays, Same, DataTypes, DcacheState
<1>5. CASE StoreUpdates
  <2>1. d_word \in Word /\ d_wdata \in Value
    <3>1. d_wdata \in Bit /\ d_addr \in Addr /\ d_word = d_addr.word
      BY <1>5 DEF StoreUpdates, Stays, ServedData, Writing, DcacheShape
    <3>2. QED BY <3>1, BitIsValue DEF Addr
  <2>2. dcache' \in CacheType
    BY <1>2, <1>5, <2>1, WriteWordIs DEF StoreUpdates
  <2>3. QED BY <1>1, <1>2, <1>5, <2>2 DEF StoreUpdates, Stays, DataTypes, DcacheState
<1>6. CASE MissSelects
  BY <1>1, <1>2, <1>6 DEF MissSelects, DataTypes, DcacheState
<1>7. CASE MissInvals
  BY <1>1, <1>2, <1>7, InvalidateIs DEF MissInvals, Stays, DataTypes, DcacheState
<1>8. CASE MissFails
  BY <1>1, <1>2, <1>8 DEF MissFails, Stays, Same, DataTypes, DcacheState
<1>9. CASE MissFills
  <2>1. d_word \in Word /\ Head(fifo_data) \in Value
    BY <1>9, DataWord DEF MissFills, Stays
  <2>2. dcache' \in CacheType
    BY <1>2, <1>9, <2>1, WriteWordIs DEF MissFills
  <2>3. d_word' \in 0 .. NbWords
    BY <1>9, <2>1, StoresAssumption DEF MissFills, Word
  <2>4. QED BY <1>1, <1>2, <1>9, <2>2, <2>3 DEF MissFills, Stays, DataTypes, DcacheState
<1>10. CASE MissEnds
  <2>1. d_word \in Word /\ Head(fifo_data) \in Value
    BY <1>10, DataWord DEF MissEnds, Stays
  <2>2. WriteWord(dcache, d_way, d_word, Head(fifo_data)) \in CacheType
    BY <1>2, <2>1, WriteWordIs
  <2>3. d_addr.line \in CacheableLine
    BY <1>10 DEF MissEnds, Stays, ServedData, Missing, Cacheable
  <2>4. dcache' \in CacheType
    BY <1>2, <1>10, <2>2, <2>3, UpdateTagIs DEF MissEnds
  <2>5. d_word' \in 0 .. NbWords
    BY <1>10, <2>1, StoresAssumption DEF MissEnds, Word
  <2>6. QED BY <1>1, <1>2, <1>10, <2>4, <2>5 DEF MissEnds, Stays, DataTypes, DcacheState
<1>11. CASE MissWaits
  BY <1>1, <1>2, <1>11 DEF MissWaits, Stays, Same, DataTypes, DcacheState
<1>12. CASE ServesUnc
  BY <1>1, <1>2, <1>12 DEF ServesUnc, UncFails, UncEnds, UncWaits, Stays, Same, DataTypes, DcacheState
<1>13. CASE InvalMisses
  BY <1>1, <1>2, <1>13 DEF InvalMisses, Stays, Same, DataTypes, DcacheState
<1>14. CASE InvalHits
  <2>1. d_way' \in Way
    BY <1>14, HitWayHolds DEF InvalHits, XtnMiss
  <2>2. QED BY <1>1, <1>2, <1>14, <2>1 DEF InvalHits, Stays, DataTypes, DcacheState
<1>15. CASE InvalEnds
  BY <1>1, <1>2, <1>15, InvalidateIs DEF InvalEnds, Stays, DataTypes, DcacheState
<1>16. CASE SyncEnds \/ SyncWaits
  BY <1>1, <1>2, <1>16 DEF SyncEnds, SyncWaits, Stays, Same, DataTypes, DcacheState
<1>17. QED
  BY <1>3, <1>4, <1>5, <1>6, <1>7, <1>8, <1>9, <1>10, <1>11, <1>12, <1>13, <1>14, <1>15, <1>16, DataCases
     DEF ServesStore, ServesMiss, ServesXtn

(* The request that a state of the DCACHE machine serves.                  *)
LEMMA ServedDataKept ==
  ASSUME DataTypes, ServedData, MemTypes, AskedData, Dcache, Processor
  PROVE  ServedData'
<1>1. ~Drsp.valid /\ dreq.type /= "NONE" => dreq' = dreq
  BY ProcessorCases DEF HoldsRequest, Free
<1>2. ASSUME NEW type, Considered(type)
      PROVE  dreq.type = type
  BY <1>2 DEF Considered
<1>3. CASE d_fsm' = "IDLE"
  BY <1>3 DEF ServedData, Missing, Writing
<1>4. CASE AsksMiss
  BY <1>1, <1>4 DEF AsksMiss, TakesTo, ReadMiss, Considered, ServedData, Missing, Writing, Cacheable
<1>5. CASE AsksUncached
  BY <1>1, <1>5 DEF AsksUncached, TakesTo, Uncached, Considered, ServedData, Missing, Writing, Cacheable, AskedData
<1>6. CASE StoresHit \/ StoresMiss
  <2>1. dreq.type = "WRITE" /\ Cacheable(dreq.addr)
    BY <1>6 DEF StoresHit, StoresMiss, WriteHit, WriteMiss, Considered
  <2>2. dreq.addr \in Addr /\ dreq.wdata \in Bit /\ dreq.addr.line \in StoredLine
    BY <2>1, RequestIs DEF AskedData, Stores
  <2>3. d_addr' = dreq.addr /\ d_wdata' = dreq.wdata /\ d_fsm' \in Writing
    BY <1>6 DEF StoresHit, StoresMiss, TakesTo, Writing
  <2>4. QED BY <2>1, <2>2, <2>3 DEF ServedData, Missing, Writing, Cacheable
<1>7. CASE AsksInval
  BY <1>1, <1>7 DEF AsksInval, TakesTo, Considered, ServedData, Missing, Writing
<1>8. CASE AsksSync
  BY <1>1, <1>8 DEF AsksSync, TakesTo, Considered, ServedData, Missing, Writing
<1>9. CASE StoreRefused \/ StoreUpdates
  BY <1>9 DEF StoreRefused, StoreUpdates, Stays, ServedData, Missing, Writing, Cacheable
<1>10. CASE MissSelects \/ MissInvals \/ MissFills \/ MissWaits
  <2>1. d_fsm \in Missing /\ d_fsm' \in Missing /\ d_addr' = d_addr /\ ~Drsp.valid
    BY <1>10 DEF MissSelects, MissInvals, MissFills, MissWaits, Stays, Missing, Quiet
  <2>2. dreq' = dreq
    BY <1>1, <2>1 DEF ServedData
  <2>3. QED BY <2>1, <2>2 DEF ServedData, Missing, Writing, Cacheable
<1>11. CASE UncWaits
  BY <1>1, <1>11 DEF UncWaits, Stays, Quiet, ServedData, Missing, Writing, Cacheable
<1>12. CASE InvalHits
  BY <1>1, <1>12 DEF InvalHits, Stays, Quiet, ServedData, Missing, Writing
<1>13. CASE SyncWaits
  BY <1>1, <1>13 DEF SyncWaits, Stays, Quiet, ServedData, Missing, Writing
<1>14. AsksNothing \/ AsksHit \/ MissFails \/ MissEnds \/ UncFails \/ UncEnds \/ InvalMisses \/ InvalEnds
       \/ SyncEnds => d_fsm' = "IDLE"
  BY DEF AsksNothing, AsksHit, TakesTo, MissFails, MissEnds, UncFails, UncEnds, InvalMisses, InvalEnds, SyncEnds, Stays
<1>15. QED
  BY <1>3, <1>4, <1>5, <1>6, <1>7, <1>8, <1>9, <1>10, <1>11, <1>12, <1>13, <1>14, DataCases
     DEF TakesRequest, ServesStore, ServesMiss, ServesUnc, ServesXtn

(* The lines that are in the cache.                                        *)
LEMMA DcacheShapeKept ==
  ASSUME DataTypes, ServedData, MemTypes, AskedData, RspTypes, NetTypes, StoreTypes, DcacheShape, DataTraffic,
         Dcache
  PROVE  DcacheShape'
<1>1. d_way \in Way /\ dcache \in CacheType
  BY DEF DataTypes, StoreTypes
<1>2. CASE dcache' = dcache /\ d_fsm' \notin Missing \cup {"WRITE_UPDT", "XTN_INVAL"}
  BY <1>2 DEF DcacheShape, CacheShape, Missing
<1>3. CASE AsksMiss
  BY <1>3 DEF AsksMiss, TakesTo, ReadMiss, DHit, DcacheShape, CacheShape, Missing, Hit, Holds
<1>4. CASE StoresHit
  <2>1. Holds(dcache, dreq.addr.line, HitWay(dcache, dreq.addr.line))
    BY <1>4, HitWayHolds DEF StoresHit, WriteHit, DHit
  <2>2. d_way' = HitWay(dcache, dreq.addr.line) /\ d_word' = dreq.addr.word
    BY <1>4 DEF StoresHit, TakesTo, WriteHit, ReadMiss, DHit, Considered
  <2>3. QED BY <1>4, <2>1, <2>2 DEF StoresHit, TakesTo, DcacheShape, CacheShape, Missing, Holds
<1>5. CASE StoreUpdates
  <2>1. d_word \in Word /\ d_wdata \in Value
    <3>1. d_wdata \in Bit /\ d_addr \in Addr /\ d_word = d_addr.word
      BY <1>5 DEF StoreUpdates, Stays, ServedData, Writing, DcacheShape
    <3>2. QED BY <3>1, BitIsValue DEF Addr
  <2>2. \A w \in Way : dcache'[w].valid = dcache[w].valid /\ dcache'[w].tag = dcache[w].tag
    BY <1>1, <1>5, <2>1, WriteWordIs DEF StoreUpdates
  <2>3. QED BY <1>5, <2>2 DEF StoreUpdates, Stays, DcacheShape, CacheShape, Missing
<1>6. CASE MissSelects
  BY <1>6 DEF MissSelects, DcacheShape, CacheShape, Missing, Hit, Holds
<1>7. CASE MissInvals
  <2>1. ~dcache'[d_way].valid /\ \A w \in Way : w /= d_way => dcache'[w] = dcache[w]
    <3>1. dcache' = Invalidated(dcache, d_way)
      BY <1>7 DEF MissInvals
    <3>2. QED BY <1>1, <3>1, InvalidateIs
  <2>2. QED BY <1>7, <2>1 DEF MissInvals, Stays, DcacheShape, CacheShape, Missing, Hit, Holds
<1>8. CASE MissFills
  <2>1. d_word \in Word /\ Head(fifo_data) \in Value
    BY <1>8, DataWord DEF MissFills, Stays
  <2>2. \A w \in Way : dcache'[w].valid = dcache[w].valid /\ dcache'[w].tag = dcache[w].tag
    BY <1>1, <1>8, <2>1, WriteWordIs DEF MissFills
  <2>3. QED BY <1>1, <1>8, <2>2 DEF MissFills, Stays, DcacheShape, CacheShape, Missing, Hit, Holds
<1>9. CASE MissEnds
  <2> DEFINE filled == WriteWord(dcache, d_way, d_word, Head(fifo_data))
  <2>1. d_word \in Word /\ Head(fifo_data) \in Value /\ d_addr.line \notin ErrorLine
    BY <1>9, DataWord DEF MissEnds, Stays
  <2>2. filled \in CacheType
        /\ \A w \in Way : filled[w].valid = dcache[w].valid /\ filled[w].tag = dcache[w].tag
    BY <1>1, <2>1, WriteWordIs
  <2>3. d_addr.line \in CacheableLine /\ ~Hit(dcache, d_addr.line)
    BY <1>9 DEF MissEnds, Stays, ServedData, Missing, Cacheable, DcacheShape
  <2>4. dcache' = UpdateTag(filled, d_way, d_addr.line)
    BY <1>9 DEF MissEnds
  <2>5. /\ \A w \in Way : w /= d_way => dcache'[w] = filled[w]
        /\ dcache'[d_way].valid /\ dcache'[d_way].tag = d_addr.line
    BY <1>1, <2>2, <2>3, <2>4, UpdateTagIs
  <2>6. \A w \in Way : w /= d_way => dcache'[w].valid = dcache[w].valid /\ dcache'[w].tag = dcache[w].tag
    BY <2>2, <2>5
  <2>7. CacheShape(dcache)'
    BY <2>1, <2>3, <2>5, <2>6 DEF CacheShape, DcacheShape, Hit, Holds
  <2>8. QED BY <1>9, <2>7 DEF MissEnds, Stays, DcacheShape, Missing
<1>10. CASE MissWaits
  BY <1>10 DEF MissWaits, Stays, Same, DcacheShape, CacheShape, Missing, Hit, Holds
<1>11. CASE InvalHits
  <2>1. Holds(dcache, d_wdata, HitWay(dcache, d_wdata))
    BY <1>11, HitWayHolds DEF InvalHits, XtnMiss
  <2>2. QED BY <1>11, <2>1 DEF InvalHits, Stays, DcacheShape, CacheShape, Missing, Holds
<1>12. CASE InvalEnds
  <2>1. ~dcache'[d_way].valid /\ \A w \in Way : w /= d_way => dcache'[w] = dcache[w]
    <3>1. dcache' = Invalidated(dcache, d_way)
      BY <1>12 DEF InvalEnds
    <3>2. QED BY <1>1, <3>1, InvalidateIs
  <2>2. QED BY <1>12, <2>1 DEF InvalEnds, Stays, DcacheShape, CacheShape, Missing
<1>13. AsksNothing \/ AsksHit \/ AsksUncached \/ StoresMiss \/ AsksInval \/ AsksSync \/ StoreRefused
       \/ MissFails \/ ServesUnc \/ InvalMisses \/ SyncEnds \/ SyncWaits
       => dcache' = dcache /\ d_fsm' \notin Missing \cup {"WRITE_UPDT", "XTN_INVAL"}
  BY DEF AsksNothing, AsksHit, AsksUncached, StoresMiss, AsksInval, AsksSync, TakesTo, StoreRefused, MissFails,
         ServesUnc, UncFails, UncEnds, UncWaits, InvalMisses, SyncEnds, SyncWaits, Stays, Same, Missing
<1>14. QED
  BY <1>2, <1>3, <1>4, <1>5, <1>6, <1>7, <1>8, <1>9, <1>10, <1>11, <1>12, <1>13, DataCases
     DEF TakesRequest, ServesStore, ServesMiss, ServesXtn

(***************************************************************************)
(* What the ICACHE machine does in a cycle, case by case.                  *)
(***************************************************************************)
InsStays(from, to) == i_fsm = from /\ i_fsm' = to /\ i_addr' = i_addr
InsQuiet == ~Irsp.valid /\ ~InsGet /\ ~InsError
InsSame  == icache' = icache /\ i_way' = i_way /\ i_word' = i_word

FetchesNothing  == InsStays("IDLE", "IDLE") /\ ~ireq.valid /\ InsQuiet /\ InsSame
FetchesHit      == InsStays("IDLE", "IDLE") /\ IHit /\ Irsp.valid /\ ~InsGet /\ ~InsError /\ InsSame
FetchesMiss     == /\ i_fsm = "IDLE" /\ i_fsm' = "MISS_SELECT" /\ IMiss /\ InsQuiet
                   /\ i_addr' = ireq.addr /\ i_word' = 0 /\ i_way' = i_way /\ icache' = icache
FetchesUncached == /\ i_fsm = "IDLE" /\ i_fsm' = "UNC_WAIT" /\ IUnc /\ InsQuiet
                   /\ i_addr' = ireq.addr /\ InsSame
InsSelects == /\ i_fsm = "MISS_SELECT" /\ i_addr' = i_addr /\ InsQuiet
              /\ i_way' \in Way /\ Victim(icache, i_way')
              /\ i_fsm' = IF icache[i_way'].valid THEN "MISS_INVAL" ELSE "MISS_WAIT"
              /\ icache' = icache /\ i_word' = i_word
InsInvals  == /\ InsStays("MISS_INVAL", "MISS_WAIT") /\ InsQuiet
              /\ icache' = Invalidated(icache, i_way) /\ i_way' = i_way /\ i_word' = i_word
InsFails   == InsStays("MISS_WAIT", "IDLE") /\ InsError /\ ~InsGet /\ Irsp.valid /\ InsSame
InsFills   == /\ InsStays("MISS_WAIT", "MISS_WAIT") /\ InsGet /\ ~InsError /\ ~Irsp.valid
              /\ i_word' = i_word + 1 /\ i_way' = i_way /\ i_word /= NbWords - 1
              /\ icache' = WriteWord(icache, i_way, i_word, Head(fifo_ins))
InsEnds    == /\ InsStays("MISS_WAIT", "IDLE") /\ InsGet /\ ~InsError /\ ~Irsp.valid
              /\ i_word' = i_word + 1 /\ i_way' = i_way /\ i_word = NbWords - 1
              /\ icache' = UpdateTag(WriteWord(icache, i_way, i_word, Head(fifo_ins)), i_way, i_addr.line)
InsWaits   == InsStays("MISS_WAIT", "MISS_WAIT") /\ InsQuiet /\ InsSame
InsUncFails == InsStays("UNC_WAIT", "IDLE") /\ InsError /\ ~InsGet /\ Irsp.valid /\ InsSame
InsUncEnds  == InsStays("UNC_WAIT", "IDLE") /\ InsGet /\ ~InsError /\ Irsp.valid /\ InsSame
InsUncWaits == InsStays("UNC_WAIT", "UNC_WAIT") /\ InsQuiet /\ InsSame

InsTakes == FetchesNothing \/ FetchesHit \/ FetchesMiss \/ FetchesUncached
InsMisses == InsSelects \/ InsInvals \/ InsFails \/ InsFills \/ InsEnds \/ InsWaits
InsUnc == InsUncFails \/ InsUncEnds \/ InsUncWaits

(* The instruction cache answers on a hit, an error or an uncached word.   *)
LEMMA InsAnswerIs ==
  ASSUME ServedIns
  PROVE  Irsp.valid <=> IHit \/ InsError \/ (i_fsm = "UNC_WAIT" /\ InsGet)
<1>1. i_fsm = "UNC_WAIT" => ireq = [valid |-> TRUE, addr |-> i_addr]
  BY DEF ServedIns
<1>2. QED
  BY <1>1 DEF Irsp, IHit, Fetched, InsError, InsGet, IWaiting

(* The instruction cache consumes a response only while it waits for one.  *)
LEMMA InsNotWaiting == i_fsm \notin {"MISS_WAIT", "UNC_WAIT"} => ~InsGet /\ ~InsError
BY DEF InsGet, InsError, IWaiting

(* A cycle of the ICACHE machine is one of the cases above.                *)
LEMMA InsCases ==
  ASSUME InsTypes, ServedIns, Icache
  PROVE  InsTakes \/ InsMisses \/ InsUnc
<1>1. i_fsm /= "IDLE" => ~IHit
  BY DEF IHit, Fetched
<1>2. CASE IcacheIdle
  <2>1. i_fsm = "IDLE" /\ ~InsGet /\ ~InsError /\ i_way' = i_way /\ icache' = icache
    BY <1>2, InsNotWaiting DEF IcacheIdle
  <2>2. Irsp.valid <=> IHit
    BY <2>1, InsAnswerIs
  <2>3. CASE IMiss
    <3>1. i_addr' = ireq.addr /\ i_word' = 0 /\ i_fsm' = "MISS_SELECT" /\ ~IHit
      BY <1>2, <2>3 DEF IcacheIdle, IMiss, IHit
    <3>2. QED BY <2>1, <2>2, <2>3, <3>1 DEF InsTakes, FetchesMiss, InsQuiet
  <2>4. CASE IUnc
    <3>1. i_addr' = ireq.addr /\ i_word' = i_word /\ i_fsm' = "UNC_WAIT" /\ ~IHit
      BY <1>2, <2>4 DEF IcacheIdle, IMiss, IHit, IUnc
    <3>2. QED BY <2>1, <2>2, <2>4, <3>1 DEF InsTakes, FetchesUncached, InsQuiet, InsSame
  <2>5. CASE ~IMiss /\ ~IUnc
    <3>1. i_addr' = i_addr /\ i_word' = i_word /\ i_fsm' = i_fsm
      BY <1>2, <2>5 DEF IcacheIdle
    <3>2. IHit \/ (~ireq.valid /\ ~IHit)
      BY <2>1, <2>5 DEF IMiss, IUnc, IHit, Fetched
    <3>3. QED
      BY <2>1, <2>2, <3>1, <3>2 DEF InsTakes, FetchesNothing, FetchesHit, InsQuiet, InsSame, InsStays
  <2>6. QED BY <2>3, <2>4, <2>5
<1>3. CASE IcacheMissSelect
  <2>1. InsQuiet
    BY <1>1, <1>3, InsAnswerIs, InsNotWaiting DEF IcacheMissSelect, InsQuiet
  <2>2. QED BY <1>3, <2>1 DEF IcacheMissSelect, InsSelects, InsMisses
<1>4. CASE IcacheMissInval
  <2>1. InsQuiet
    BY <1>1, <1>4, InsAnswerIs, InsNotWaiting DEF IcacheMissInval, InsQuiet
  <2>2. QED BY <1>4, <2>1 DEF IcacheMissInval, InsInvals, InsMisses, InsStays, Invalidated
<1>5. CASE IcacheMissWait
  <2>1. Irsp.valid <=> InsError
    BY <1>1, <1>5, InsAnswerIs DEF IcacheMissWait
  <2>2. InsError => ~InsGet
    BY DEF InsError, InsGet
  <2>3. i_fsm = "MISS_WAIT" /\ i_addr' = i_addr /\ i_way' = i_way
    BY <1>5 DEF IcacheMissWait
  <2>4. CASE InsError /\ i_fsm' = "IDLE" /\ UNCHANGED <<i_word, icache>>
    BY <2>1, <2>2, <2>3, <2>4 DEF InsFails, InsMisses, InsStays, InsSame
  <2>5. CASE /\ InsGet /\ i_word' = i_word + 1
             /\ IF LastWord(i_word)
                THEN /\ icache' = UpdateTag(WriteWord(icache, i_way, i_word, Head(fifo_ins)), i_way, i_addr.line)
                     /\ i_fsm' = "IDLE"
                ELSE icache' = WriteWord(icache, i_way, i_word, Head(fifo_ins)) /\ UNCHANGED i_fsm
    BY <2>1, <2>2, <2>3, <2>5 DEF InsFills, InsEnds, InsMisses, InsStays, LastWord
  <2>6. CASE ~InsError /\ ~InsGet /\ UNCHANGED <<i_fsm, i_word, icache>>
    BY <2>1, <2>2, <2>3, <2>6 DEF InsWaits, InsMisses, InsStays, InsSame, InsQuiet
  <2>7. QED BY <1>5, <2>4, <2>5, <2>6 DEF IcacheMissWait
<1>6. CASE IcacheUncWait
  <2>1. Irsp.valid <=> InsError \/ InsGet
    BY <1>1, <1>6, InsAnswerIs DEF IcacheUncWait
  <2>2. InsError => ~InsGet
    BY DEF InsError, InsGet
  <2>3. QED
    BY <1>6, <2>1, <2>2 DEF IcacheUncWait, InsUncFails, InsUncEnds, InsUncWaits, InsUnc, InsStays, InsSame, InsQuiet
<1>7. QED BY <1>2, <1>3, <1>4, <1>5, <1>6 DEF Icache

(* A cycle of the processor's instruction side.                            *)
LEMMA FetchCases ==
  ASSUME Processor
  PROVE  /\ ~Irsp.valid /\ ireq.valid => ireq' = ireq
         /\ \/ ireq' = ireq \/ ireq' = NoFetch
            \/ \E addr \in program.fetches : ireq' = [valid |-> TRUE, addr |-> addr]
<1>1. CASE Answered
  BY <1>1 DEF Processor, Answered
<1>2. CASE ~Answered
  BY <1>2 DEF Processor
<1>3. QED BY <1>1, <1>2

(* What a pending fetch is.                                                *)
LEMMA FetchIs ==
  ASSUME InsTypes
  PROVE  /\ ireq.valid => ireq.addr \in Addr /\ ireq = [valid |-> TRUE, addr |-> ireq.addr]
         /\ ireq.valid \in BOOLEAN
<1>1. CASE ireq = NoFetch
  <2>1. NoFetch.valid = FALSE
    BY DEF NoFetch
  <2>2. QED BY <1>1, <2>1
<1>2. CASE ireq \in [valid : {TRUE}, addr : Addr]
  BY <1>2
<1>3. QED BY <1>1, <1>2 DEF InsTypes

(* What the programs fetch.                                                *)
LEMMA FetchedForm ==
  ASSUME MemTypes, NEW addr \in program.fetches
  PROVE  addr \in Addr /\ addr.line \in FetchedLine
<1>1. addr \in Addr
  BY TopAssumption DEF MemTypes
<1>2. addr \in UNION {p.fetches : p \in Programs}
  BY DEF MemTypes
<1>3. QED BY <1>1, <1>2 DEF FetchedLine

(* The word that the instruction cache takes from its FIFO is one it still *)
(* waits for.                                                              *)
LEMMA InsWord ==
  ASSUME RspTypes, NetTypes, InsTypes, InsTraffic, InsGet
  PROVE  /\ Len(fifo_ins) = 1 /\ Head(fifo_ins) = fifo_ins[1]
         /\ i_addr.line \notin ErrorLine
         /\ i_fsm = "MISS_WAIT" => /\ fifo_ins[1] \in Value /\ i_word \in Word
                                   /\ i_word + 1 + Coming("INS_MISS", NbWords) = NbWords
         /\ i_fsm = "UNC_WAIT" => Coming("INS_UNC", 1) = 0
<1>1. fifo_ins /= <<>> /\ i_fsm \in {"MISS_WAIT", "UNC_WAIT"}
  BY DEF InsGet, IWaiting
<1>2. Len(fifo_ins) = 1 /\ Head(fifo_ins) = fifo_ins[1]
  <2>1. Len(fifo_ins) >= 1 /\ Head(fifo_ins) = fifo_ins[1]
    BY <1>1, FirstIs DEF RspTypes
  <2>2. \A n \in Nat : n >= 1 /\ n <= 1 => n = 1
    OBVIOUS
  <2>3. Len(fifo_ins) \in Nat /\ Len(fifo_ins) <= 1
    BY DEF RspTypes
  <2>4. QED BY <2>1, <2>2, <2>3
<1>3. Coming("INS_MISS", NbWords) \in Nat /\ Coming("INS_UNC", 1) \in Nat
  BY ComingIs, StoresAssumption
<1>4. CASE i_fsm = "MISS_WAIT"
  <2>1. /\ Accounts(i_addr.line, i_word, NbWords, fifo_ins, ins_error, "INS_MISS")
        /\ fifo_ins[1] \in Value
    BY <1>1, <1>4 DEF InsTraffic, Missing
  <2>2. i_addr.line \notin ErrorLine /\ i_word + 1 + Coming("INS_MISS", NbWords) = NbWords
    BY <1>1, <1>2, <2>1 DEF Accounts
  <2>3. i_word \in Word
    BY <1>3, <2>2, StoresAssumption DEF InsTypes, Word
  <2>4. QED BY <1>2, <1>4, <2>1, <2>2, <2>3
<1>5. CASE i_fsm = "UNC_WAIT"
  <2>1. Accounts(i_addr.line, 0, 1, fifo_ins, ins_error, "INS_UNC")
    BY <1>5 DEF InsTraffic
  <2>2. i_addr.line \notin ErrorLine /\ Coming("INS_UNC", 1) = 0
    BY <1>1, <1>2, <1>3, <2>1 DEF Accounts
  <2>3. QED BY <1>2, <1>5, <2>2
<1>6. QED BY <1>1, <1>4, <1>5

(* A cycle keeps the types of the instruction cache and of its machine.    *)
LEMMA InsTypesKept ==
  ASSUME InsTypes, ServedIns, MemTypes, RspTypes, NetTypes, StoreTypes, InsTraffic, Icache, Processor
  PROVE  InsTypes' /\ icache' \in CacheType
<1>1. ireq' \in {NoFetch} \cup [valid : {TRUE}, addr : Addr]
  <2>1. CASE ireq' = ireq \/ ireq' = NoFetch
    BY <2>1 DEF InsTypes
  <2>2. ASSUME NEW addr \in program.fetches, ireq' = [valid |-> TRUE, addr |-> addr]
        PROVE  ireq' \in [valid : {TRUE}, addr : Addr]
    BY <2>2, FetchedForm
  <2>3. QED BY <2>1, <2>2, FetchCases
<1>2. i_way \in Way /\ i_word \in 0 .. NbWords /\ icache \in CacheType /\ i_addr \in Addr \cup {XtnAddr}
  BY DEF InsTypes, StoreTypes
<1>3. ireq.valid => ireq.addr \in Addr
  BY FetchIs
<1>4. CASE FetchesNothing \/ FetchesHit
  BY <1>1, <1>2, <1>4 DEF FetchesNothing, FetchesHit, InsStays, InsSame, InsTypes, IcacheState
<1>5. CASE FetchesMiss
  <2>1. 0 \in 0 .. NbWords
    BY StoresAssumption
  <2>2. i_addr' \in Addr
    BY <1>3, <1>5 DEF FetchesMiss, IMiss, Fetched
  <2>3. QED BY <1>1, <1>2, <1>5, <2>1, <2>2 DEF FetchesMiss, InsTypes, IcacheState
<1>6. CASE FetchesUncached
  BY <1>1, <1>2, <1>3, <1>6 DEF FetchesUncached, IUnc, Fetched, InsSame, InsTypes, IcacheState
<1>7. CASE InsSelects
  BY <1>1, <1>2, <1>7 DEF InsSelects, InsTypes, IcacheState
<1>8. CASE InsInvals
  BY <1>1, <1>2, <1>8, InvalidateIs DEF InsInvals, InsStays, InsTypes, IcacheState
<1>9. CASE InsFails \/ InsWaits
  BY <1>1, <1>2, <1>9 DEF InsFails, InsWaits, InsStays, InsSame, InsTypes, IcacheState
<1>10. CASE InsFills
  <2>1. i_word \in Word /\ Head(fifo_ins) \in Value
    BY <1>10, InsWord DEF InsFills, InsStays
  <2>2. icache' \in CacheType
    BY <1>2, <1>10, <2>1, WriteWordIs DEF InsFills
  <2>3. i_word' \in 0 .. NbWords
    BY <1>10, <2>1, StoresAssumption DEF InsFills, Word
  <2>4. QED BY <1>1, <1>2, <1>10, <2>2, <2>3 DEF InsFills, InsStays, InsTypes, IcacheState
<1>11. CASE InsEnds
  <2>1. i_word \in Word /\ Head(fifo_ins) \in Value
    BY <1>11, InsWord DEF InsEnds, InsStays
  <2>2. WriteWord(icache, i_way, i_word, Head(fifo_ins)) \in CacheType
    BY <1>2, <2>1, WriteWordIs
  <2>3. i_addr.line \in CacheableLine
    BY <1>11 DEF InsEnds, InsStays, ServedIns, Missing, Cacheable
  <2>4. icache' \in CacheType
    BY <1>2, <1>11, <2>2, <2>3, UpdateTagIs DEF InsEnds
  <2>5. i_word' \in 0 .. NbWords
    BY <1>11, <2>1, StoresAssumption DEF InsEnds, Word
  <2>6. QED BY <1>1, <1>2, <1>11, <2>4, <2>5 DEF InsEnds, InsStays, InsTypes, IcacheState
<1>12. CASE InsUnc
  BY <1>1, <1>2, <1>12 DEF InsUnc, InsUncFails, InsUncEnds, InsUncWaits, InsStays, InsSame, InsTypes, IcacheState
<1>13. QED
  BY <1>4, <1>5, <1>6, <1>7, <1>8, <1>9, <1>10, <1>11, <1>12, InsCases DEF InsTakes, InsMisses

(* A cycle keeps the registers of the instruction cache at the fetch it    *)
(* serves.                                                                 *)
LEMMA ServedInsKept ==
  ASSUME InsTypes, ServedIns, MemTypes, Icache, Processor
  PROVE  ServedIns'
<1>1. ~Irsp.valid /\ ireq.valid => ireq' = ireq
  BY FetchCases
<1>2. ireq'.valid => ireq'.addr.line \in FetchedLine
  BY FetchCases, FetchedForm DEF ServedIns, NoFetch
<1>3. CASE i_fsm' = "IDLE"
  BY <1>2, <1>3 DEF ServedIns, Missing
<1>4. ireq.valid => ireq = [valid |-> TRUE, addr |-> ireq.addr]
  BY FetchIs
<1>5. CASE FetchesMiss
  BY <1>1, <1>2, <1>4, <1>5 DEF FetchesMiss, InsQuiet, IMiss, Fetched, ServedIns, Missing, Cacheable
<1>6. CASE FetchesUncached
  BY <1>1, <1>2, <1>4, <1>6 DEF FetchesUncached, InsQuiet, IUnc, Fetched, ServedIns, Missing, Cacheable
<1>7. CASE InsSelects \/ InsInvals \/ InsFills \/ InsWaits
  <2>1. i_fsm \in Missing /\ i_fsm' \in Missing /\ i_addr' = i_addr /\ ~Irsp.valid
    BY <1>7 DEF InsSelects, InsInvals, InsFills, InsWaits, InsStays, Missing, InsQuiet
  <2>2. ireq' = ireq
    BY <1>1, <2>1 DEF ServedIns
  <2>3. QED BY <1>2, <2>1, <2>2 DEF ServedIns, Missing, Cacheable
<1>8. CASE InsUncWaits
  BY <1>1, <1>2, <1>8 DEF InsUncWaits, InsStays, InsQuiet, ServedIns, Missing, Cacheable
<1>9. FetchesNothing \/ FetchesHit \/ InsFails \/ InsEnds \/ InsUncFails \/ InsUncEnds => i_fsm' = "IDLE"
  BY DEF FetchesNothing, FetchesHit, InsFails, InsEnds, InsUncFails, InsUncEnds, InsStays
<1>10. QED
  BY <1>3, <1>5, <1>6, <1>7, <1>8, <1>9, InsCases DEF InsTakes, InsMisses, InsUnc

(* A cycle keeps every line in one way of the instruction cache at most.   *)
LEMMA IcacheShapeKept ==
  ASSUME InsTypes, ServedIns, RspTypes, NetTypes, StoreTypes, IcacheShape, InsTraffic, Icache
  PROVE  IcacheShape'
<1>1. i_way \in Way /\ icache \in CacheType
  BY DEF InsTypes, StoreTypes
<1>2. CASE icache' = icache /\ i_fsm' \notin Missing
  BY <1>2 DEF IcacheShape, CacheShape, Missing
<1>3. CASE FetchesMiss
  BY <1>3 DEF FetchesMiss, IMiss, IcacheShape, CacheShape, Missing, Hit, Holds
<1>4. CASE InsSelects
  BY <1>4 DEF InsSelects, IcacheShape, CacheShape, Missing, Hit, Holds
<1>5. CASE InsInvals
  <2>1. ~icache'[i_way].valid /\ \A w \in Way : w /= i_way => icache'[w] = icache[w]
    <3>1. icache' = Invalidated(icache, i_way)
      BY <1>5 DEF InsInvals
    <3>2. QED BY <1>1, <3>1, InvalidateIs
  <2>2. QED BY <1>5, <2>1 DEF InsInvals, InsStays, IcacheShape, CacheShape, Missing, Hit, Holds
<1>6. CASE InsFills
  <2>1. i_word \in Word /\ Head(fifo_ins) \in Value
    BY <1>6, InsWord DEF InsFills, InsStays
  <2>2. \A w \in Way : icache'[w].valid = icache[w].valid /\ icache'[w].tag = icache[w].tag
    BY <1>1, <1>6, <2>1, WriteWordIs DEF InsFills
  <2>3. QED BY <1>1, <1>6, <2>2 DEF InsFills, InsStays, IcacheShape, CacheShape, Missing, Hit, Holds
<1>7. CASE InsEnds
  <2> DEFINE filled == WriteWord(icache, i_way, i_word, Head(fifo_ins))
  <2>1. i_word \in Word /\ Head(fifo_ins) \in Value /\ i_addr.line \notin ErrorLine
    BY <1>7, InsWord DEF InsEnds, InsStays
  <2>2. filled \in CacheType
        /\ \A w \in Way : filled[w].valid = icache[w].valid /\ filled[w].tag = icache[w].tag
    BY <1>1, <2>1, WriteWordIs
  <2>3. i_addr.line \in CacheableLine /\ ~Hit(icache, i_addr.line)
    BY <1>7 DEF InsEnds, InsStays, ServedIns, Missing, Cacheable, IcacheShape
  <2>4. icache' = UpdateTag(filled, i_way, i_addr.line)
    BY <1>7 DEF InsEnds
  <2>5. /\ \A w \in Way : w /= i_way => icache'[w] = filled[w]
        /\ icache'[i_way].valid /\ icache'[i_way].tag = i_addr.line
    BY <1>1, <2>2, <2>3, <2>4, UpdateTagIs
  <2>6. \A w \in Way : w /= i_way => icache'[w].valid = icache[w].valid /\ icache'[w].tag = icache[w].tag
    BY <2>2, <2>5
  <2>7. CacheShape(icache)'
    BY <2>1, <2>3, <2>5, <2>6 DEF CacheShape, IcacheShape, Hit, Holds
  <2>8. QED BY <1>7, <2>7 DEF InsEnds, InsStays, IcacheShape, Missing
<1>8. CASE InsWaits
  BY <1>8 DEF InsWaits, InsStays, InsSame, IcacheShape, CacheShape, Missing, Hit, Holds
<1>9. FetchesNothing \/ FetchesHit \/ FetchesUncached \/ InsFails \/ InsUnc
      => icache' = icache /\ i_fsm' \notin Missing
  BY DEF FetchesNothing, FetchesHit, FetchesUncached, InsFails, InsUnc, InsUncFails, InsUncEnds, InsUncWaits,
         InsStays, InsSame, Missing
<1>10. QED
  BY <1>2, <1>3, <1>4, <1>5, <1>6, <1>7, <1>8, <1>9, InsCases DEF InsTakes, InsMisses

-----------------------------------------------------------------------------
(* THE WRITE BUFFER.                                                       *)

(***************************************************************************)
(* What happens to a slot of the write buffer in a cycle.                  *)
(***************************************************************************)
SlotType == [st : {"EMPTY", "OPEN", "LOCKED", "SENT"}, line : CacheableLine \cup {None}, data : Burst]

Target == CHOOSE s \in Slot : Accepts(wbuf, d_addr.line, s)

Filled == [wbuf[Target].data EXCEPT ![d_addr.word] = d_wdata]

SlotKept(s)   == wbuf'[s] = wbuf[s]
SlotLocked(s) == /\ wbuf[s].st = "OPEN" /\ wbuf'[s].st = "LOCKED"
                 /\ wbuf'[s].line = wbuf[s].line /\ wbuf'[s].data = wbuf[s].data
SlotWritten(s) == /\ Accepted /\ s = Target /\ Accepts(wbuf, d_addr.line, s)
                  /\ wbuf'[s].st \in {"OPEN", "LOCKED"}
                  /\ wbuf'[s].line = d_addr.line /\ wbuf'[s].data = Filled
SlotSent(s, ack) == /\ s = cmd_slot /\ BurstSent(ack) /\ wbuf[s].st = "LOCKED" /\ wbuf'[s].st = "SENT"
                    /\ wbuf'[s].line = wbuf[s].line /\ wbuf'[s].data = wbuf[s].data
SlotDone(s, flit) == /\ s = flit.trdid.slot /\ WriteDone(flit) /\ wbuf[s].st = "SENT"
                     /\ wbuf'[s] = EmptySlot

SlotSteps(s, ack, flit) ==
  SlotKept(s) \/ SlotLocked(s) \/ SlotWritten(s) \/ SlotSent(s, ack) \/ SlotDone(s, flit)

(* A slot has its type.                                                    *)
LEMMA SlotTyped ==
  ASSUME StoreTypes, NEW s \in Slot
  PROVE  wbuf[s] \in SlotType
BY DEF StoreTypes, SlotType

(* A flit that is there is the first of a response.                        *)
LEMMA FlitIs ==
  ASSUME NetTypes, NEW flit \in Flit, Rspval(flit)
  PROVE  rsp /= <<>> /\ flit = rsp[1] /\ flit \in FlitSet
<1>1. rsp /= <<>> /\ flit = rsp[1]
  BY DEF Flit, Rspval, NetTypes
<1>2. QED BY <1>1, FirstIs DEF NetTypes

(* An acknowledge of a write frees a slot that waits for it.               *)
LEMMA WriteDoneIs ==
  ASSUME NetTypes, WritesPlaced, RspShape, NEW flit \in Flit, WriteDone(flit)
  PROVE  /\ AtRsp("DATA_WRITE") /\ flit = rsp[1] /\ flit.trdid.slot \in Slot
         /\ wbuf[flit.trdid.slot].st = "SENT"
<1>1. rsp_fsm = "DATA_WRITE" /\ Rspval(flit)
  BY DEF WriteDone, Takes
<1>2. AtRsp("DATA_WRITE") /\ flit = rsp[1] /\ flit \in FlitSet
  BY <1>1, FlitIs DEF RspShape
<1>3. QED BY <1>2 DEF FlitSet, TrdidSet, WritesPlaced

(* An empty slot has its type and no word.                                 *)
LEMMA EmptySlotTyped == EmptySlot \in SlotType /\ EmptySlot.st = "EMPTY" /\ \A w \in Word : EmptySlot.data[w] = Hole
<1>1. [w \in Word |-> Hole] \in Burst
  BY DEF Burst
<1>2. QED BY <1>1 DEF EmptySlot, SlotType

(* Every slot of the write buffer makes one of the steps above in a cycle: *)
(* the write that is accepted fills its target, the burst that ends frees  *)
(* nothing but its own slot, and no other slot changes.                    *)
LEMMA SlotStep ==
  ASSUME StoreTypes, DataTypes, ServedData, CmdTypes, NetTypes, BurstShape, WritesPlaced, RspShape,
         NEW locks, NEW ack, NEW served, NEW flit, Ticks(locks, ack, served, flit)
  PROVE  /\ wbuf' \in [Slot -> SlotType]
         /\ \A s \in Slot : SlotSteps(s, ack, flit)
         /\ Accepted => Target \in Slot /\ SlotWritten(Target)
         /\ BurstSent(ack) => SlotSent(cmd_slot, ack)
         /\ \A s \in Slot : Updated(locks)[s].st = "LOCKED" /\ ~BurstSent(ack) => wbuf'[s] = Updated(locks)[s]
         /\ \A s \in Slot : Busy(wbuf, s)' => Busy(Updated(locks), s) /\ Updated(locks)[s].line = wbuf'[s].line
<1> DEFINE written == WbufWritten
           updated == Updated(locks)
           sent    == IF BurstSent(ack) THEN WbufSent(updated, cmd_slot) ELSE updated
<1>1. wbuf' = (IF WriteDone(flit) THEN WbufCompleted(sent, flit.trdid.slot) ELSE sent)
      /\ locks \subseteq Open(written) /\ flit \in Flit
  BY DEF Ticks, Cycle, WbufNext
<1>2. Accepted => Target \in Slot /\ Accepts(wbuf, d_addr.line, Target)
  BY DEF Accepted, Writable, Target
<1>3. Accepted => Filled \in Burst /\ d_addr.line \in CacheableLine
  <2>1. Accepted => d_addr \in Addr /\ d_wdata \in Bit /\ Cacheable(d_addr)
    BY DEF Accepted, ServedData, Writing
  <2>2. Accepted => wbuf[Target].data \in Burst
    BY <1>2, SlotTyped DEF SlotType
  <2>3. QED BY <2>1, <2>2 DEF Filled, Addr, Burst, Cacheable
<1>4. /\ DOMAIN written = Slot
      /\ \A s \in Slot : written[s] = IF Accepted /\ s = Target
                                      THEN [st |-> "OPEN", line |-> d_addr.line, data |-> Filled]
                                      ELSE wbuf[s]
  BY <1>2 DEF WbufWritten, WbufWrite, Target, Filled, StoreTypes
<1>5. \A s \in Slot : updated[s] = IF s \in locks THEN [written[s] EXCEPT !.st = "LOCKED"] ELSE written[s]
  BY DEF Updated, WbufUpdate
<1>6. DOMAIN updated = Slot
  BY DEF Updated, WbufUpdate
<1>6a. updated = Updated(locks)
  OBVIOUS
<1> HIDE DEF written, updated
<1>7. \A s \in Slot : written[s] \in SlotType
  <2>1. Accepted => [st |-> "OPEN", line |-> d_addr.line, data |-> Filled] \in SlotType
    BY <1>3 DEF SlotType
  <2>2. QED BY <1>4, <2>1, SlotTyped
<1>8. \A s \in locks : s \in Slot /\ written[s].st = "OPEN"
  BY <1>1 DEF Open
<1>9. \A s \in Slot : updated[s] \in SlotType
  BY <1>5, <1>7 DEF SlotType
<1>10. /\ DOMAIN sent = Slot
       /\ \A s \in Slot : sent[s] = IF BurstSent(ack) /\ s = cmd_slot THEN [updated[s] EXCEPT !.st = "SENT"]
                                    ELSE updated[s]
  BY <1>6 DEF WbufSent, CmdTypes
<1> HIDE DEF sent
<1>11. \A s \in Slot : sent[s] \in SlotType
  BY <1>9, <1>10 DEF SlotType
<1>12. /\ DOMAIN wbuf' = Slot
       /\ \A s \in Slot : wbuf'[s] = IF WriteDone(flit) /\ s = flit.trdid.slot THEN EmptySlot ELSE sent[s]
  BY <1>1, <1>10 DEF WbufCompleted
<1>13. WriteDone(flit) => flit.trdid.slot \in Slot /\ wbuf[flit.trdid.slot].st = "SENT"
  BY <1>1, WriteDoneIs
<1>14. BurstSent(ack) => wbuf[cmd_slot].st = "LOCKED"
  BY DEF BurstSent, BurstShape
<1>15. ASSUME NEW s \in Slot
       PROVE  wbuf'[s] \in SlotType
  BY <1>11, <1>12, EmptySlotTyped
<1>16. wbuf' \in [Slot -> SlotType]
  <2>1. wbuf' = [s \in Slot |-> wbuf'[s]]
    BY <1>1, <1>6, <1>10, <1>12 DEF WbufCompleted, WbufSent, Updated, WbufUpdate, sent, updated
  <2>2. QED BY <1>15, <2>1
<1>17. ASSUME NEW s \in Slot
       PROVE  SlotSteps(s, ack, flit) /\ (Accepted /\ s = Target => SlotWritten(s))
  <2>1. CASE Accepted /\ s = Target
    <3>1. wbuf[s].st \in {"OPEN", "EMPTY"}
      BY <1>2, <2>1 DEF Accepts, Busy
    <3>2. wbuf'[s] = updated[s]
      BY <1>10, <1>12, <1>13, <1>14, <3>1
    <3>3. written[s] = [st |-> "OPEN", line |-> d_addr.line, data |-> Filled]
      BY <1>4, <2>1
    <3>4. \/ wbuf'[s] = [st |-> "OPEN", line |-> d_addr.line, data |-> Filled]
          \/ wbuf'[s] = [st |-> "LOCKED", line |-> d_addr.line, data |-> Filled]
      <4>1. CASE s \in locks
        <5>1. updated[s] = [written[s] EXCEPT !.st = "LOCKED"]
          BY <1>5, <4>1
        <5>2. QED BY <3>2, <3>3, <5>1
      <4>2. CASE s \notin locks
        <5>1. updated[s] = written[s]
          BY <1>5, <4>2
        <5>2. QED BY <3>2, <3>3, <5>1
      <4>3. QED BY <4>1, <4>2
    <3>5. wbuf'[s].st \in {"OPEN", "LOCKED"} /\ wbuf'[s].line = d_addr.line /\ wbuf'[s].data = Filled
      BY <3>4
    <3>6. QED BY <1>2, <2>1, <3>5 DEF SlotSteps, SlotWritten
  <2>2. CASE ~(Accepted /\ s = Target)
    <3>1. written[s] = wbuf[s]
      BY <1>4, <2>2
    <3>2. CASE s \in locks
      <4>1. wbuf[s].st = "OPEN"
        BY <1>8, <3>1, <3>2
      <4>2. wbuf'[s] = [wbuf[s] EXCEPT !.st = "LOCKED"]
        <5>1. updated[s] = [written[s] EXCEPT !.st = "LOCKED"]
          BY <1>5, <3>2
        <5>2. sent[s] = updated[s]
          BY <1>10, <1>14, <4>1
        <5>3. wbuf'[s] = sent[s]
          BY <1>12, <1>13, <4>1
        <5>4. QED BY <3>1, <5>1, <5>2, <5>3
      <4>3. SlotLocked(s)
        BY <4>1, <4>2, SlotTyped DEF SlotLocked, SlotType
      <4>4. QED BY <2>2, <4>3 DEF SlotSteps
    <3>3. CASE s \notin locks
      <4>1. updated[s] = wbuf[s]
        BY <1>5, <3>1, <3>3
      <4>2. CASE BurstSent(ack) /\ s = cmd_slot
        <5>1. wbuf'[s] = [wbuf[s] EXCEPT !.st = "SENT"]
          BY <1>10, <1>12, <1>13, <1>14, <4>1, <4>2
        <5>2. SlotSent(s, ack)
          BY <1>14, <4>2, <5>1, SlotTyped DEF SlotSent, SlotType
        <5>3. QED BY <2>2, <5>2 DEF SlotSteps
      <4>3. CASE ~(BurstSent(ack) /\ s = cmd_slot)
        <5>1. sent[s] = wbuf[s]
          BY <1>10, <4>1, <4>3
        <5>2. SlotDone(s, flit) \/ SlotKept(s)
          BY <1>12, <1>13, <5>1 DEF SlotDone, SlotKept
        <5>3. QED BY <2>2, <5>2 DEF SlotSteps
      <4>4. QED BY <4>2, <4>3
    <3>4. QED BY <3>2, <3>3
  <2>3. QED BY <2>1, <2>2
<1>18. ASSUME NEW s \in Slot, updated[s].st = "LOCKED", ~BurstSent(ack)
       PROVE  wbuf'[s] = updated[s]
  <2>1. wbuf[s].st /= "SENT"
    <3>0. Accepted /\ s = Target => wbuf[s].st \in {"OPEN", "EMPTY"}
      BY <1>2 DEF Accepts, Busy
    <3>1. CASE s \in locks
      BY <1>4, <1>8, <3>0, <3>1
    <3>2. CASE s \notin locks
      <4>1. written[s].st = "LOCKED"
        BY <1>5, <1>18, <3>2
      <4>2. QED BY <1>4, <3>0, <4>1
    <3>3. QED BY <3>1, <3>2
  <2>2. QED BY <1>10, <1>12, <1>13, <1>18, <2>1
<1>19. ASSUME NEW s \in Slot, wbuf'[s].st /= "EMPTY"
       PROVE  updated[s].st /= "EMPTY" /\ updated[s].line = wbuf'[s].line
  <2>1. wbuf'[s] = sent[s]
    BY <1>12, <1>19, EmptySlotTyped
  <2>2. CASE BurstSent(ack) /\ s = cmd_slot
    <3>1. sent[s].line = updated[s].line
      BY <1>9, <1>10, <2>2 DEF SlotType
    <3>2. wbuf[s].st = "LOCKED"
      BY <1>14, <2>2
    <3>3. ~(Accepted /\ s = Target)
      BY <1>2, <3>2 DEF Accepts, Busy
    <3>4. written[s] = wbuf[s] /\ s \notin locks
      BY <1>4, <1>8, <3>2, <3>3
    <3>5. updated[s] = wbuf[s]
      BY <1>5, <3>4
    <3>6. QED BY <2>1, <3>1, <3>2, <3>5
  <2>3. CASE ~(BurstSent(ack) /\ s = cmd_slot)
    BY <1>10, <1>19, <2>1, <2>3
  <2>4. QED BY <2>2, <2>3
<1>20. ASSUME BurstSent(ack)
       PROVE  SlotSent(cmd_slot, ack)
  <2>1. cmd_slot \in Slot /\ wbuf[cmd_slot].st = "LOCKED"
    BY <1>14, <1>20 DEF CmdTypes
  <2>2. ~(Accepted /\ cmd_slot = Target)
    BY <1>2, <2>1 DEF Accepts, Busy
  <2>3. written[cmd_slot] = wbuf[cmd_slot] /\ cmd_slot \notin locks
    BY <1>4, <1>8, <2>1, <2>2
  <2>4. updated[cmd_slot] = wbuf[cmd_slot]
    BY <1>5, <2>1, <2>3
  <2>5. wbuf'[cmd_slot] = sent[cmd_slot]
    BY <1>12, <1>13, <2>1
  <2>6. wbuf'[cmd_slot] = [wbuf[cmd_slot] EXCEPT !.st = "SENT"]
    BY <1>10, <1>20, <2>1, <2>4, <2>5
  <2>7. QED BY <1>20, <2>1, <2>6, SlotTyped DEF SlotSent, SlotType
<1>21. QED BY <1>2, <1>6a, <1>16, <1>17, <1>18, <1>19, <1>20 DEF Busy

(* A slot that accepts a line is the only one of that line.                *)
LEMMA TargetAlone ==
  ASSUME WbufShape, Accepted, Accepts(wbuf, d_addr.line, Target), Target \in Slot,
         NEW s \in Slot, Busy(wbuf, s), wbuf[s].line = d_addr.line
  PROVE  s = Target
BY DEF Accepts, WbufMiss, WbufShape, Busy

(* A cycle keeps two busy slots from holding the same line.                *)
LEMMA WbufShapeKept ==
  ASSUME StoreTypes, DataTypes, ServedData, CmdTypes, NetTypes, WbufShape, BurstShape, WritesPlaced, RspShape,
         NEW locks, NEW ack, NEW served, NEW flit, Ticks(locks, ack, served, flit)
  PROVE  WbufShape'
<1>1. \A s \in Slot : SlotSteps(s, ack, flit)
  BY SlotStep
<1>2. Accepted => /\ d_addr \in Addr /\ d_addr.line \in CacheableLine \cap StoredLine /\ d_wdata \in Bit
                  /\ Target \in Slot /\ Accepts(wbuf, d_addr.line, Target)
  <2>1. Accepted => Target \in Slot /\ SlotWritten(Target)
    BY SlotStep
  <2>2. QED BY <2>1 DEF Accepted, ServedData, Writing, Cacheable, SlotWritten
<1>3. ASSUME NEW s \in Slot, ~Busy(wbuf, s)'
      PROVE  wbuf'[s] = EmptySlot
  BY <1>1, <1>3 DEF SlotSteps, SlotKept, SlotLocked, SlotWritten, SlotSent, SlotDone, Busy, WbufShape
<1>4. ASSUME NEW s \in Slot, Busy(wbuf, s)'
      PROVE  \/ Busy(wbuf, s) /\ wbuf'[s].line = wbuf[s].line
             \/ Accepted /\ s = Target /\ wbuf'[s].line = d_addr.line
  BY <1>1, <1>4, EmptySlotTyped DEF SlotSteps, SlotKept, SlotLocked, SlotWritten, SlotSent, SlotDone, Busy
<1>5. ASSUME NEW s \in Slot, Busy(wbuf, s)'
      PROVE  wbuf'[s].line \in CacheableLine \cap StoredLine
  BY <1>2, <1>4, <1>5 DEF WbufShape
<1>6. ASSUME NEW r \in Slot, NEW s \in Slot, Busy(wbuf, r)', Busy(wbuf, s)', wbuf'[r].line = wbuf'[s].line
      PROVE  r = s
  BY <1>2, <1>4, <1>6, TargetAlone DEF WbufShape
<1>7. ASSUME NEW s \in Slot, Gathers(s)'
      PROVE  \E w \in Word : wbuf'[s].data[w] /= Hole
  <2>1. CASE SlotWritten(s)
    <3>1. wbuf[s].data \in Burst /\ d_addr.word \in Word
      BY <1>2, <2>1, SlotTyped DEF SlotWritten, SlotType, Addr
    <3>2. wbuf'[s].data[d_addr.word] = d_wdata
      BY <2>1, <3>1 DEF SlotWritten, Filled, Burst
    <3>3. d_wdata /= Hole
      BY <1>2, <2>1 DEF SlotWritten, Bit, Hole
    <3>4. QED BY <3>1, <3>2, <3>3
  <2>2. CASE ~SlotWritten(s)
    <3>1. Gathers(s) /\ wbuf'[s].data = wbuf[s].data
      BY <1>1, <1>7, <2>2, EmptySlotTyped DEF SlotSteps, SlotKept, SlotLocked, SlotSent, SlotDone, Gathers
    <3>2. QED BY <3>1 DEF WbufShape
  <2>3. QED BY <2>1, <2>2
<1>8. QED
  BY <1>3, <1>5, <1>6, <1>7 DEF WbufShape

-----------------------------------------------------------------------------
(* COMMANDS AND RESPONSES.                                                 *)

(* A sequence is empty when its length is 0.                               *)
LEMMA EmptyIs ==
  ASSUME NEW S, NEW s \in Seq(S)
  PROVE  s = <<>> <=> Len(s) = 0
OBVIOUS

(* The domain of a sequence.                                               *)
LEMMA DomainIs ==
  ASSUME NEW S, NEW s \in Seq(S)
  PROVE  DOMAIN s = 1 .. Len(s) /\ Len(s) \in Nat
OBVIOUS

(* The tail of a sequence, element by element.                             *)
LEMMA TailIs ==
  ASSUME NEW S, NEW s \in Seq(S), s /= <<>>
  PROVE  /\ Tail(s) \in Seq(S) /\ Len(Tail(s)) = Len(s) - 1 /\ Len(s) \in Nat /\ Len(s) >= 1
         /\ \A n \in 1 .. Len(s) - 1 : Tail(s)[n] = s[n + 1]
         /\ Tail(s) = <<>> <=> Len(s) = 1
<1>1. /\ Tail(s) \in Seq(S) /\ Len(Tail(s)) = Len(s) - 1 /\ Len(s) \in Nat /\ Len(s) >= 1
      /\ \A n \in 1 .. Len(s) - 1 : Tail(s)[n] = s[n + 1]
  OBVIOUS
<1>2. Tail(s) = <<>> <=> Len(Tail(s)) = 0
  BY <1>1, EmptyIs
<1>3. \A m, n \in Nat : m = n - 1 => (m = 0 <=> n = 1)
  OBVIOUS
<1>4. Len(Tail(s)) \in Nat
  BY <1>1
<1>5. QED BY <1>1, <1>2, <1>3, <1>4

(* Appending an element, element by element.                               *)
LEMMA AppendIs ==
  ASSUME NEW S, NEW s \in Seq(S), NEW e \in S
  PROVE  /\ Append(s, e) \in Seq(S) /\ Len(Append(s, e)) = Len(s) + 1
         /\ \A n \in 1 .. Len(s) : Append(s, e)[n] = s[n]
         /\ Append(s, e)[Len(s) + 1] = e
OBVIOUS

(* The response to a command.                                              *)
LEMMA FlitsIs ==
  ASSUME MemTypes, NEW p \in PacketSet
  PROVE  /\ Flits(p) \in Seq(FlitSet) /\ Flits(p) /= <<>>
         /\ \A n \in 1 .. Len(Flits(p)) :
              /\ Flits(p)[n].trdid = p.trdid
              /\ Flits(p)[n].eop <=> n = Len(Flits(p))
              /\ Flits(p)[n].error <=> p.line \in ErrorLine
         /\ Len(Flits(p)) = IF p.line \notin ErrorLine /\ ~p.write /\ p.words = Word THEN NbWords ELSE 1
         /\ p.line \notin ErrorLine /\ ~p.write /\ p.words = Word =>
              \A n \in 1 .. NbWords : Flits(p)[n].rdata = mem[p.line][n - 1]
         /\ p.line \notin ErrorLine /\ ~p.write =>
              \A w \in Word : p.words = {w} => Flits(p)[1].rdata = mem[p.line][w]
<1>1. p.trdid \in TrdidSet /\ p.line \in Line /\ p.write \in BOOLEAN
      /\ (~p.write => p.words \in {Word} \cup {{w} : w \in Word})
  BY DEF PacketSet
<1>2. \A w \in Word : mem[p.line][w] \in Value
  BY <1>1 DEF MemTypes
<1>3. ASSUME NEW error \in BOOLEAN
      PROVE  [trdid |-> p.trdid, error |-> error, rdata |-> None, eop |-> TRUE] \in FlitSet
  BY <1>1 DEF FlitSet
<1>4. ASSUME NEW error \in BOOLEAN, Flits(p) = OneFlit(p, error)
      PROVE  /\ Flits(p) \in Seq(FlitSet) /\ Flits(p) /= <<>> /\ Len(Flits(p)) = 1
             /\ Flits(p)[1].trdid = p.trdid /\ Flits(p)[1].eop /\ (Flits(p)[1].error <=> error)
  <2> DEFINE f == [trdid |-> p.trdid, error |-> error, rdata |-> None, eop |-> TRUE]
  <2>1. f \in FlitSet /\ f.trdid = p.trdid /\ f.eop /\ (f.error <=> error)
    BY <1>3
  <2>2. Flits(p) = <<f>>
    BY <1>4 DEF OneFlit
  <2> HIDE DEF f
  <2>3. QED BY <2>1, <2>2
<1>5. \A n \in 1 .. 1 : n = 1
  OBVIOUS
<1>6. CASE p.line \in ErrorLine
  <2>1. Flits(p) = OneFlit(p, TRUE)
    BY <1>6 DEF Flits
  <2>2. QED BY <1>4, <1>5, <1>6, <2>1
<1>7. CASE p.line \notin ErrorLine /\ p.write
  <2>1. Flits(p) = OneFlit(p, FALSE)
    BY <1>7 DEF Flits
  <2>2. QED BY <1>4, <1>5, <1>7, <2>1
<1>8. CASE p.line \notin ErrorLine /\ ~p.write
  <2> DEFINE flit(w) == [trdid |-> p.trdid, error |-> FALSE, rdata |-> mem[p.line][w],
                         eop |-> \A v \in p.words : v <= w]
  <2>1. Flits(p) = IF p.words = Word THEN [n \in 1 .. NbWords |-> flit(n - 1)]
                                     ELSE <<flit(CHOOSE w \in p.words : TRUE)>>
    BY <1>8 DEF Flits, ReadFlits
  <2>2. ASSUME NEW w \in Word
        PROVE  /\ flit(w) \in FlitSet /\ flit(w).trdid = p.trdid /\ flit(w).error = FALSE
               /\ flit(w).rdata = mem[p.line][w] /\ (flit(w).eop <=> \A v \in p.words : v <= w)
    BY <1>1, <1>2 DEF FlitSet
  <2> HIDE DEF flit
  <2>3. CASE p.words = Word
    <3>1. Flits(p) = [n \in 1 .. NbWords |-> flit(n - 1)]
      BY <2>1, <2>3
    <3>2. \A n \in 1 .. NbWords : n - 1 \in Word /\ (n = NbWords <=> \A v \in Word : v <= n - 1)
      <4>1. ASSUME NEW n \in 1 .. NbWords
            PROVE  n - 1 \in Word /\ (n = NbWords <=> \A v \in Word : v <= n - 1)
        <5>1. NbWords - 1 \in Word
          BY Zero
        <5>2. QED BY <5>1, StoresAssumption DEF Word
      <4>2. QED BY <4>1
    <3>3. NbWords \in Nat /\ NbWords >= 1
      BY StoresAssumption
    <3>4. \A n \in 1 .. NbWords : flit(n - 1) \in FlitSet
      BY <2>2, <3>2
    <3>5. Flits(p) \in Seq(FlitSet) /\ Len(Flits(p)) = NbWords
          /\ \A n \in 1 .. NbWords : Flits(p)[n] = flit(n - 1)
      BY <3>1, <3>3, <3>4
    <3>6. ASSUME NEW n \in 1 .. NbWords
          PROVE  /\ Flits(p)[n].trdid = p.trdid /\ (Flits(p)[n].eop <=> n = NbWords)
                 /\ ~Flits(p)[n].error /\ Flits(p)[n].rdata = mem[p.line][n - 1]
      <4>1. n - 1 \in Word /\ Flits(p)[n] = flit(n - 1) /\ (n = NbWords <=> \A v \in Word : v <= n - 1)
        BY <3>2, <3>5
      <4>2. /\ flit(n - 1).trdid = p.trdid /\ flit(n - 1).error = FALSE
            /\ flit(n - 1).rdata = mem[p.line][n - 1] /\ (flit(n - 1).eop <=> \A v \in p.words : v <= n - 1)
        BY <2>2, <4>1
      <4>3. QED BY <2>3, <4>1, <4>2
    <3>7. Flits(p) /= <<>>
      BY <3>3, <3>5
    <3>8. ASSUME NEW w \in Word, p.words = {w}
          PROVE  Flits(p)[1].rdata = mem[p.line][w]
      <4>1. w = 0
        BY <2>3, <3>8, Zero
      <4>2. 1 \in 1 .. NbWords /\ 1 - 1 = 0
        BY <3>3
      <4>3. QED BY <3>6, <4>1, <4>2
    <3>9. QED BY <1>8, <2>3, <3>5, <3>6, <3>7, <3>8
  <2>4. CASE p.words /= Word
    <3>1. PICK w \in Word : p.words = {w}
      BY <1>1, <1>8, <2>4
    <3>2. Flits(p) = <<flit(w)>>
      BY <2>1, <2>4, <3>1
    <3>3. \A v \in p.words : v <= w
      BY <3>1 DEF Word
    <3>4. flit(w) \in FlitSet
      BY <2>2
    <3>5. Flits(p) \in Seq(FlitSet) /\ Len(Flits(p)) = 1 /\ Flits(p)[1] = flit(w) /\ Flits(p) /= <<>>
      BY <3>2, <3>4
    <3>6. \A v \in Word : p.words = {v} => v = w
      BY <3>1
    <3>7. /\ Flits(p)[1].trdid = p.trdid /\ Flits(p)[1].eop /\ ~Flits(p)[1].error
          /\ Flits(p)[1].rdata = mem[p.line][w]
      BY <2>2, <3>3, <3>5
    <3>8. \A n \in 1 .. Len(Flits(p)) : n = 1
      BY <1>5, <3>5
    <3>9. \A v \in Word : p.words = {v} => Flits(p)[1].rdata = mem[p.line][v]
      BY <3>6, <3>7
    <3>10. QED BY <1>8, <2>4, <3>5, <3>7, <3>8, <3>9
  <2>5. QED BY <2>3, <2>4
<1>9. QED BY <1>1, <1>6, <1>7, <1>8

(***************************************************************************)
(* What happens to the response in a cycle.                                *)
(***************************************************************************)
NoPut(flit) == ~DataPut(flit) /\ ~InsPut(flit) /\ ~DataErrorSet(flit) /\ ~InsErrorSet(flit) /\ ~WriteDone(flit)

RspStill(served, flit)  == served = 0 /\ NoPut(flit) /\ rsp' = rsp /\ rsp_fsm' = rsp_fsm
RspServed(served, flit) == /\ served \in DOMAIN net /\ NoPut(flit) /\ rsp = <<>>
                           /\ rsp' = Flits(net[served]) /\ rsp_fsm' = "IDLE"
RspStarts(served, flit) == /\ served = 0 /\ NoPut(flit) /\ rsp /= <<>> /\ rsp' = rsp
                           /\ rsp_fsm' = rsp[1].trdid.type
RspTakes(served, flit)  == /\ served = 0 /\ AtRsp(rsp_fsm) /\ flit = rsp[1] /\ rsp' = Tail(rsp)
                           /\ rsp_fsm' = IF Len(rsp) = 1 THEN "IDLE" ELSE rsp_fsm
                           /\ DataPut(flit) <=> rsp_fsm \in {"DATA_MISS", "DATA_UNC"} /\ ~flit.error
                           /\ InsPut(flit) <=> rsp_fsm \in {"INS_MISS", "INS_UNC"} /\ ~flit.error
                           /\ DataErrorSet(flit) <=> rsp_fsm \in {"DATA_MISS", "DATA_UNC"} /\ flit.error
                           /\ InsErrorSet(flit) <=> rsp_fsm \in {"INS_MISS", "INS_UNC"} /\ flit.error
                           /\ WriteDone(flit) <=> rsp_fsm = "DATA_WRITE"

RspSteps(served, flit) ==
  RspStill(served, flit) \/ RspServed(served, flit) \/ RspStarts(served, flit) \/ RspTakes(served, flit)

(* The RSP machine and the network make one of the steps above in a cycle. *)
LEMMA RspStep ==
  ASSUME NetTypes, RspTypes, RspShape,
         NEW locks, NEW ack, NEW served, NEW flit, Ticks(locks, ack, served, flit)
  PROVE  RspSteps(served, flit)
<1>1. flit \in Flit /\ served \in {0} \cup Serviceable /\ Rsp(flit)
      /\ (IF served = 0 THEN Deliver(flit) ELSE Serve(served))
  BY DEF Ticks, Cycle
<1>2. rsp_fsm \in {"IDLE", "DATA_WRITE", "DATA_MISS", "DATA_UNC", "INS_MISS", "INS_UNC"}
  BY DEF RspTypes, ReadType
<1>3. rsp_fsm' = CASE rsp_fsm = "IDLE" /\ Rspval(flit)                -> flit.trdid.type
                   [] rsp_fsm \in OneFlitState /\ Taken(flit)         -> "IDLE"
                   [] rsp_fsm \in BurstState /\ Taken(flit) /\ flit.eop -> "IDLE"
                   [] OTHER                                           -> rsp_fsm
  BY <1>1 DEF Rsp
<1>4. ~Rspval(flit) \/ rsp_fsm = "IDLE" => NoPut(flit)
  BY DEF NoPut, DataPut, InsPut, DataErrorSet, InsErrorSet, WriteDone, Takes
<1>5. NoPut(flit) => ~Taken(flit)
  BY DEF NoPut, Taken
<1>6. CASE ~Rspval(flit)
  <2>1. rsp_fsm' = rsp_fsm /\ NoPut(flit)
    BY <1>3, <1>4, <1>5, <1>6
  <2>2. CASE served = 0
    BY <1>1, <1>6, <2>1, <2>2 DEF Deliver, RspStill, RspSteps
  <2>3. CASE served /= 0
    <3>1. rsp = <<>> /\ served \in DOMAIN net /\ rsp' = Flits(net[served])
      BY <1>1, <2>3 DEF Serve, Serviceable
    <3>2. rsp_fsm = "IDLE"
      BY <3>1 DEF RspShape, AtRsp
    <3>3. QED BY <2>1, <3>1, <3>2 DEF RspServed, RspSteps
  <2>4. QED BY <2>2, <2>3
<1>7. CASE Rspval(flit)
  <2>1. rsp /= <<>> /\ flit = rsp[1] /\ flit \in FlitSet
    BY <1>1, <1>7, FlitIs
  <2>2. served = 0
    BY <1>1, <2>1 DEF Serve
  <2>3. CASE rsp_fsm = "IDLE"
    <3>1. rsp_fsm' = rsp[1].trdid.type
      <4>1. rsp_fsm \notin OneFlitState /\ rsp_fsm \notin BurstState
        BY <2>3 DEF OneFlitState, BurstState
      <4>2. QED BY <1>3, <1>7, <2>1, <2>3, <4>1
    <3>2. rsp' = rsp
      BY <1>1, <2>2, <2>3 DEF Deliver, Rspack
    <3>3. QED BY <1>4, <2>1, <2>2, <2>3, <3>1, <3>2 DEF RspStarts, RspSteps
  <2>4. CASE rsp_fsm /= "IDLE"
    <3>1. AtRsp(rsp_fsm)
      BY <2>4 DEF RspShape
    <3>2. rsp' = Tail(rsp)
      BY <1>1, <1>7, <2>2, <2>4 DEF Deliver, Rspack
    <3>3. Len(fifo_data) < FifoDepth /\ Len(fifo_ins) < FifoDepth
      <4>1. Len(fifo_data) \in Nat /\ Len(fifo_data) <= 1 /\ Len(fifo_ins) \in Nat /\ Len(fifo_ins) <= 1
        BY DEF RspTypes
      <4>2. FifoDepth \in Nat /\ FifoDepth > 1
        BY StoresAssumption
      <4>3. \A m, n \in Nat : m <= 1 /\ n > 1 => m < n
        OBVIOUS
      <4>4. QED BY <4>1, <4>2, <4>3
    <3>4. /\ DataPut(flit) <=> rsp_fsm \in {"DATA_MISS", "DATA_UNC"} /\ ~flit.error
          /\ InsPut(flit) <=> rsp_fsm \in {"INS_MISS", "INS_UNC"} /\ ~flit.error
          /\ DataErrorSet(flit) <=> rsp_fsm \in {"DATA_MISS", "DATA_UNC"} /\ flit.error
          /\ InsErrorSet(flit) <=> rsp_fsm \in {"INS_MISS", "INS_UNC"} /\ flit.error
          /\ WriteDone(flit) <=> rsp_fsm = "DATA_WRITE"
      BY <1>7, <3>3 DEF DataPut, InsPut, DataErrorSet, InsErrorSet, WriteDone, Takes
    <3>5. Taken(flit)
      BY <1>2, <2>4, <3>4 DEF Taken
    <3>6. 1 \in DOMAIN rsp /\ (flit.eop <=> 1 = Len(rsp))
      BY <2>1, FirstIs DEF RspShape, NetTypes
    <3>7. rsp_fsm \in OneFlitState => Len(rsp) = 1
      BY <2>1, <3>1 DEF RspShape, AtRsp, OneFlitState, BurstState
    <3>8. rsp_fsm \in OneFlitState \/ (rsp_fsm \in BurstState /\ rsp_fsm \notin OneFlitState)
      BY <1>2, <2>4 DEF OneFlitState, BurstState
    <3>9. rsp_fsm' = IF Len(rsp) = 1 THEN "IDLE" ELSE rsp_fsm
      <4>1. CASE rsp_fsm \in OneFlitState
        BY <1>3, <2>4, <3>5, <3>7, <4>1
      <4>2. CASE rsp_fsm \in BurstState /\ rsp_fsm \notin OneFlitState
        BY <1>3, <2>4, <3>5, <3>6, <4>2
      <4>3. QED BY <3>8, <4>1, <4>2
    <3>10. QED BY <2>1, <2>2, <3>1, <3>2, <3>4, <3>9 DEF RspTakes, RspSteps
  <2>5. QED BY <2>3, <2>4
<1>8. QED BY <1>6, <1>7

(* Every response is whole, and of one flit unless it fills a line.        *)
LEMMA ResponseIs ==
  ASSUME MemTypes, NEW p \in PacketSet, Asks(p), p.trdid.type = "DATA_WRITE" => p.write
  PROVE  /\ p.trdid.type \notin BurstState => Len(Flits(p)) = 1
         /\ p.trdid.type \in BurstState /\ p.line \notin ErrorLine =>
              \A n \in 1 .. Len(Flits(p)) : Flits(p)[n].rdata \in Value
<1>1. p.trdid.type \in ReadType \cup {"DATA_WRITE"} /\ p.line \in Line
  BY DEF PacketSet, TrdidSet
<1>2. \A w \in Word : {w} = Word => NbWords = 1
  <2>1. ASSUME NEW w \in Word, {w} = Word
        PROVE  NbWords = 1
    <3>1. 0 \in {w} /\ NbWords - 1 \in {w}
      BY <2>1, Zero
    <3>2. QED BY <3>1, StoresAssumption
  <2>2. QED BY <2>1
<1>3. ASSUME p.trdid.type \notin BurstState, ~p.write
      PROVE  \E w \in Word : p.words = {w}
  <2>1. p.trdid.type \in {"DATA_UNC", "INS_UNC"}
    BY <1>1, <1>3 DEF BurstState, ReadType
  <2>2. \E a : p.words = {a}
    BY <1>3, <2>1 DEF Asks
  <2>3. p.words \in {Word} \cup {{w} : w \in Word}
    BY <1>3 DEF PacketSet
  <2>4. QED BY <2>2, <2>3, Zero
<1>4. CASE p.trdid.type \notin BurstState
  <2>1. Len(Flits(p)) = IF p.line \notin ErrorLine /\ ~p.write /\ p.words = Word THEN NbWords ELSE 1
    BY FlitsIs
  <2>2. ~p.write /\ p.words = Word => NbWords = 1
    BY <1>2, <1>3, <1>4
  <2>3. QED BY <1>4, <2>1, <2>2
<1>5. CASE p.trdid.type \in BurstState
  <2>1. ~p.write /\ p.words = Word
    BY <1>5 DEF Asks, BurstState
  <2>2. ASSUME p.line \notin ErrorLine, NEW n \in 1 .. Len(Flits(p))
        PROVE  Flits(p)[n].rdata \in Value
    <3>1. Len(Flits(p)) = NbWords /\ Flits(p)[n].rdata = mem[p.line][n - 1]
      BY <2>1, <2>2, FlitsIs
    <3>2. n - 1 \in Word
      BY <3>1, StoresAssumption DEF Word
    <3>3. QED BY <1>1, <3>1, <3>2 DEF MemTypes
  <2>3. QED BY <1>5, <2>2
<1>6. QED BY <1>4, <1>5

(* A cycle keeps the words that wait for the RSP machine those of one      *)
(* response.                                                               *)
LEMMA RspShapeKept ==
  ASSUME NetTypes, RspTypes, MemTypes, RspShape, PacketsAsk, WritesPlaced,
         NEW served, NEW flit, RspSteps(served, flit)
  PROVE  RspShape' /\ rsp' \in Seq(FlitSet) /\ rsp_fsm' \in ReadType \cup {"IDLE", "DATA_WRITE"}
<1>1. CASE RspStill(served, flit)
  BY <1>1 DEF RspStill, RspShape, AtRsp, NetTypes, RspTypes
<1>2. CASE RspServed(served, flit)
  <2> DEFINE p == net[served]
  <2>1. p \in PacketSet /\ p \in InFlight
    BY <1>2 DEF RspServed, NetTypes, InFlight
  <2>2. rsp' = Flits(p) /\ rsp_fsm' = "IDLE"
    BY <1>2 DEF RspServed
  <2> HIDE DEF p
  <2>3. /\ rsp' \in Seq(FlitSet) /\ rsp' /= <<>>
        /\ \A n \in 1 .. Len(rsp') : rsp'[n].trdid = p.trdid /\ (rsp'[n].eop <=> n = Len(rsp'))
                                     /\ (rsp'[n].error <=> p.line \in ErrorLine)
        /\ Len(rsp') = IF p.line \notin ErrorLine /\ ~p.write /\ p.words = Word THEN NbWords ELSE 1
    BY <2>1, <2>2, FlitsIs
  <2>4. DOMAIN rsp' = 1 .. Len(rsp')
    BY <2>3, DomainIs
  <2>5. Asks(p) /\ p.trdid.type = "DATA_WRITE" => p.write
    BY <2>1 DEF PacketsAsk, WritesPlaced
  <2>6. /\ p.trdid.type \notin BurstState => Len(rsp') = 1
        /\ p.trdid.type \in BurstState /\ p.line \notin ErrorLine =>
             \A n \in 1 .. Len(rsp') : rsp'[n].rdata \in Value
    BY <2>1, <2>2, ResponseIs DEF PacketsAsk, WritesPlaced
  <2>7. 1 \in DOMAIN rsp'
    BY <2>3, <2>4, FirstIs
  <2>8. QED
    BY <2>2, <2>3, <2>4, <2>6, <2>7 DEF RspShape
<1>3. CASE RspStarts(served, flit)
  <2>1. rsp' = rsp /\ rsp_fsm' = rsp[1].trdid.type /\ rsp /= <<>>
    BY <1>3 DEF RspStarts
  <2>2. rsp[1] \in FlitSet
    BY <2>1, FirstIs DEF NetTypes
  <2>3. rsp[1].trdid.type \in ReadType \cup {"DATA_WRITE"}
    BY <2>2 DEF FlitSet, TrdidSet
  <2>4. QED BY <2>1, <2>3 DEF RspShape, AtRsp, NetTypes
<1>4. CASE RspTakes(served, flit)
  <2>1. rsp /= <<>> /\ rsp' = Tail(rsp) /\ rsp_fsm' = (IF Len(rsp) = 1 THEN "IDLE" ELSE rsp_fsm)
        /\ rsp[1].trdid.type = rsp_fsm
    BY <1>4 DEF RspTakes, AtRsp
  <2>2. /\ rsp' \in Seq(FlitSet) /\ Len(rsp') = Len(rsp) - 1 /\ Len(rsp) \in Nat /\ Len(rsp) >= 1
        /\ \A n \in 1 .. Len(rsp) - 1 : rsp'[n] = rsp[n + 1]
        /\ rsp' = <<>> <=> Len(rsp) = 1
    BY <2>1, TailIs DEF NetTypes
  <2>3. DOMAIN rsp = 1 .. Len(rsp) /\ DOMAIN rsp' = 1 .. Len(rsp')
    BY <2>2 DEF NetTypes
  <2>4. ASSUME NEW n \in DOMAIN rsp'
        PROVE  /\ n + 1 \in DOMAIN rsp /\ rsp'[n] = rsp[n + 1] /\ 1 \in DOMAIN rsp'
               /\ n = Len(rsp') <=> n + 1 = Len(rsp)
    BY <2>2, <2>3
  <2>5. \A n \in DOMAIN rsp' : rsp'[n].trdid = rsp[1].trdid /\ (rsp'[n].eop <=> n = Len(rsp'))
    BY <2>4 DEF RspShape
  <2>6. rsp' /= <<>> => rsp'[1].trdid = rsp[1].trdid
    <3>1. rsp' /= <<>> => 1 \in DOMAIN rsp'
      BY <2>2, FirstIs
    <3>2. QED BY <2>5, <3>1
  <2>7. \A n \in DOMAIN rsp' : rsp'[n].trdid = rsp'[1].trdid
    BY <2>4, <2>5
  <2>8. rsp' /= <<>> => rsp[1].trdid.type \in BurstState /\ \A n \in DOMAIN rsp : ~rsp[n].error
    BY <2>1, <2>2 DEF RspShape
  <2>9. rsp' /= <<>> => rsp'[1].trdid.type = rsp_fsm /\ rsp_fsm' = rsp_fsm /\ rsp_fsm \in BurstState
    BY <2>1, <2>2, <2>6, <2>8
  <2>10. \A n \in DOMAIN rsp' : rsp' /= <<>> /\ ~rsp'[n].error /\ (rsp[n + 1].rdata \in Value => rsp'[n].rdata \in Value)
    <3>1. \A n \in DOMAIN rsp' : rsp' /= <<>>
      BY <2>2, <2>3, EmptyIs
    <3>2. QED BY <2>4, <2>8, <3>1
  <2>11. \A n \in DOMAIN rsp' : rsp'[n].rdata \in Value
    <3>1. \A n \in DOMAIN rsp' : rsp[n + 1].trdid = rsp[1].trdid /\ ~rsp[n + 1].error /\ rsp[1].trdid.type \in BurstState
      BY <2>4, <2>8, <2>10 DEF RspShape
    <3>2. QED BY <2>4, <2>10, <3>1 DEF RspShape
  <2>12. rsp_fsm' = "IDLE" \/ AtRsp(rsp_fsm)'
    BY <2>1, <2>2, <2>9 DEF AtRsp
  <2>13. rsp_fsm' \in ReadType \cup {"IDLE", "DATA_WRITE"}
    BY <2>1 DEF RspTypes
  <2>14. rsp' /= <<>> => rsp'[1].trdid.type \in BurstState
    BY <2>9
  <2>15. QED BY <2>2, <2>5, <2>7, <2>10, <2>11, <2>12, <2>13, <2>14 DEF RspShape
<1>5. QED BY <1>1, <1>2, <1>3, <1>4 DEF RspSteps

(* A set of naturals that is not empty has a minimum.                      *)
LEMMA HasMin ==
  ASSUME NEW T \in SUBSET Nat, T /= {}
  PROVE  \E x \in T : \A y \in T : x <= y
<1>1. \E x \in T : \A y \in T : ~(<<y, x>> \in OpToRel(<, Nat))
  <2> HIDE DEF OpToRel
  <2>1. QED BY NatLessThanWellFounded, WFMin
<1>2. \A x, y \in Nat : x < y => <<x, y>> \in OpToRel(<, Nat)
  BY DEF OpToRel
<1>3. PICK x \in T : \A y \in T : ~(<<y, x>> \in OpToRel(<, Nat))
  BY <1>1
<1>4. ASSUME NEW y \in T PROVE x <= y
  <2>1. x \in Nat /\ y \in Nat
    OBVIOUS
  <2>2. ~(y < x)
    BY <1>2, <1>3, <2>1
  <2>3. QED BY <2>1, <2>2
<1>5. QED BY <1>4

(* A bounded set of naturals that is not empty has a maximum.              *)
LEMMA HasMax ==
  ASSUME NEW N \in Nat, NEW T \in SUBSET (0 .. N), T /= {}
  PROVE  \E x \in T : \A y \in T : y <= x
<1> DEFINE U == {N - y : y \in T}
<1>1. U \in SUBSET Nat /\ U /= {}
  <2>1. \A y \in T : N - y \in Nat
    OBVIOUS
  <2>2. QED BY <2>1
<1>2. PICK x \in U : \A y \in U : x <= y
  <2> HIDE DEF U
  <2> QED BY <1>1, HasMin
<1>3. PICK z \in T : x = N - z
  OBVIOUS
<1>4. ASSUME NEW y \in T PROVE y <= z
  <2>1. N - y \in U
    OBVIOUS
  <2>2. N - z <= N - y
    BY <1>2, <1>3, <2>1
  <2>3. QED BY <2>2
<1>5. QED BY <1>3, <1>4

(* The first and the last word that a slot has gathered.                   *)
LEMMA BurstBounds ==
  ASSUME NEW wb, NEW s, \E w \in Word : wb[s].data[w] /= Hole
  PROVE  /\ MinWord(wb, s) \in Word /\ MaxWord(wb, s) \in Word /\ MinWord(wb, s) <= MaxWord(wb, s)
         /\ \A w \in Word : w < MinWord(wb, s) \/ w > MaxWord(wb, s) => wb[s].data[w] = Hole
<1> DEFINE W == Written(wb, s)
<1>1. W \subseteq Word /\ W /= {}
  BY DEF Written
<1>2. W \in SUBSET Nat /\ W \in SUBSET (0 .. NbWords - 1) /\ NbWords - 1 \in Nat
  BY <1>1, StoresAssumption DEF Word
<1>3. \E x \in W : \A y \in W : x <= y
  <2> HIDE DEF W
  <2> QED BY <1>1, <1>2, HasMin
<1>4. \E x \in W : \A y \in W : y <= x
  <2> HIDE DEF W
  <2> QED BY <1>1, <1>2, HasMax
<1>5. MinWord(wb, s) \in W /\ \A y \in W : MinWord(wb, s) <= y
  BY <1>3 DEF MinWord
<1>6. MaxWord(wb, s) \in W /\ \A y \in W : y <= MaxWord(wb, s)
  BY <1>4 DEF MaxWord
<1>7. MinWord(wb, s) <= MaxWord(wb, s)
  BY <1>5, <1>6
<1>8. ASSUME NEW w \in Word, w < MinWord(wb, s) \/ w > MaxWord(wb, s)
      PROVE  wb[s].data[w] = Hole
  <2>1. w \notin W
    <3>1. \A m, n \in Nat : m < n => ~(n <= m)
      OBVIOUS
    <3>2. w \in Nat /\ MinWord(wb, s) \in Nat /\ MaxWord(wb, s) \in Nat
      BY <1>2, <1>5, <1>6 DEF Word
    <3>3. QED BY <1>5, <1>6, <1>8, <3>1, <3>2
  <2>2. QED BY <2>1 DEF Written
<1>9. QED BY <1>1, <1>5, <1>6, <1>7, <1>8

(***************************************************************************)
(* What the CMD machine does in a cycle.                                   *)
(***************************************************************************)
CmdSame == cmd_slot' = cmd_slot /\ cmd_cpt' = cmd_cpt /\ cmd_max' = cmd_max

Sends(ack) == cmd_fsm /= "IDLE" /\ ack /\ (cmd_fsm = "DATA_WRITE" => cmd_cpt = cmd_max)

CmdRests       == cmd_fsm = "IDLE" /\ cmd_fsm' = "IDLE" /\ CmdSame
CmdTakes(type) == cmd_fsm = "IDLE" /\ cmd_fsm' = type /\ AtReq(type) /\ CmdSame
CmdStarts(wb)  == /\ cmd_fsm = "IDLE" /\ cmd_fsm' = "DATA_WRITE" /\ cmd_slot' \in Ready(wb)
                  /\ cmd_cpt' = MinWord(wb, cmd_slot') /\ cmd_max' = MaxWord(wb, cmd_slot')
CmdWaits(ack)  == cmd_fsm /= "IDLE" /\ ~ack /\ cmd_fsm' = cmd_fsm /\ CmdSame
CmdGoesOn(ack) == /\ cmd_fsm = "DATA_WRITE" /\ ack /\ cmd_cpt /= cmd_max /\ cmd_fsm' = "DATA_WRITE"
                  /\ cmd_cpt' = cmd_cpt + 1 /\ cmd_slot' = cmd_slot /\ cmd_max' = cmd_max
CmdSends(ack)  == /\ Sends(ack) /\ cmd_fsm' = "IDLE" /\ cmd_slot' = cmd_slot /\ cmd_max' = cmd_max
                  /\ cmd_cpt' = IF cmd_fsm = "DATA_WRITE" THEN cmd_cpt + 1 ELSE cmd_cpt

Requested(type) ==
  \/ type = "DATA_MISS" /\ ReadMiss
  \/ type = "DATA_UNC" /\ Uncached
  \/ type = "INS_MISS" /\ IMiss
  \/ type = "INS_UNC" /\ IUnc

CmdSteps(wb, ack) ==
  \/ CmdRests \/ CmdStarts(wb) \/ CmdWaits(ack) \/ CmdGoesOn(ack) \/ CmdSends(ack)
  \/ \E type \in ReadType : CmdTakes(type)

(* The CMD machine makes one of the steps above, and a request is pending  *)
(* until it is taken; a miss is taken only when the write buffer holds     *)
(* nothing of its line.                                                    *)
LEMMA CmdStep ==
  ASSUME CmdTypes, NEW wb, NEW ack \in BOOLEAN, Cmd(wb, ack)
  PROVE  /\ CmdSteps(wb, ack)
         /\ \A type \in ReadType : AtReq(type)' <=> (AtReq(type) \/ Requested(type)) /\ ~CmdTakes(type)
         /\ CmdTakes("DATA_MISS") => WbufMiss(wb, d_addr.line)
         /\ {d_miss_req', d_unc_req', i_miss_req', i_unc_req'} \subseteq BOOLEAN
<1>1. /\ CmdIdle(wb) \/ CmdDataWrite(ack) \/ CmdRead(ack)
      /\ d_miss_req' = (~TakesDataMiss(wb) /\ (d_miss_req \/ ReadMiss))
      /\ i_miss_req' = (~TakesInsMiss(wb) /\ (i_miss_req \/ IMiss))
      /\ d_unc_req'  = (~TakesDataUnc(wb) /\ (d_unc_req \/ Uncached))
      /\ i_unc_req'  = (~TakesInsUnc(wb) /\ (i_unc_req \/ IUnc))
  BY DEF Cmd
<1>2. {d_miss_req', d_unc_req', i_miss_req', i_unc_req'} \subseteq BOOLEAN
  BY <1>1
<1>3. /\ TakesDataMiss(wb) => AtReq("DATA_MISS") /\ WbufMiss(wb, d_addr.line)
      /\ TakesInsMiss(wb) => AtReq("INS_MISS") /\ ~TakesDataMiss(wb)
      /\ TakesDataUnc(wb) => AtReq("DATA_UNC") /\ NoneBefore(wb)
      /\ TakesInsUnc(wb) => AtReq("INS_UNC") /\ NoneBefore(wb) /\ ~TakesDataUnc(wb)
      /\ TakesWrite(wb) => ~TakesDataMiss(wb) /\ ~TakesInsMiss(wb)
      /\ NoneBefore(wb) => ~TakesDataMiss(wb) /\ ~TakesInsMiss(wb) /\ ~TakesWrite(wb)
  BY DEF TakesDataMiss, TakesInsMiss, TakesDataUnc, TakesInsUnc, TakesWrite, NoneBefore, AtReq
<1>4. CASE CmdIdle(wb)
  <2>1. CASE TakesWrite(wb)
    <3>1. cmd_fsm = "IDLE" /\ cmd_fsm' = "DATA_WRITE" /\ CmdStarts(wb)
      BY <1>4, <2>1 DEF CmdIdle, CmdStarts
    <3>2. /\ ~TakesDataMiss(wb) /\ ~TakesInsMiss(wb) /\ ~TakesDataUnc(wb) /\ ~TakesInsUnc(wb)
          /\ \A type \in ReadType : ~CmdTakes(type)
      BY <1>3, <2>1, <3>1 DEF CmdTakes, ReadType
    <3>3. QED BY <1>1, <1>2, <3>1, <3>2 DEF AtReq, Requested, ReadType, CmdSteps
  <2>2. CASE ~TakesWrite(wb)
    <3>1. cmd_fsm = "IDLE" /\ CmdSame
          /\ cmd_fsm' = CASE TakesDataMiss(wb) -> "DATA_MISS"
                          [] TakesInsMiss(wb)  -> "INS_MISS"
                          [] TakesDataUnc(wb)  -> "DATA_UNC"
                          [] TakesInsUnc(wb)   -> "INS_UNC"
                          [] OTHER             -> "IDLE"
      BY <1>4, <2>2 DEF CmdIdle, CmdSame
    <3>2. /\ TakesDataMiss(wb) <=> CmdTakes("DATA_MISS")
          /\ TakesInsMiss(wb) <=> CmdTakes("INS_MISS")
          /\ TakesDataUnc(wb) <=> CmdTakes("DATA_UNC")
          /\ TakesInsUnc(wb) <=> CmdTakes("INS_UNC")
      BY <1>3, <3>1 DEF CmdTakes
    <3>3. CmdRests \/ \E type \in ReadType : CmdTakes(type)
      BY <1>3, <3>1, <3>2 DEF CmdRests, ReadType
    <3>4. QED BY <1>1, <1>2, <1>3, <3>2, <3>3 DEF AtReq, Requested, ReadType, CmdSteps
  <2>3. QED BY <2>1, <2>2
<1>5. CASE CmdDataWrite(ack) \/ CmdRead(ack)
  <2>1. cmd_fsm /= "IDLE"
    BY <1>5 DEF CmdDataWrite, CmdRead, ReadType
  <2>2. /\ ~TakesDataMiss(wb) /\ ~TakesInsMiss(wb) /\ ~TakesDataUnc(wb) /\ ~TakesInsUnc(wb)
        /\ \A type \in ReadType : ~CmdTakes(type)
    BY <2>1 DEF CmdTakes, TakesDataMiss, TakesInsMiss, TakesDataUnc, TakesInsUnc, NoneBefore
  <2>3. CmdWaits(ack) \/ CmdGoesOn(ack) \/ CmdSends(ack)
    <3>1. CASE CmdDataWrite(ack)
      BY <3>1 DEF CmdDataWrite, BurstSent, CmdWaits, CmdGoesOn, CmdSends, Sends, CmdSame
    <3>2. CASE CmdRead(ack)
      BY <3>2 DEF CmdRead, ReadType, CmdWaits, CmdSends, Sends, CmdSame
    <3>3. QED BY <1>5, <3>1, <3>2
  <2>4. QED BY <1>1, <1>2, <2>2, <2>3 DEF AtReq, Requested, ReadType, CmdSteps
<1>6. QED BY <1>1, <1>4, <1>5

(* The CMD machine runs on the write buffer of the cycle.                  *)
LEMMA CmdOf ==
  ASSUME NEW locks, NEW ack, NEW served, NEW flit, Ticks(locks, ack, served, flit)
  PROVE  Cmd(Updated(locks), ack) /\ ack \in BOOLEAN
BY DEF Ticks, Cycle

(* A slot that is ready has gathered words, and is locked after the cycle. *)
LEMMA StartIs ==
  ASSUME StoreTypes, DataTypes, ServedData, CmdTypes, NetTypes, WbufShape, BurstShape, WritesPlaced, RspShape,
         NEW locks, NEW ack, NEW served, NEW flit, Ticks(locks, ack, served, flit),
         CmdStarts(Updated(locks))
  PROVE  /\ cmd_slot' \in Slot /\ wbuf'[cmd_slot'].st = "LOCKED"
         /\ cmd_cpt' \in Word /\ cmd_max' \in Word /\ cmd_cpt' <= cmd_max'
         /\ \A w \in Word : w < cmd_cpt' \/ w > cmd_max' => wbuf'[cmd_slot'].data[w] = Hole
<1> DEFINE updated == Updated(locks)
<1>1. PICK s \in Ready(updated) : cmd_slot' = s /\ cmd_cpt' = MinWord(updated, s) /\ cmd_max' = MaxWord(updated, s)
  BY DEF CmdStarts
<1>2. s \in Slot /\ updated[s].st = "LOCKED"
  BY DEF Ready
<1>3. wbuf'[s] = updated[s]
  <2>1. ~BurstSent(ack)
    BY DEF CmdStarts, BurstSent
  <2>2. QED BY <1>2, <2>1, SlotStep
<1>4. \E w \in Word : updated[s].data[w] /= Hole
  BY <1>2, <1>3, WbufShapeKept DEF WbufShape, Gathers
<1> HIDE DEF updated
<1>5. QED BY <1>1, <1>2, <1>3, <1>4, BurstBounds

(* A cycle keeps the types of the CMD machine.                             *)
LEMMA CmdTypesKept ==
  ASSUME StoreTypes, DataTypes, ServedData, CmdTypes, NetTypes, WbufShape, BurstShape, WritesPlaced, RspShape,
         NEW locks, NEW ack, NEW served, NEW flit, Ticks(locks, ack, served, flit)
  PROVE  CmdTypes'
<1>1. /\ CmdSteps(Updated(locks), ack)
      /\ {d_miss_req', d_unc_req', i_miss_req', i_unc_req'} \subseteq BOOLEAN
  BY CmdOf, CmdStep
<1>2. CASE CmdRests \/ CmdWaits(ack) \/ \E type \in ReadType : CmdTakes(type)
  BY <1>1, <1>2 DEF CmdRests, CmdWaits, CmdTakes, CmdSame, CmdTypes
<1>3. CASE CmdStarts(Updated(locks))
  <2>1. cmd_fsm' = "DATA_WRITE"
    BY <1>3 DEF CmdStarts
  <2>2. cmd_slot' \in Slot /\ cmd_cpt' \in Word /\ cmd_max' \in Word
    BY <1>3, StartIs
  <2>3. Word \subseteq 0 .. NbWords
    BY StoresAssumption DEF Word
  <2>4. QED BY <1>1, <2>1, <2>2, <2>3 DEF CmdTypes
<1>4. \A m \in 0 .. NbWords : \A n \in Word : m <= n => m + 1 \in 0 .. NbWords
  BY StoresAssumption DEF Word
<1>5. CASE CmdGoesOn(ack)
  <2>1. cmd_cpt' \in 0 .. NbWords
    BY <1>4, <1>5 DEF CmdGoesOn, BurstShape, CmdTypes
  <2>2. QED BY <1>1, <1>5, <2>1 DEF CmdGoesOn, CmdTypes
<1>6. CASE CmdSends(ack)
  <2>1. cmd_cpt' \in 0 .. NbWords
    <3>1. \A n \in Word : n + 1 \in 0 .. NbWords
      BY StoresAssumption DEF Word
    <3>2. QED BY <1>6, <3>1 DEF CmdSends, Sends, CmdTypes
  <2>2. QED BY <1>1, <1>6, <2>1 DEF CmdSends, CmdTypes
<1>7. QED BY <1>1, <1>2, <1>3, <1>5, <1>6 DEF CmdSteps

(* The slot that is being sent waits for its last word.                    *)
LEMMA LockedKept ==
  ASSUME StoreTypes, DataTypes, ServedData, CmdTypes, NetTypes, BurstShape, WritesPlaced, RspShape,
         NEW locks, NEW ack, NEW served, NEW flit, Ticks(locks, ack, served, flit),
         NEW s \in Slot, wbuf[s].st = "LOCKED", ~BurstSent(ack)
  PROVE  wbuf'[s] = wbuf[s]
<1>1. SlotSteps(s, ack, flit)
  BY SlotStep
<1>2. QED BY <1>1 DEF SlotSteps, SlotKept, SlotLocked, SlotWritten, SlotSent, SlotDone, Accepts, Busy

(* A command enters the network when its last word is sent, and leaves it  *)
(* when its target serves it.                                              *)
LEMMA NetworkIs ==
  ASSUME NEW locks, NEW ack, NEW served, NEW flit, Ticks(locks, ack, served, flit)
  PROVE  /\ net' = IF Sends(ack) THEN Append(IF served = 0 THEN net ELSE Without(served), Packet)
                   ELSE IF served = 0 THEN net ELSE Without(served)
         /\ burst' = IF Sends(ack) THEN NoBurst
                     ELSE IF cmd_fsm /= "IDLE" /\ ack THEN Sent ELSE burst
BY DEF Ticks, Cycle, Network, Sends, Cmdval

(* A cycle keeps the burst the words of the slot that have been sent.      *)
LEMMA BurstShapeKept ==
  ASSUME StoreTypes, DataTypes, ServedData, CmdTypes, NetTypes, WbufShape, BurstShape, WritesPlaced, RspShape,
         NEW locks, NEW ack, NEW served, NEW flit, Ticks(locks, ack, served, flit)
  PROVE  BurstShape' /\ burst' \in Burst
<1>1. CmdSteps(Updated(locks), ack) /\ ack \in BOOLEAN
  BY CmdOf, CmdStep
<1>2. NoBurst \in Burst
  BY DEF NoBurst, Burst
<1>3. \A w \in Word : NoBurst[w] = Hole
  BY DEF NoBurst
<1>4. CASE CmdRests \/ \E type \in ReadType : CmdTakes(type)
  <2>1. cmd_fsm = "IDLE" /\ cmd_fsm' /= "DATA_WRITE"
    BY <1>4 DEF CmdRests, CmdTakes, ReadType
  <2>2. burst' = burst
    BY <2>1, NetworkIs DEF Sends
  <2>3. QED BY <1>2, <2>1, <2>2 DEF BurstShape
<1>5. CASE CmdStarts(Updated(locks))
  <2>1. cmd_fsm = "IDLE" /\ cmd_fsm' = "DATA_WRITE"
    BY <1>5 DEF CmdStarts
  <2>2. burst' = NoBurst
    BY <2>1, NetworkIs DEF Sends, BurstShape
  <2>3. /\ wbuf'[cmd_slot'].st = "LOCKED" /\ cmd_cpt' <= cmd_max'
        /\ \A w \in Word : w < cmd_cpt' \/ w > cmd_max' => wbuf'[cmd_slot'].data[w] = Hole
    BY <1>5, StartIs
  <2>4. QED BY <1>2, <1>3, <2>1, <2>2, <2>3 DEF BurstShape
<1>6. CASE CmdWaits(ack)
  <2>1. burst' = burst /\ ~BurstSent(ack)
    BY <1>6, NetworkIs DEF CmdWaits, Sends, BurstSent
  <2>2. cmd_fsm = "DATA_WRITE" => wbuf'[cmd_slot] = wbuf[cmd_slot]
    BY <2>1, LockedKept DEF BurstShape, CmdTypes
  <2>3. burst \in Burst
    BY DEF NetTypes
  <2>4. QED BY <1>6, <2>1, <2>2, <2>3 DEF CmdWaits, CmdSame, BurstShape
<1>7. CASE CmdGoesOn(ack)
  <2>1. cmd_fsm = "DATA_WRITE" /\ ~Sends(ack) /\ ~BurstSent(ack) /\ ack
    BY <1>7 DEF CmdGoesOn, Sends, BurstSent
  <2>2. burst' = [burst EXCEPT ![cmd_cpt] = wbuf[cmd_slot].data[cmd_cpt]]
    BY <2>1, NetworkIs DEF Sent
  <2>3. wbuf'[cmd_slot] = wbuf[cmd_slot]
    BY <2>1, LockedKept DEF BurstShape, CmdTypes
  <2>4. cmd_cpt \in Word /\ cmd_cpt + 1 <= cmd_max
    <3>1. \A m \in 0 .. NbWords : \A n \in Word : m <= n /\ m /= n => m \in Word /\ m + 1 <= n
      BY StoresAssumption DEF Word
    <3>2. QED BY <1>7, <2>1, <3>1 DEF CmdGoesOn, BurstShape, CmdTypes
  <2>5. burst \in Burst /\ wbuf[cmd_slot].data \in Burst
    BY SlotTyped DEF NetTypes, CmdTypes, SlotType
  <2>6. burst' \in Burst
        /\ \A w \in Word : burst'[w] = IF w = cmd_cpt THEN wbuf[cmd_slot].data[w] ELSE burst[w]
    BY <2>2, <2>4, <2>5 DEF Burst
  <2>7. \A w \in Word : w < cmd_cpt + 1 <=> w < cmd_cpt \/ w = cmd_cpt
    BY <2>4 DEF Word
  <2>8. \A w \in Word : burst'[w] = IF w < cmd_cpt + 1 THEN wbuf[cmd_slot].data[w] ELSE Hole
    <3>1. \A w \in Word : burst[w] = IF w < cmd_cpt THEN wbuf[cmd_slot].data[w] ELSE Hole
      BY <2>1 DEF BurstShape
    <3>2. QED BY <2>6, <2>7, <3>1
  <2>9. cmd_fsm' = "DATA_WRITE" /\ cmd_cpt' = cmd_cpt + 1 /\ cmd_slot' = cmd_slot /\ cmd_max' = cmd_max
    BY <1>7 DEF CmdGoesOn
  <2>10. wbuf[cmd_slot].st = "LOCKED" /\ \A w \in Word : w > cmd_max => wbuf[cmd_slot].data[w] = Hole
    BY <2>1 DEF BurstShape
  <2>11. QED BY <2>3, <2>4, <2>6, <2>8, <2>9, <2>10 DEF BurstShape
<1>8. CASE CmdSends(ack)
  BY <1>2, <1>8, NetworkIs DEF CmdSends, BurstShape
<1>9. QED BY <1>1, <1>4, <1>5, <1>6, <1>7, <1>8 DEF CmdSteps

(* The command that the CMD machine sends.                                 *)
PacketSlot == IF cmd_fsm = "DATA_WRITE" THEN cmd_slot ELSE 0

(* The packet that enters the network asks for what its cache waits for.   *)
LEMMA PacketIs ==
  ASSUME StoreTypes, DataTypes, InsTypes, ServedData, ServedIns, CmdTypes, NetTypes, WbufShape, BurstShape,
         OncePlaced, DataTraffic, InsTraffic, NEW ack, Sends(ack)
  PROVE  /\ Packet \in PacketSet /\ Asks(Packet)
         /\ Packet.trdid = [type |-> cmd_fsm, slot |-> PacketSlot]
         /\ cmd_fsm = "DATA_WRITE" => /\ Packet.write /\ Packet.line = wbuf[cmd_slot].line
                                      /\ \A w \in Word : Packet.words[w] = wbuf[cmd_slot].data[w]
<1>1. cmd_fsm \in {"DATA_WRITE", "DATA_MISS", "DATA_UNC", "INS_MISS", "INS_UNC"}
  BY DEF CmdTypes, ReadType, Sends
<1>2. [type |-> cmd_fsm, slot |-> PacketSlot] \in TrdidSet
  BY <1>1, Zero DEF PacketSlot, TrdidSet, ReadType, CmdTypes
<1>3. CASE cmd_fsm = "DATA_WRITE"
  <2>1. Packet = [trdid |-> [type |-> "DATA_WRITE", slot |-> cmd_slot], line |-> wbuf[cmd_slot].line,
                  write |-> TRUE, words |-> Sent]
    BY <1>3 DEF Packet, Trdid
  <2>2. wbuf[cmd_slot].line \in Line /\ wbuf[cmd_slot].data \in Burst /\ cmd_cpt = cmd_max /\ cmd_cpt \in Word
    <3>1. wbuf[cmd_slot].line \in CacheableLine
      BY <1>3 DEF BurstShape, WbufShape, Busy, CmdTypes
    <3>2. QED BY <1>3, <3>1, SlotTyped, StoresAssumption DEF CmdTypes, SlotType, Sends
  <2>3. Sent \in Burst /\ \A w \in Word : Sent[w] = IF w = cmd_cpt THEN wbuf[cmd_slot].data[w] ELSE burst[w]
    BY <2>2 DEF Sent, Burst, NetTypes
  <2>4. \A w \in Word : w < cmd_cpt \/ w = cmd_cpt \/ w > cmd_max
    BY <2>2 DEF Word
  <2>5. \A w \in Word : Sent[w] = wbuf[cmd_slot].data[w]
    <3>1. \A w \in Word : /\ w > cmd_max => wbuf[cmd_slot].data[w] = Hole
                          /\ burst[w] = IF w < cmd_cpt THEN wbuf[cmd_slot].data[w] ELSE Hole
      BY <1>3 DEF BurstShape
    <3>2. QED BY <2>3, <2>4, <3>1
  <2>6. Packet \in PacketSet
    BY <1>2, <1>3, <2>1, <2>2, <2>3 DEF PacketSet, PacketSlot
  <2>7. Asks(Packet)
    BY <2>1 DEF Asks, ReadType
  <2>8. QED BY <1>3, <2>1, <2>5, <2>6, <2>7 DEF PacketSlot
<1>4. ASSUME NEW type \in ReadType, cmd_fsm = type
      PROVE  Place(type) = "cmd" /\ PacketSlot = 0
  BY <1>4 DEF OncePlaced, AtCmd, PacketSlot, ReadType
<1>5. Word \in {Word} \cup {{w} : w \in Word}
  OBVIOUS
<1>6. CASE cmd_fsm = "DATA_MISS"
  <2>1. Packet = [trdid |-> [type |-> "DATA_MISS", slot |-> 0], line |-> d_addr.line, write |-> FALSE, words |-> Word]
    BY <1>6 DEF Packet, Trdid
  <2>2. d_fsm \in Missing
    BY <1>4, <1>6 DEF DataTraffic, ReadType
  <2>3. d_addr.line \in Line
    BY <2>2, StoresAssumption DEF ServedData, Cacheable
  <2>4. Packet \in PacketSet
    BY <1>2, <1>4, <1>6, <2>1, <2>3 DEF PacketSet, ReadType
  <2>5. Asks(Packet)
    BY <2>1 DEF Asks
  <2>6. QED BY <1>4, <1>6, <2>1, <2>4, <2>5 DEF ReadType
<1>7. CASE cmd_fsm = "INS_MISS"
  <2>1. Packet = [trdid |-> [type |-> "INS_MISS", slot |-> 0], line |-> i_addr.line, write |-> FALSE, words |-> Word]
    BY <1>7 DEF Packet, Trdid
  <2>2. i_fsm \in Missing
    BY <1>4, <1>7 DEF InsTraffic, ReadType
  <2>3. i_addr.line \in Line
    BY <2>2, StoresAssumption DEF ServedIns, Cacheable
  <2>4. Packet \in PacketSet
    BY <1>2, <1>4, <1>7, <2>1, <2>3 DEF PacketSet, ReadType
  <2>5. Asks(Packet)
    BY <2>1 DEF Asks
  <2>6. QED BY <1>4, <1>7, <2>1, <2>4, <2>5 DEF ReadType
<1>8. CASE cmd_fsm = "INS_UNC"
  <2>1. Packet = [trdid |-> [type |-> "INS_UNC", slot |-> 0], line |-> i_addr.line, write |-> FALSE,
                  words |-> {i_addr.word}]
    BY <1>8 DEF Packet, Trdid
  <2>2. i_fsm = "UNC_WAIT"
    BY <1>4, <1>8 DEF InsTraffic, ReadType
  <2>3. i_addr \in Addr
    <3>1. ireq.valid /\ ireq.addr = i_addr
      BY <2>2 DEF ServedIns
    <3>2. QED BY <3>1, FetchIs
  <2>4. Packet \in PacketSet
    BY <1>2, <1>4, <1>8, <2>1, <2>3 DEF PacketSet, ReadType, Addr
  <2>5. Asks(Packet)
    BY <2>1 DEF Asks
  <2>6. QED BY <1>4, <1>8, <2>1, <2>4, <2>5 DEF ReadType
<1>9. CASE cmd_fsm = "DATA_UNC"
  <2>1. d_fsm = "UNC_WAIT"
    BY <1>4, <1>9 DEF DataTraffic, ReadType
  <2>2. d_type \in {"READ", "LL", "WRITE", "SC"} /\ d_addr \in Addr
        /\ (d_type \in {"WRITE", "SC"} => d_wdata \in Bit)
    BY <2>1, RequestIs DEF ServedData
  <2>3. CASE d_type \in {"WRITE", "SC"}
    <3>1. Packet = [trdid |-> [type |-> "DATA_UNC", slot |-> 0], line |-> d_addr.line, write |-> TRUE,
                    words |-> OneWord(d_addr, d_wdata)]
      BY <1>9, <2>3 DEF Packet, Trdid
    <3>2. OneWord(d_addr, d_wdata) \in Burst
      BY <2>2, <2>3 DEF OneWord, Burst
    <3>3. Packet \in PacketSet
      BY <1>2, <1>4, <1>9, <2>2, <3>1, <3>2 DEF PacketSet, ReadType, Addr
    <3>4. Asks(Packet)
      BY <2>3, <3>1 DEF Asks
    <3>5. QED BY <1>4, <1>9, <3>1, <3>3, <3>4 DEF ReadType
  <2>4. CASE d_type \in {"READ", "LL"}
    <3>1. Packet = [trdid |-> [type |-> "DATA_UNC", slot |-> 0], line |-> d_addr.line, write |-> FALSE,
                    words |-> {d_addr.word}]
      BY <1>9, <2>4 DEF Packet, Trdid
    <3>2. Packet \in PacketSet
      BY <1>2, <1>4, <1>9, <2>2, <3>1 DEF PacketSet, ReadType, Addr
    <3>3. Asks(Packet)
      BY <2>4, <3>1 DEF Asks
    <3>4. QED BY <1>4, <1>9, <3>1, <3>2, <3>3 DEF ReadType
  <2>5. QED BY <2>2, <2>3, <2>4
<1>10. QED BY <1>1, <1>3, <1>6, <1>7, <1>8, <1>9

(* The commands on their way, without the one a target executes.           *)
LEMMA WithoutIs ==
  ASSUME NetTypes, NEW k \in DOMAIN net
  PROVE  /\ Without(k) \in Seq(PacketSet) /\ DOMAIN Without(k) = 1 .. Len(net) - 1
         /\ \A n \in 1 .. Len(net) - 1 : Without(k)[n] = IF n < k THEN net[n] ELSE net[n + 1]
<1>1. DOMAIN net = 1 .. Len(net) /\ Len(net) \in Nat /\ k \in 1 .. Len(net)
  BY DomainIs DEF NetTypes
<1>2. Len(net) - 1 \in Nat
  BY <1>1
<1>3. \A n \in 1 .. Len(net) - 1 : n \in DOMAIN net /\ n + 1 \in DOMAIN net
  BY <1>1
<1>4. \A n \in 1 .. Len(net) - 1 : net[n] \in PacketSet /\ net[n + 1] \in PacketSet
  BY <1>3 DEF NetTypes
<1>5. QED BY <1>2, <1>4 DEF Without

Left(served) == IF served = 0 THEN net ELSE Without(served)

LeftShape(served, left) ==
  /\ left \in Seq(PacketSet)
  /\ \A p : (\E n \in DOMAIN left : left[n] = p) <=> p \in InFlight /\ (served /= 0 => p /= net[served])
  /\ \A j, k \in DOMAIN left : left[j].trdid = left[k].trdid => j = k

(* The commands that a target leaves in the network.                       *)
LEMMA LeftIs ==
  ASSUME NetTypes, NetDistinct, NEW served \in {0} \cup DOMAIN net,
         NEW left, left = Left(served)
  PROVE  LeftShape(served, left)
<1>1. CASE served = 0
  BY <1>1 DEF Left, LeftShape, NetTypes, NetDistinct, InFlight
<1>2. CASE served /= 0
  <2>1. DOMAIN net = 1 .. Len(net) /\ Len(net) \in Nat /\ served \in 1 .. Len(net)
    BY <1>2, DomainIs DEF NetTypes
  <2>2. /\ left \in Seq(PacketSet) /\ DOMAIN left = 1 .. Len(net) - 1
        /\ \A n \in 1 .. Len(net) - 1 : left[n] = IF n < served THEN net[n] ELSE net[n + 1]
    BY <1>2, <2>1, WithoutIs DEF Left
  <2> DEFINE At(n) == IF n < served THEN n ELSE n + 1
  <2>3. \A n \in DOMAIN left : At(n) \in DOMAIN net /\ At(n) /= served /\ left[n] = net[At(n)]
    BY <2>1, <2>2
  <2>4. \A j, k \in DOMAIN left : At(j) = At(k) => j = k
    BY <2>1, <2>2
  <2>5. \A m \in DOMAIN net : m /= served => \E n \in DOMAIN left : At(n) = m
    <3>1. ASSUME NEW m \in DOMAIN net, m /= served
          PROVE  \E n \in DOMAIN left : At(n) = m
      <4>1. CASE m < served
        <5>1. m \in DOMAIN left /\ At(m) = m
          BY <2>1, <2>2, <4>1
        <5>2. QED BY <5>1
      <4>2. CASE ~(m < served)
        <5>1. m - 1 \in DOMAIN left /\ At(m - 1) = m
          BY <2>1, <2>2, <3>1, <4>2
        <5>2. QED BY <5>1
      <4>3. QED BY <4>1, <4>2
    <3>2. QED BY <3>1
  <2> HIDE DEF At
  <2>6. \A j, k \in DOMAIN left : left[j].trdid = left[k].trdid => j = k
    BY <2>3, <2>4 DEF NetDistinct
  <2>7. ASSUME NEW n \in DOMAIN left
        PROVE  left[n] \in InFlight /\ left[n] /= net[served]
    <3>1. net[At(n)] /= net[served]
      BY <2>1, <2>3 DEF NetDistinct
    <3>2. QED BY <2>3, <3>1 DEF InFlight
  <2>8. ASSUME NEW p \in InFlight, p /= net[served]
        PROVE  \E n \in DOMAIN left : left[n] = p
    <3>1. PICK m \in DOMAIN net : net[m] = p
      BY DEF InFlight
    <3>2. PICK n \in DOMAIN left : At(n) = m
      BY <2>5, <2>8, <3>1
    <3>3. QED BY <2>3, <3>1, <3>2
  <2>9. QED BY <1>2, <2>2, <2>6, <2>7, <2>8 DEF LeftShape
<1>3. QED BY <1>1, <1>2

(* The type of a command on its way.                                       *)
LEMMA InFlightIs ==
  ASSUME NetTypes, NEW p \in InFlight
  PROVE  p \in PacketSet /\ p.trdid \in TrdidSet /\ p.line \in Line /\ p.write \in BOOLEAN
<1>1. PICK k \in DOMAIN net : p = net[k]
  BY DEF InFlight
<1>2. p \in PacketSet
  BY <1>1 DEF NetTypes
<1>3. QED BY <1>2 DEF PacketSet

(* The type of the first word of a response.                               *)
LEMMA RspTrdid ==
  ASSUME NetTypes, rsp /= <<>>
  PROVE  rsp[1] \in FlitSet /\ rsp[1].trdid \in TrdidSet /\ rsp[1].error \in BOOLEAN
<1>1. rsp[1] \in FlitSet
  BY FirstIs DEF NetTypes
<1>2. QED BY <1>1 DEF FlitSet

(* The command sent is not there yet.                                      *)
LEMMA PacketNew ==
  ASSUME StoreTypes, DataTypes, InsTypes, ServedData, ServedIns, CmdTypes, NetTypes, WbufShape, BurstShape,
         OncePlaced, WritesPlaced, PacketsAsk, DataTraffic, InsTraffic, NEW ack, Sends(ack)
  PROVE  /\ \A p \in InFlight : p.trdid /= Packet.trdid
         /\ rsp /= <<>> => Packet.trdid /= rsp[1].trdid
<1>1. Packet.trdid.type = cmd_fsm /\ Packet.trdid.slot = PacketSlot
  BY PacketIs
<1>2. CASE cmd_fsm = "DATA_WRITE"
  <2>1. Packet.trdid.slot = cmd_slot /\ wbuf[cmd_slot].st = "LOCKED"
    BY <1>1, <1>2 DEF PacketSlot, BurstShape
  <2>2. QED BY <1>1, <1>2, <2>1 DEF WritesPlaced, AtRsp
<1>3. CASE cmd_fsm \in ReadType
  <2>1. AtCmd(cmd_fsm) /\ Place(cmd_fsm) = "cmd"
    BY <1>3 DEF AtCmd, OncePlaced
  <2>2. ~AtNet(cmd_fsm) /\ ~AtRsp(cmd_fsm)
    BY <1>3, <2>1 DEF OncePlaced
  <2>3. QED BY <1>1, <2>2 DEF AtNet, AtRsp
<1>4. QED BY <1>2, <1>3 DEF CmdTypes, Sends

NetSteps(served, ack) ==
  /\ served \in {0} \cup DOMAIN net
  /\ net' \in Seq(PacketSet)
  /\ \A p : p \in InFlight' <=> \/ p \in InFlight /\ (served /= 0 => p /= net[served])
                                \/ Sends(ack) /\ p = Packet

(* The network gains at most one command and loses at most one in a cycle, *)
(* and no two bear the same mark.                                          *)
LEMMA NetStep ==
  ASSUME StoreTypes, DataTypes, InsTypes, ServedData, ServedIns, CmdTypes, NetTypes, WbufShape, BurstShape,
         OncePlaced, WritesPlaced, PacketsAsk, NetDistinct, DataTraffic, InsTraffic,
         NEW locks, NEW ack, NEW served, NEW flit, Ticks(locks, ack, served, flit)
  PROVE  NetSteps(served, ack) /\ \A j, k \in DOMAIN net' : net'[j].trdid = net'[k].trdid => j = k
<1>1. served \in {0} \cup DOMAIN net
  BY DEF Ticks, Serviceable
<1>2. PICK l : l = Left(served)
  OBVIOUS
<1>3. /\ l \in Seq(PacketSet)
      /\ \A p : (\E n \in DOMAIN l : l[n] = p) <=> p \in InFlight /\ (served /= 0 => p /= net[served])
      /\ \A j, k \in DOMAIN l : l[j].trdid = l[k].trdid => j = k
  <2>1. LeftShape(served, l)
    BY <1>1, <1>2, LeftIs
  <2>2. QED BY <2>1 DEF LeftShape
<1>4. net' = IF Sends(ack) THEN Append(l, Packet) ELSE l
  BY <1>2, NetworkIs DEF Left
<1>5. \A p : p \in InFlight' <=> \E n \in DOMAIN net' : net'[n] = p
  BY DEF InFlight
<1>6. CASE ~Sends(ack)
  BY <1>1, <1>3, <1>4, <1>5, <1>6 DEF NetSteps
<1>7. CASE Sends(ack)
  <2>1. Packet \in PacketSet /\ net' = Append(l, Packet)
    BY <1>4, <1>7, PacketIs
  <2>2. /\ net' \in Seq(PacketSet) /\ Len(net') = Len(l) + 1
        /\ \A n \in 1 .. Len(l) : net'[n] = l[n]
        /\ net'[Len(l) + 1] = Packet
    BY <1>3, <2>1, AppendIs
  <2>3. DOMAIN l = 1 .. Len(l) /\ Len(l) \in Nat /\ DOMAIN net' = 1 .. Len(l) + 1
    BY <1>3, <2>2, DomainIs
  <2>4. \A n \in DOMAIN net' : n \in DOMAIN l \/ n = Len(l) + 1
    BY <2>3
  <2>5. \A n \in DOMAIN l : n \in DOMAIN net' /\ net'[n] = l[n]
    BY <2>2, <2>3
  <2>6. Len(l) + 1 \in DOMAIN net'
    BY <2>3
  <2>7. \A p : p \in InFlight' <=> (\E n \in DOMAIN l : l[n] = p) \/ p = Packet
    BY <1>5, <2>2, <2>4, <2>5, <2>6
  <2>8. \A n \in DOMAIN l : l[n].trdid /= Packet.trdid
    BY <1>3, <1>7, PacketNew
  <2>9. \A j, k \in DOMAIN net' : net'[j].trdid = net'[k].trdid => j = k
    BY <1>3, <2>2, <2>4, <2>5, <2>8
  <2>10. QED BY <1>1, <1>3, <1>7, <2>2, <2>7, <2>9 DEF NetSteps
<1>8. QED BY <1>6, <1>7

(* The response, seen from the commands.                                   *)
LEMMA RspFirst ==
  ASSUME NetTypes, RspTypes, MemTypes, RspShape, PacketsAsk, WritesPlaced,
         NEW served, NEW flit, RspSteps(served, flit), rsp' /= <<>>
  PROVE  \/ rsp /= <<>> /\ served = 0 /\ rsp'[1].trdid = rsp[1].trdid
         \/ rsp = <<>> /\ served \in DOMAIN net /\ rsp' = Flits(net[served]) /\ rsp'[1].trdid = net[served].trdid
<1>1. CASE RspStill(served, flit) \/ RspStarts(served, flit)
  <2>1. rsp' = rsp /\ served = 0
    BY <1>1 DEF RspStill, RspStarts
  <2>2. QED BY <2>1
<1>2. CASE RspServed(served, flit)
  <2>1. rsp = <<>> /\ rsp' = Flits(net[served]) /\ served \in DOMAIN net /\ net[served] \in PacketSet
    BY <1>2 DEF RspServed, NetTypes
  <2>2. /\ rsp' \in Seq(FlitSet)
        /\ \A n \in 1 .. Len(rsp') : rsp'[n].trdid = net[served].trdid
    BY <2>1, FlitsIs
  <2>3. 1 \in DOMAIN rsp' /\ DOMAIN rsp' = 1 .. Len(rsp')
    BY <2>2, FirstIs, DomainIs
  <2>4. QED BY <2>1, <2>2, <2>3
<1>3. CASE RspTakes(served, flit)
  <2>1. rsp /= <<>> /\ served = 0 /\ rsp' = Tail(rsp)
    BY <1>3 DEF RspTakes, AtRsp
  <2>2. /\ rsp' \in Seq(FlitSet) /\ Len(rsp') = Len(rsp) - 1 /\ Len(rsp) \in Nat
        /\ \A n \in 1 .. Len(rsp) - 1 : rsp'[n] = rsp[n + 1]
    BY <2>1, TailIs DEF NetTypes
  <2>3. 1 \in 1 .. Len(rsp) - 1 /\ 1 + 1 \in DOMAIN rsp
    <3>1. Len(rsp') \in Nat /\ Len(rsp') >= 1
      BY <2>2, FirstIs
    <3>2. DOMAIN rsp = 1 .. Len(rsp)
      BY DomainIs DEF NetTypes
    <3>3. \A m, n \in Nat : m = n - 1 /\ m >= 1 => 1 \in 1 .. n - 1 /\ 1 + 1 \in 1 .. n
      OBVIOUS
    <3>4. QED BY <2>2, <3>1, <3>2, <3>3
  <2>4. rsp[1 + 1].trdid = rsp[1].trdid
    BY <2>3 DEF RspShape
  <2>5. QED BY <2>1, <2>2, <2>3, <2>4
<1>4. QED BY <1>1, <1>2, <1>3 DEF RspSteps

(* A cycle keeps every mark on at most one command or response.            *)
LEMMA NetDistinctKept ==
  ASSUME StoreTypes, DataTypes, InsTypes, ServedData, ServedIns, CmdTypes, RspTypes, NetTypes, MemTypes,
         WbufShape, BurstShape, RspShape,
         OncePlaced, WritesPlaced, PacketsAsk, NetDistinct, DataTraffic, InsTraffic,
         NEW locks, NEW ack, NEW served, NEW flit, Ticks(locks, ack, served, flit)
  PROVE  NetDistinct'
<1>1. NetSteps(served, ack) /\ \A j, k \in DOMAIN net' : net'[j].trdid = net'[k].trdid => j = k
  BY NetStep
<1>2. RspSteps(served, flit)
  BY RspStep
<1>3. ASSUME rsp' /= <<>>, NEW p \in InFlight'
      PROVE  p.trdid /= rsp'[1].trdid
  <2>1. CASE rsp /= <<>> /\ served = 0 /\ rsp'[1].trdid = rsp[1].trdid
    BY <1>1, <1>3, <2>1, PacketNew DEF NetSteps, NetDistinct
  <2>2. CASE rsp = <<>> /\ served \in DOMAIN net /\ rsp'[1].trdid = net[served].trdid
    <3>1. served /= 0 /\ net[served] \in InFlight
      <4>1. DOMAIN net = 1 .. Len(net) /\ Len(net) \in Nat
        BY DomainIs DEF NetTypes
      <4>2. QED BY <2>2, <4>1 DEF InFlight
    <3>2. CASE p \in InFlight /\ p /= net[served]
      <4>1. PICK k \in DOMAIN net : p = net[k]
        BY <3>2 DEF InFlight
      <4>2. QED BY <2>2, <3>2, <4>1 DEF NetDistinct
    <3>3. CASE Sends(ack) /\ p = Packet
      BY <2>2, <3>1, <3>3, PacketNew
    <3>4. QED BY <1>1, <1>3, <3>1, <3>2, <3>3 DEF NetSteps
  <2>3. QED BY <1>2, <1>3, <2>1, <2>2, RspFirst
<1>4. QED BY <1>1, <1>3 DEF NetDistinct

(* Write commands and their slots.                                         *)
LEMMA WritesPlacedKept ==
  ASSUME StoreTypes, DataTypes, InsTypes, ServedData, ServedIns, CmdTypes, RspTypes, NetTypes, MemTypes,
         WbufShape, BurstShape, RspShape,
         OncePlaced, WritesPlaced, PacketsAsk, NetDistinct, DataTraffic, InsTraffic,
         NEW locks, NEW ack, NEW served, NEW flit, Ticks(locks, ack, served, flit)
  PROVE  WritesPlaced'
<1>1. NetSteps(served, ack) /\ RspSteps(served, flit)
  BY NetStep, RspStep
<1>2. \A s \in Slot : SlotSteps(s, ack, flit)
  BY SlotStep
<1>3. ASSUME NEW s \in Slot, wbuf[s].st = "SENT", ~(WriteDone(flit) /\ s = flit.trdid.slot)
      PROVE  wbuf'[s] = wbuf[s]
  BY <1>2, <1>3 DEF SlotSteps, SlotKept, SlotLocked, SlotWritten, SlotSent, SlotDone, Accepts, Busy
<1>4. \A p \in InFlight : p.trdid \in TrdidSet /\ p.trdid.slot \in Slot
  BY InFlightIs DEF TrdidSet
<1>5. WriteDone(flit) => rsp /= <<>> /\ flit = rsp[1] /\ rsp[1].trdid.type = "DATA_WRITE" /\ served = 0
  <2>1. WriteDone(flit) => RspTakes(served, flit)
    BY <1>1 DEF RspSteps, RspStill, RspServed, RspStarts, NoPut
  <2>2. QED BY <2>1 DEF RspTakes, AtRsp
<1>6. ASSUME NEW p \in InFlight, p.trdid.type = "DATA_WRITE"
      PROVE  wbuf'[p.trdid.slot] = wbuf[p.trdid.slot] /\ wbuf[p.trdid.slot].st = "SENT"
  <2>1. wbuf[p.trdid.slot].st = "SENT" /\ p.trdid.slot \in Slot
    BY <1>4, <1>6 DEF WritesPlaced
  <2>2. ~(WriteDone(flit) /\ p.trdid.slot = flit.trdid.slot)
    <3>1. SUFFICES ASSUME WriteDone(flit), p.trdid.slot = flit.trdid.slot PROVE FALSE
      OBVIOUS
    <3>2. p.trdid \in TrdidSet /\ rsp[1].trdid \in TrdidSet
      BY <1>4, <1>5, <3>1, RspTrdid
    <3>3. p.trdid = rsp[1].trdid
      BY <1>5, <1>6, <3>1, <3>2 DEF TrdidSet
    <3>4. QED BY <1>5, <3>1, <3>3 DEF NetDistinct
  <2>3. QED BY <1>3, <2>1, <2>2
<1>7. ASSUME NEW p \in InFlight', p.trdid.type = "DATA_WRITE"
      PROVE  p.write /\ wbuf'[p.trdid.slot].st = "SENT" /\ p.line = wbuf'[p.trdid.slot].line
  <2>1. CASE p \in InFlight
    BY <1>6, <1>7, <2>1 DEF WritesPlaced
  <2>2. CASE Sends(ack) /\ p = Packet
    <3>1. cmd_fsm = "DATA_WRITE" /\ p.trdid.slot = cmd_slot /\ p.write /\ p.line = wbuf[cmd_slot].line
      BY <1>7, <2>2, PacketIs DEF PacketSlot
    <3>2. cmd_slot \in Slot /\ BurstSent(ack) /\ wbuf[cmd_slot].st = "LOCKED"
      BY <2>2, <3>1 DEF Sends, BurstSent, CmdTypes, BurstShape
    <3>3. wbuf'[cmd_slot].st = "SENT" /\ wbuf'[cmd_slot].line = wbuf[cmd_slot].line
      BY <3>2, SlotStep DEF SlotSent
    <3>4. QED BY <3>1, <3>3
  <2>3. QED BY <1>1, <1>7, <2>1, <2>2 DEF NetSteps
<1>8. ASSUME rsp' /= <<>>, rsp'[1].trdid.type = "DATA_WRITE"
      PROVE  wbuf'[rsp'[1].trdid.slot].st = "SENT"
  <2>1. CASE rsp /= <<>> /\ served = 0 /\ rsp'[1].trdid = rsp[1].trdid
    <3>1. AtRsp("DATA_WRITE") /\ wbuf[rsp[1].trdid.slot].st = "SENT" /\ rsp[1].trdid.slot \in Slot
      <4>1. rsp[1].trdid \in TrdidSet
        BY <2>1, RspTrdid
      <4>2. QED BY <1>8, <2>1, <4>1 DEF AtRsp, WritesPlaced, TrdidSet
    <3>2. ~WriteDone(flit)
      <4>1. Len(rsp) = 1
        BY <1>8, <2>1 DEF RspShape, BurstState
      <4>2. RspTakes(served, flit) => rsp' = <<>>
        BY <2>1, <4>1, TailIs DEF RspTakes, NetTypes
      <4>3. WriteDone(flit) => RspTakes(served, flit)
        BY <1>1 DEF RspSteps, RspStill, RspServed, RspStarts, NoPut
      <4>4. QED BY <1>8, <4>2, <4>3
    <3>3. QED BY <1>3, <2>1, <3>1, <3>2
  <2>2. CASE rsp = <<>> /\ served \in DOMAIN net /\ rsp'[1].trdid = net[served].trdid
    <3>1. net[served] \in InFlight
      BY <2>2 DEF InFlight
    <3>2. QED BY <1>6, <1>8, <2>2, <3>1
  <2>3. QED BY <1>1, <1>8, <2>1, <2>2, RspFirst
<1>9. QED BY <1>7, <1>8 DEF WritesPlaced, AtRsp

(***************************************************************************)
(* How a read request moves in a cycle.                                    *)
(***************************************************************************)
Chosen(type, served) == served \in DOMAIN net /\ net[served].trdid.type = type

Rests(type, served, ack, flit) ==
  /\ Place(type)' = Place(type) /\ Place(type) /= "rsp"
  /\ Place(type) = "none" => ~Requested(type)
  /\ Place(type) = "cmd" => ~Sends(ack)
Arises(type) == Place(type) = "none" /\ Requested(type) /\ Place(type)' = "req"
Starts(type) == Place(type) = "req" /\ CmdTakes(type) /\ Place(type)' = "cmd"
Leaves(type, ack) == Place(type) = "cmd" /\ Sends(ack) /\ cmd_fsm = type /\ Place(type)' = "net"
Reaches(type, served, flit) == /\ Place(type) = "net" /\ Chosen(type, served) /\ RspServed(served, flit)
                               /\ Place(type)' = "rsp"
Remains(type, flit) == Place(type) = "rsp" /\ rsp' = rsp /\ NoPut(flit) /\ Place(type)' = "rsp"
Gives(type, served, flit) == /\ Place(type) = "rsp" /\ RspTakes(served, flit) /\ rsp_fsm = type
                             /\ Place(type)' = IF Len(rsp) = 1 THEN "none" ELSE "rsp"

Moves(type, served, ack, flit) ==
  \/ Rests(type, served, ack, flit) \/ Arises(type) \/ Starts(type) \/ Leaves(type, ack)
  \/ Reaches(type, served, flit) \/ Remains(type, flit) \/ Gives(type, served, flit)

(* A cache makes a request only when it has none of that kind under way.   *)
LEMMA RequestedIs ==
  ASSUME DataTraffic, InsTraffic, NEW type \in ReadType, Requested(type)
  PROVE  Place(type) = "none"
<1>1. ReadMiss \/ Uncached => d_fsm \in {"IDLE", "WRITE_REQ"}
  BY DEF ReadMiss, Uncached, Considered, Accepted
<1>2. IMiss \/ IUnc => i_fsm = "IDLE"
  BY DEF IMiss, IUnc, Fetched
<1>3. QED BY <1>1, <1>2 DEF Requested, DataTraffic, InsTraffic, Missing

(* There is one command of a kind of read at most.                         *)
LEMMA SameRequest ==
  ASSUME NetTypes, PacketsAsk, NetDistinct, NEW type \in ReadType, NEW p \in InFlight, NEW q \in InFlight,
         p.trdid.type = type, q.trdid.type = type
  PROVE  p = q
<1>1. p.trdid = q.trdid
  BY InFlightIs DEF PacketsAsk, Asks, TrdidSet
<1>2. PICK j \in DOMAIN net, k \in DOMAIN net : p = net[j] /\ q = net[k]
  BY DEF InFlight
<1>3. QED BY <1>1, <1>2 DEF NetDistinct

(* How each place of a read request is entered and left in a cycle.        *)
LEMMA AtStep ==
  ASSUME StoreTypes, DataTypes, InsTypes, ServedData, ServedIns, CmdTypes, RspTypes, NetTypes, MemTypes,
         WbufShape, BurstShape, RspShape,
         OncePlaced, WritesPlaced, PacketsAsk, NetDistinct, DataTraffic, InsTraffic,
         NEW locks, NEW ack, NEW served, NEW flit, Ticks(locks, ack, served, flit),
         NEW type \in ReadType
  PROVE  /\ AtReq(type)' <=> (AtReq(type) \/ Requested(type)) /\ ~CmdTakes(type)
         /\ AtCmd(type)' <=> CmdTakes(type) \/ (AtCmd(type) /\ ~Sends(ack))
         /\ AtNet(type)' <=> (AtNet(type) /\ ~Chosen(type, served)) \/ (AtCmd(type) /\ Sends(ack))
         /\ AtRsp(type)' <=> (AtRsp(type) /\ ~(RspTakes(served, flit) /\ Len(rsp) = 1)) \/ Chosen(type, served)
         /\ Chosen(type, served) => AtNet(type) /\ RspServed(served, flit)
<1>1. CmdSteps(Updated(locks), ack) /\ ack \in BOOLEAN
  BY CmdOf, CmdStep
<1>2. AtReq(type)' <=> (AtReq(type) \/ Requested(type)) /\ ~CmdTakes(type)
  BY CmdOf, CmdStep
<1>3. AtCmd(type)' <=> CmdTakes(type) \/ (AtCmd(type) /\ ~Sends(ack))
  <2>1. CASE cmd_fsm = "IDLE"
    BY <1>1, <2>1 DEF CmdSteps, CmdRests, CmdStarts, CmdTakes, CmdWaits, CmdGoesOn, CmdSends, Sends, AtCmd, ReadType
  <2>2. CASE cmd_fsm /= "IDLE"
    BY <1>1, <2>2 DEF CmdSteps, CmdRests, CmdStarts, CmdTakes, CmdWaits, CmdGoesOn, CmdSends, Sends, AtCmd, ReadType
  <2>3. QED BY <2>1, <2>2
<1>4. NetSteps(served, ack) /\ RspSteps(served, flit)
  BY NetStep, RspStep
<1>5. DOMAIN net = 1 .. Len(net) /\ Len(net) \in Nat
  BY DomainIs DEF NetTypes
<1>6. served \in DOMAIN net => served /= 0 /\ net[served] \in InFlight
  BY <1>5 DEF InFlight
<1>7. served \notin DOMAIN net => served = 0
  BY <1>4 DEF NetSteps
<1>8. Chosen(type, served) => AtNet(type) /\ RspServed(served, flit)
  BY <1>4, <1>6 DEF Chosen, AtNet, RspSteps, RspStill, RspStarts, RspTakes
<1>9. AtNet(type)' <=> (AtNet(type) /\ ~Chosen(type, served)) \/ (AtCmd(type) /\ Sends(ack))
  <2>1. AtNet(type)' <=> \E p \in InFlight' : p.trdid.type = type
    BY DEF AtNet
  <2>2. ASSUME NEW p \in InFlight', p.trdid.type = type
        PROVE  (AtNet(type) /\ ~Chosen(type, served)) \/ (AtCmd(type) /\ Sends(ack))
    <3>1. CASE p \in InFlight /\ (served /= 0 => p /= net[served])
      <4>1. ~Chosen(type, served)
        BY <1>6, <2>2, <3>1, SameRequest DEF Chosen
      <4>2. QED BY <2>2, <3>1, <4>1 DEF AtNet
    <3>2. CASE Sends(ack) /\ p = Packet
      BY <2>2, <3>2, PacketIs DEF AtCmd
    <3>3. QED BY <1>4, <2>2, <3>1, <3>2 DEF NetSteps
  <2>3. ASSUME AtNet(type), ~Chosen(type, served)
        PROVE  AtNet(type)'
    <3>1. PICK p \in InFlight : p.trdid.type = type
      BY <2>3 DEF AtNet
    <3>2. served /= 0 => p /= net[served]
      BY <1>7, <2>3, <3>1 DEF Chosen
    <3>3. p \in InFlight'
      BY <1>4, <3>1, <3>2 DEF NetSteps
    <3>4. QED BY <2>1, <3>1, <3>3
  <2>4. ASSUME AtCmd(type), Sends(ack)
        PROVE  AtNet(type)'
    <3>1. Packet.trdid.type = type
      BY <2>4, PacketIs DEF AtCmd
    <3>2. Packet \in InFlight'
      BY <1>4, <2>4 DEF NetSteps
    <3>3. QED BY <2>1, <3>1, <3>2
  <2>5. QED BY <2>1, <2>2, <2>3, <2>4
<1>10. AtRsp(type)' <=> (AtRsp(type) /\ ~(RspTakes(served, flit) /\ Len(rsp) = 1)) \/ Chosen(type, served)
  <2>1. CASE RspStill(served, flit) \/ RspStarts(served, flit)
    <3>1. rsp' = rsp /\ served = 0 /\ ~Chosen(type, served)
      BY <1>6, <2>1 DEF RspStill, RspStarts, Chosen
    <3>2. RspTakes(served, flit) => Len(rsp) /= 1
      <4>1. RspTakes(served, flit) => Tail(rsp) = rsp /\ rsp /= <<>>
        BY <3>1 DEF RspTakes, AtRsp
      <4>2. RspTakes(served, flit) => Len(rsp) = Len(rsp) - 1 /\ Len(rsp) \in Nat
        BY <4>1, TailIs DEF NetTypes
      <4>3. \A n \in Nat : n /= n - 1
        OBVIOUS
      <4>4. QED BY <4>2, <4>3
    <3>3. QED BY <3>1, <3>2 DEF AtRsp
  <2>2. CASE RspServed(served, flit)
    <3>1. rsp = <<>> /\ served \in DOMAIN net /\ rsp' = Flits(net[served])
      BY <2>2 DEF RspServed
    <3>2. rsp' /= <<>>
      BY <3>1, FlitsIs DEF NetTypes
    <3>3. rsp'[1].trdid = net[served].trdid
      BY <1>4, <3>1, <3>2, RspFirst
    <3>4. QED BY <3>1, <3>2, <3>3 DEF AtRsp, Chosen
  <2>3. CASE RspTakes(served, flit)
    <3>1. rsp /= <<>> /\ rsp' = Tail(rsp) /\ ~Chosen(type, served)
      BY <1>6, <2>3 DEF RspTakes, AtRsp, Chosen
    <3>2. rsp' = <<>> <=> Len(rsp) = 1
      BY <3>1, TailIs DEF NetTypes
    <3>3. rsp' /= <<>> => rsp'[1].trdid = rsp[1].trdid
      BY <1>4, <3>1, RspFirst
    <3>4. QED BY <2>3, <3>1, <3>2, <3>3 DEF AtRsp
  <2>4. QED BY <1>4, <2>1, <2>2, <2>3 DEF RspSteps
<1>11. QED BY <1>2, <1>3, <1>8, <1>9, <1>10

Once(type) ==
  /\ AtReq(type) => Place(type) = "req"
  /\ AtCmd(type) => Place(type) = "cmd"
  /\ AtNet(type) => Place(type) = "net"
  /\ AtRsp(type) => Place(type) = "rsp"

(* A read request makes one of the moves above in a cycle, and stays in    *)
(* one place.                                                              *)
LEMMA PlaceStep ==
  ASSUME StoreTypes, DataTypes, InsTypes, ServedData, ServedIns, CmdTypes, RspTypes, NetTypes, MemTypes,
         WbufShape, BurstShape, RspShape,
         OncePlaced, WritesPlaced, PacketsAsk, NetDistinct, DataTraffic, InsTraffic,
         NEW locks, NEW ack, NEW served, NEW flit, Ticks(locks, ack, served, flit),
         NEW type \in ReadType
  PROVE  Once(type)' /\ Moves(type, served, ack, flit)
<1>1. /\ AtReq(type)' <=> (AtReq(type) \/ Requested(type)) /\ ~CmdTakes(type)
      /\ AtCmd(type)' <=> CmdTakes(type) \/ (AtCmd(type) /\ ~Sends(ack))
      /\ AtNet(type)' <=> (AtNet(type) /\ ~Chosen(type, served)) \/ (AtCmd(type) /\ Sends(ack))
      /\ AtRsp(type)' <=> (AtRsp(type) /\ ~(RspTakes(served, flit) /\ Len(rsp) = 1)) \/ Chosen(type, served)
      /\ Chosen(type, served) => AtNet(type) /\ RspServed(served, flit)
  BY AtStep
<1>2. Once(type) /\ (Requested(type) => Place(type) = "none")
  BY RequestedIs DEF OncePlaced, Once
<1>3. CmdTakes(type) => AtReq(type)
  BY DEF CmdTakes
<1>4. RspSteps(served, flit)
  BY RspStep
<1>5. Place(type)' = IF AtReq(type)' THEN "req" ELSE IF AtCmd(type)' THEN "cmd" ELSE IF AtNet(type)' THEN "net"
                     ELSE IF AtRsp(type)' THEN "rsp" ELSE "none"
  BY DEF Place
<1>6. /\ Place(type) = "none" <=> ~AtReq(type) /\ ~AtCmd(type) /\ ~AtNet(type) /\ ~AtRsp(type)
      /\ Place(type) = "req" <=> AtReq(type)
      /\ Place(type) = "cmd" <=> AtCmd(type)
      /\ Place(type) = "net" <=> AtNet(type)
      /\ Place(type) = "rsp" <=> AtRsp(type)
  BY <1>2 DEF Place, Once
<1>7. Once(type)' <=> /\ AtReq(type)' => Place(type)' = "req"
                      /\ AtCmd(type)' => Place(type)' = "cmd"
                      /\ AtNet(type)' => Place(type)' = "net"
                      /\ AtRsp(type)' => Place(type)' = "rsp"
  BY DEF Once
<1>8. CASE Place(type) = "none"
  BY <1>1, <1>3, <1>5, <1>6, <1>7, <1>8 DEF Moves, Rests, Arises
<1>9. CASE Place(type) = "req"
  <2>1. ~AtCmd(type) /\ ~AtNet(type) /\ ~AtRsp(type) /\ AtReq(type)
    BY <1>6, <1>9
  <2>2. QED BY <1>1, <1>5, <1>7, <1>9, <2>1 DEF Moves, Rests, Starts
<1>10. CASE Place(type) = "cmd"
  <2>1. ~AtReq(type) /\ ~AtNet(type) /\ ~AtRsp(type) /\ AtCmd(type) /\ ~Requested(type) /\ ~CmdTakes(type)
    BY <1>2, <1>3, <1>6, <1>10
  <2>2. QED BY <1>1, <1>5, <1>7, <1>10, <2>1 DEF Moves, Rests, Leaves, AtCmd
<1>11. CASE Place(type) = "net"
  <2>1. ~AtReq(type) /\ ~AtCmd(type) /\ ~AtRsp(type) /\ AtNet(type) /\ ~Requested(type) /\ ~CmdTakes(type)
    BY <1>2, <1>3, <1>6, <1>11
  <2>2. QED BY <1>1, <1>5, <1>7, <1>11, <2>1 DEF Moves, Rests, Reaches
<1>12. CASE Place(type) = "rsp"
  <2>1. ~AtReq(type) /\ ~AtCmd(type) /\ ~AtNet(type) /\ AtRsp(type) /\ ~Requested(type) /\ ~CmdTakes(type)
    BY <1>2, <1>3, <1>6, <1>12
  <2>2. ~RspServed(served, flit)
    BY <2>1 DEF RspServed, AtRsp
  <2>3. CASE RspTakes(served, flit)
    <3>1. rsp_fsm = type
      BY <2>1, <2>3 DEF RspTakes, AtRsp
    <3>2. QED BY <1>1, <1>5, <1>7, <1>12, <2>1, <2>3, <3>1 DEF Moves, Gives
  <2>4. CASE ~RspTakes(served, flit)
    <3>1. rsp' = rsp /\ NoPut(flit)
      BY <1>4, <2>2, <2>4 DEF RspSteps, RspStill, RspStarts
    <3>2. QED BY <1>1, <1>5, <1>7, <1>12, <2>1, <2>4, <3>1 DEF Moves, Remains
  <2>5. QED BY <2>3, <2>4
<1>13. QED BY <1>8, <1>9, <1>10, <1>11, <1>12 DEF Place

(* A cycle keeps every read request in one place.                          *)
LEMMA OncePlacedKept ==
  ASSUME StoreTypes, DataTypes, InsTypes, ServedData, ServedIns, CmdTypes, RspTypes, NetTypes, MemTypes,
         WbufShape, BurstShape, RspShape,
         OncePlaced, WritesPlaced, PacketsAsk, NetDistinct, DataTraffic, InsTraffic,
         NEW locks, NEW ack, NEW served, NEW flit, Ticks(locks, ack, served, flit)
  PROVE  OncePlaced'
<1>1. ASSUME NEW type \in ReadType PROVE Once(type)'
  BY PlaceStep
<1>2. QED BY <1>1 DEF OncePlaced, Once

-----------------------------------------------------------------------------
(* MEMORY.                                                                 *)

(* A cache keeps the address of the request it waits for.                  *)
LEMMA DataHeld ==
  ASSUME DataTypes, ServedData, Dcache, d_fsm \in Missing \cup {"UNC_WAIT"}
  PROVE  /\ ServesMiss \/ ServesUnc
         /\ d_addr' = d_addr /\ d_type' = d_type /\ d_wdata' = d_wdata
         /\ ~Requested("DATA_MISS") /\ ~Requested("DATA_UNC")
<1>1. ~Idles /\ d_fsm \notin {"WRITE_REQ", "WRITE_UPDT", "XTN_HIT", "XTN_INVAL", "XTN_SYNC"}
  BY DEF Idles, Accepted, Missing
<1>2. ServesMiss \/ ServesUnc
  BY <1>1, DataCases DEF TakesRequest, AsksNothing, AsksHit, AsksMiss, AsksUncached, StoresHit, StoresMiss,
     AsksInval, AsksSync, TakesTo, ServesStore, StoreRefused, StoreUpdates, ServesXtn, InvalMisses, InvalHits,
     InvalEnds, SyncEnds, SyncWaits, Stays
<1>3. d_addr' = d_addr /\ d_type' = d_type /\ d_wdata' = d_wdata
  BY <1>2 DEF ServesMiss, MissSelects, MissInvals, MissFails, MissFills, MissEnds, MissWaits,
              ServesUnc, UncFails, UncEnds, UncWaits, Stays
<1>4. ~ReadMiss /\ ~Uncached
  BY <1>1 DEF ReadMiss, Uncached, Considered, Idles
<1>5. QED BY <1>2, <1>3, <1>4 DEF Requested

(* The instruction cache keeps the address of the fetch it waits for.      *)
LEMMA InsHeld ==
  ASSUME InsTypes, ServedIns, Icache, i_fsm \in Missing \cup {"UNC_WAIT"}
  PROVE  /\ InsMisses \/ InsUnc
         /\ i_addr' = i_addr
         /\ ~Requested("INS_MISS") /\ ~Requested("INS_UNC")
<1>1. i_fsm /= "IDLE"
  BY DEF Missing
<1>2. InsMisses \/ InsUnc
  BY <1>1, InsCases DEF InsTakes, FetchesNothing, FetchesHit, FetchesMiss, FetchesUncached, InsStays
<1>3. i_addr' = i_addr
  BY <1>2 DEF InsMisses, InsSelects, InsInvals, InsFails, InsFills, InsEnds, InsWaits,
              InsUnc, InsUncFails, InsUncEnds, InsUncWaits, InsStays
<1>4. ~IMiss /\ ~IUnc
  BY <1>1 DEF IMiss, IUnc, Fetched
<1>5. QED BY <1>2, <1>3, <1>4 DEF Requested

(* A cycle keeps every command on its way at what its cache waits for.     *)
LEMMA PacketsAskKept ==
  ASSUME StoreTypes, DataTypes, InsTypes, ServedData, ServedIns, CmdTypes, RspTypes, NetTypes, MemTypes,
         WbufShape, BurstShape, RspShape,
         OncePlaced, WritesPlaced, PacketsAsk, NetDistinct, DataTraffic, InsTraffic,
         NEW locks, NEW ack, NEW served, NEW flit, Ticks(locks, ack, served, flit)
  PROVE  PacketsAsk'
<1>1. NetSteps(served, ack) /\ Dcache /\ Icache
  BY NetStep DEF Ticks, Cycle
<1>2. ASSUME NEW p \in InFlight'
      PROVE  Asks(p) /\ (p.trdid.type \in ReadType => Place(p.trdid.type) \in {"cmd", "net"})
  <2>1. CASE p \in InFlight
    BY <2>1 DEF PacketsAsk, OncePlaced, AtNet
  <2>2. CASE Sends(ack) /\ p = Packet
    BY <2>2, PacketIs DEF OncePlaced, AtCmd
  <2>3. QED BY <1>1, <2>1, <2>2 DEF NetSteps
<1>3. Place("DATA_MISS") \in {"cmd", "net"} \/ Place("DATA_UNC") \in {"cmd", "net"} =>
        d_addr' = d_addr /\ d_type' = d_type /\ d_wdata' = d_wdata
  BY <1>1, DataHeld DEF DataTraffic, Missing
<1>4. Place("INS_MISS") \in {"cmd", "net"} \/ Place("INS_UNC") \in {"cmd", "net"} => i_addr' = i_addr
  BY <1>1, InsHeld DEF InsTraffic, Missing
<1>5. ASSUME NEW p \in InFlight'
      PROVE  Asks(p)'
  <2>1. Asks(p) /\ (p.trdid.type \in ReadType => Place(p.trdid.type) \in {"cmd", "net"})
    BY <1>2
  <2>2. OneWord(d_addr, d_wdata)' = OneWord(d_addr', d_wdata')
    BY DEF OneWord
  <2>3. CASE p.trdid.type = "DATA_MISS"
    BY <1>3, <2>1, <2>3 DEF Asks, ReadType
  <2>4. CASE p.trdid.type = "DATA_UNC"
    <3>1. d_addr' = d_addr /\ d_type' = d_type /\ d_wdata' = d_wdata
      BY <1>3, <2>1, <2>4 DEF ReadType
    <3>2. OneWord(d_addr, d_wdata)' = OneWord(d_addr, d_wdata)
      BY <3>1 DEF OneWord
    <3>3. QED BY <2>1, <2>4, <3>1, <3>2 DEF Asks
  <2>5. CASE p.trdid.type = "INS_MISS"
    BY <1>4, <2>1, <2>5 DEF Asks, ReadType
  <2>6. CASE p.trdid.type = "INS_UNC"
    BY <1>4, <2>1, <2>6 DEF Asks, ReadType
  <2>7. QED BY <2>1, <2>3, <2>4, <2>5, <2>6 DEF Asks
<1>6. QED BY <1>5 DEF PacketsAsk

(***************************************************************************)
(* What happens to memory in a cycle.                                      *)
(***************************************************************************)
MemKept == mem' = mem /\ dmaDone' = dmaDone
MemWritten(served) ==
  /\ served \in DOMAIN net /\ net[served].write /\ net[served].line \notin ErrorLine /\ dmaDone' = dmaDone
  /\ mem' = [mem EXCEPT ![net[served].line] =
               [w \in Word |-> IF net[served].words[w] = Hole THEN @[w] ELSE net[served].words[w]]]
MemDma ==
  /\ ~dmaDone /\ dmaDone' = TRUE
  /\ mem' = [line \in Line |-> IF line \in DmaLine THEN [w \in Word |-> "new"] ELSE mem[line]]

(* Memory is kept, written by one command, or filled by the transfer of a  *)
(* device.                                                                 *)
LEMMA MemStep ==
  ASSUME NEW locks, NEW ack, NEW served, NEW flit, Ticks(locks, ack, served, flit)
  PROVE  MemKept \/ MemWritten(served) \/ MemDma
<1>1. CASE served = 0
  BY <1>1 DEF Ticks, Cycle, Deliver, Dma, MemKept, MemDma
<1>2. CASE served /= 0
  <2>1. served \in DOMAIN net /\ mem' = Execute(net[served]) /\ dmaDone' = dmaDone
    BY <1>2 DEF Ticks, Cycle, Serve, Serviceable
  <2>2. QED BY <2>1 DEF Execute, MemKept, MemWritten
<1>3. QED BY <1>1, <1>2

(* What a cycle changes in memory, word by word.                           *)
LEMMA MemIs ==
  ASSUME MemTypes, NetTypes,
         NEW locks, NEW ack, NEW served, NEW flit, Ticks(locks, ack, served, flit)
  PROVE  /\ mem' \in [Line -> [Word -> Value]]
         /\ MemWritten(served) =>
              /\ net[served] \in InFlight /\ net[served].words \in Burst /\ net[served].line \in Line
              /\ \A line \in Line : \A w \in Word : mem'[line][w] =
                   IF line = net[served].line /\ net[served].words[w] /= Hole
                   THEN net[served].words[w] ELSE mem[line][w]
         /\ MemDma => \A line \in Line : \A w \in Word :
                        mem'[line][w] = IF line \in DmaLine THEN "new" ELSE mem[line][w]
<1>1. mem \in [Line -> [Word -> Value]] /\ "new" \in Value
  BY BitIsValue DEF MemTypes, Bit
<1>2. ASSUME MemWritten(served)
      PROVE  /\ net[served] \in InFlight /\ net[served].words \in Burst /\ net[served].line \in Line
             /\ mem' \in [Line -> [Word -> Value]]
             /\ \A line \in Line : \A w \in Word : mem'[line][w] =
                   IF line = net[served].line /\ net[served].words[w] /= Hole
                   THEN net[served].words[w] ELSE mem[line][w]
  <2>1. PICK p : p = net[served]
    OBVIOUS
  <2>2. p \in InFlight /\ p \in PacketSet /\ p.write
    BY <1>2, <2>1 DEF MemWritten, InFlight, NetTypes
  <2>3. p.words \in Burst /\ p.line \in Line
    BY <2>2 DEF PacketSet
  <2>4. mem' = [mem EXCEPT ![p.line] = [w \in Word |-> IF p.words[w] = Hole THEN mem[p.line][w] ELSE p.words[w]]]
    BY <1>2, <2>1 DEF MemWritten
  <2>5. [w \in Word |-> IF p.words[w] = Hole THEN mem[p.line][w] ELSE p.words[w]] \in [Word -> Value]
    BY <1>1, <2>3, BitIsValue DEF Burst
  <2>6. mem' \in [Line -> [Word -> Value]]
    BY <1>1, <2>4, <2>5
  <2>7. \A line \in Line : \A w \in Word : mem'[line][w] =
          IF line = p.line /\ p.words[w] /= Hole THEN p.words[w] ELSE mem[line][w]
    BY <1>1, <2>3, <2>4
  <2>8. QED BY <2>1, <2>2, <2>3, <2>6, <2>7
<1>3. ASSUME MemDma
      PROVE  /\ mem' \in [Line -> [Word -> Value]]
             /\ \A line \in Line : \A w \in Word :
                  mem'[line][w] = IF line \in DmaLine THEN "new" ELSE mem[line][w]
  <2>1. mem' = [line \in Line |-> IF line \in DmaLine THEN [w \in Word |-> "new"] ELSE mem[line]]
    BY <1>3 DEF MemDma
  <2>2. [w \in Word |-> "new"] \in [Word -> Value]
    BY <1>1
  <2>3. QED BY <1>1, <2>1, <2>2
<1>4. MemKept => mem' = mem
  BY DEF MemKept
<1>5. QED BY <1>1, <1>2, <1>3, <1>4, MemStep

(* A cycle keeps the types of memory and of the program's record of it.    *)
LEMMA MemTypesKept ==
  ASSUME DataTypes, ServedData, AskedData, MemTypes, NetTypes,
         NEW locks, NEW ack, NEW served, NEW flit, Ticks(locks, ack, served, flit)
  PROVE  MemTypes'
<1>1. Processor /\ program' = program
      /\ fresh' = IF d_fsm \in {"XTN_HIT", "XTN_INVAL"} /\ Drsp.valid /\ dmaDone
                  THEN fresh \cup {d_wdata} ELSE fresh
  BY DEF Ticks, Cycle, Invalidate
<1>2. fresh' \subseteq Line
  BY <1>1, RequestIs DEF ServedData, MemTypes
<1>3. dmaDone' \in BOOLEAN
  BY MemStep DEF MemKept, MemWritten, MemDma, MemTypes
<1>4. mem' \in [Line -> [Word -> Value]]
  BY MemIs
<1>5. expected' \in [Line -> [Word -> Value]]
  BY <1>1, AskedDataKept
<1>6. QED BY <1>1, <1>2, <1>3, <1>4, <1>5 DEF MemTypes

(***************************************************************************)
(* The words of a response that leave the network in a cycle.              *)
(***************************************************************************)
Put(type, served, flit) == RspTakes(served, flit) /\ rsp_fsm = type /\ ~flit.error
Err(type, served, flit) == RspTakes(served, flit) /\ rsp_fsm = type /\ flit.error

(* A word enters the FIFO of a cache, or an error its register, from a     *)
(* response to that cache.                                                 *)
LEMMA PutIs ==
  ASSUME NEW served, NEW flit, RspSteps(served, flit)
  PROVE  /\ DataPut(flit) <=> Put("DATA_MISS", served, flit) \/ Put("DATA_UNC", served, flit)
         /\ DataErrorSet(flit) <=> Err("DATA_MISS", served, flit) \/ Err("DATA_UNC", served, flit)
         /\ InsPut(flit) <=> Put("INS_MISS", served, flit) \/ Put("INS_UNC", served, flit)
         /\ InsErrorSet(flit) <=> Err("INS_MISS", served, flit) \/ Err("INS_UNC", served, flit)
<1>1. CASE RspTakes(served, flit)
  BY <1>1 DEF RspTakes, Put, Err
<1>2. CASE ~RspTakes(served, flit)
  <2>1. NoPut(flit)
    BY <1>2 DEF RspSteps, RspStill, RspServed, RspStarts
  <2>2. QED BY <1>2, <2>1 DEF NoPut, Put, Err
<1>3. QED BY <1>1, <1>2

(* A word that enters a FIFO is the first of a response that waits.        *)
LEMMA PutWhere ==
  ASSUME OncePlaced, NetTypes, NEW type \in ReadType, NEW served, NEW flit,
         Put(type, served, flit) \/ Err(type, served, flit)
  PROVE  Place(type) = "rsp" /\ flit = rsp[1] /\ flit.rdata \in Value \cup {None}
<1>1. AtRsp(type) /\ flit = rsp[1]
  BY DEF Put, Err, RspTakes
<1>2. flit.rdata \in Value \cup {None}
  BY <1>1, RspTrdid DEF AtRsp, FlitSet
<1>3. QED BY <1>1, <1>2 DEF OncePlaced

(* The request is for line, and gets size words unless line has an error.  *)
Sound(type, line) ==
  Place(type) = "rsp" => IF line \in ErrorLine THEN rsp[1].error ELSE \A n \in DOMAIN rsp : ~rsp[n].error

(* A cycle takes one word at most off those on their way to a cache, and   *)
(* none is lost.                                                           *)
LEMMA ComingStep ==
  ASSUME RspTypes, NetTypes, MemTypes, RspShape, OncePlaced, WritesPlaced, PacketsAsk,
         NEW type \in ReadType, NEW line, NEW size \in Nat,
         \A p \in InFlight : p.trdid.type = type => p.line = line /\ (line \notin ErrorLine => Len(Flits(p)) = size),
         Sound(type, line), ~Requested(type),
         NEW served, NEW ack, NEW flit, RspSteps(served, flit), Moves(type, served, ack, flit)
  PROVE  /\ Sound(type, line)'
         /\ line \notin ErrorLine =>
              /\ Coming(type, size)' = IF Put(type, served, flit) THEN Coming(type, size) - 1 ELSE Coming(type, size)
              /\ ~Err(type, served, flit)
         /\ line \in ErrorLine =>
              /\ ~Put(type, served, flit)
              /\ (Place(type) = "none")' <=> Place(type) = "none" \/ Err(type, served, flit)
<1>1. CASE Rests(type, served, ack, flit) \/ Starts(type) \/ Leaves(type, ack) \/ Arises(type)
  <2>1. /\ Place(type) = "none" <=> Place(type)' = "none"
        /\ Place(type) /= "rsp" /\ Place(type)' /= "rsp"
    BY <1>1 DEF Rests, Starts, Leaves, Arises
  <2>2. ~Put(type, served, flit) /\ ~Err(type, served, flit)
    BY <2>1, PutWhere
  <2>3. Coming(type, size)' = Coming(type, size)
    BY <2>1 DEF Coming
  <2>4. QED BY <2>1, <2>2, <2>3 DEF Sound
<1>2. CASE Reaches(type, served, flit)
  <2>1. PICK p : p = net[served]
    OBVIOUS
  <2>2. p \in InFlight /\ p.trdid.type = type /\ rsp' = Flits(p) /\ Place(type) = "net" /\ Place(type)' = "rsp"
    BY <1>2, <2>1 DEF Reaches, Chosen, RspServed, InFlight
  <2>3. p.line = line /\ p \in PacketSet /\ (line \notin ErrorLine => Len(Flits(p)) = size)
    BY <2>2, InFlightIs
  <2>4. /\ rsp' \in Seq(FlitSet) /\ rsp' /= <<>>
        /\ \A n \in 1 .. Len(rsp') : rsp'[n].error <=> line \in ErrorLine
    BY <2>2, <2>3, FlitsIs
  <2>5. DOMAIN rsp' = 1 .. Len(rsp') /\ 1 \in DOMAIN rsp'
    BY <2>4, DomainIs, FirstIs
  <2>6. ~Put(type, served, flit) /\ ~Err(type, served, flit)
    BY <2>2, PutWhere
  <2>7. line \notin ErrorLine => Coming(type, size)' = Coming(type, size)
    BY <2>2, <2>3 DEF Coming
  <2>8. QED BY <2>2, <2>4, <2>5, <2>6, <2>7 DEF Sound
<1>3. CASE Remains(type, flit)
  <2>1. Place(type) = "rsp" /\ Place(type)' = "rsp" /\ rsp' = rsp /\ NoPut(flit)
    BY <1>3 DEF Remains
  <2>2. ~Put(type, served, flit) /\ ~Err(type, served, flit)
    BY <2>1, PutIs DEF NoPut, ReadType
  <2>3. QED BY <2>1, <2>2 DEF Sound, Coming
<1>4. CASE Gives(type, served, flit)
  <2>1. /\ Place(type) = "rsp" /\ RspTakes(served, flit) /\ rsp_fsm = type
        /\ Place(type)' = (IF Len(rsp) = 1 THEN "none" ELSE "rsp")
        /\ rsp /= <<>> /\ flit = rsp[1] /\ rsp' = Tail(rsp)
    BY <1>4 DEF Gives, RspTakes, AtRsp
  <2>2. /\ rsp' \in Seq(FlitSet) /\ Len(rsp') = Len(rsp) - 1 /\ Len(rsp) \in Nat /\ Len(rsp) >= 1
        /\ \A n \in 1 .. Len(rsp) - 1 : rsp'[n] = rsp[n + 1]
    BY <2>1, TailIs DEF NetTypes
  <2>3. DOMAIN rsp = 1 .. Len(rsp) /\ DOMAIN rsp' = 1 .. Len(rsp) - 1 /\ 1 \in DOMAIN rsp
    BY <2>2, DomainIs DEF NetTypes
  <2>4. \A n \in DOMAIN rsp' : n + 1 \in DOMAIN rsp /\ rsp'[n] = rsp[n + 1]
    BY <2>2, <2>3
  <2>5. Put(type, served, flit) <=> ~rsp[1].error
    BY <2>1 DEF Put
  <2>6. Err(type, served, flit) <=> rsp[1].error
    BY <2>1 DEF Err
  <2>7. CASE line \notin ErrorLine
    <3>1. \A n \in DOMAIN rsp : ~rsp[n].error
      BY <2>1, <2>7 DEF Sound
    <3>2. Sound(type, line)'
      BY <2>4, <2>7, <3>1 DEF Sound
    <3>3. Coming(type, size) = Len(rsp) /\ Coming(type, size)' = Len(rsp) - 1
      <4>1. Coming(type, size) = Len(rsp)
        BY <2>1 DEF Coming
      <4>2. CASE Len(rsp) = 1
        BY <2>1, <4>1, <4>2 DEF Coming
      <4>3. CASE Len(rsp) /= 1
        <5>1. Place(type)' = "rsp"
          BY <2>1, <4>3
        <5>2. Coming(type, size)' = Len(rsp')
          BY <5>1 DEF Coming
        <5>3. QED BY <2>2, <4>1, <5>2
      <4>4. QED BY <4>2, <4>3
    <3>4. QED BY <2>3, <2>5, <2>6, <2>7, <3>1, <3>2, <3>3
  <2>8. CASE line \in ErrorLine
    <3>1. rsp[1].error
      BY <2>1, <2>8 DEF Sound
    <3>2. Len(rsp) = 1
      BY <2>3, <3>1 DEF RspShape
    <3>3. QED BY <2>1, <2>5, <2>6, <2>8, <3>1, <3>2 DEF Sound
  <2>9. QED BY <2>7, <2>8
<1>5. QED BY <1>1, <1>2, <1>3, <1>4 DEF Moves

(* The length of the responses to come.                                    *)
LEMMA MissLength ==
  ASSUME MemTypes, NetTypes, PacketsAsk, WritesPlaced, NEW p \in InFlight
  PROVE  /\ p.trdid.type \in {"DATA_MISS", "INS_MISS"} /\ p.line \notin ErrorLine => Len(Flits(p)) = NbWords
         /\ p.trdid.type \in {"DATA_UNC", "INS_UNC"} => Len(Flits(p)) = 1
<1>1. p \in PacketSet /\ Asks(p) /\ (p.trdid.type = "DATA_WRITE" => p.write)
  BY InFlightIs DEF PacketsAsk, WritesPlaced
<1>2. p.trdid.type \in {"DATA_UNC", "INS_UNC"} => Len(Flits(p)) = 1
  BY <1>1, ResponseIs DEF BurstState
<1>3. p.trdid.type \in {"DATA_MISS", "INS_MISS"} => ~p.write /\ p.words = Word
  BY <1>1 DEF Asks
<1>4. QED BY <1>1, <1>2, <1>3, FlitsIs

(* A FIFO of one word.                                                     *)
LEMMA FifoIs ==
  ASSUME NEW S, NEW fifo \in Seq(S), Len(fifo) <= 1, NEW get \in BOOLEAN, NEW put \in BOOLEAN, NEW value,
         put => value \in S, get => fifo /= <<>>, put /\ fifo /= <<>> => get,
         NEW after, after = Update(fifo, get, put, value)
  PROVE  /\ after \in Seq(S) /\ Len(after) <= 1
         /\ get => Len(fifo) = 1
         /\ put /\ ~get => Len(fifo) = 0
         /\ put => Len(after) = 1 /\ after[1] = value
         /\ get /\ ~put => after = <<>> /\ Len(after) = 0
         /\ ~get /\ ~put => after = fifo
<1>1. Len(fifo) \in Nat /\ (get => Len(fifo) = 1)
  <2>1. get => Len(fifo) >= 1
    BY FirstIs
  <2>2. \A n \in Nat : n <= 1 /\ n >= 1 => n = 1
    OBVIOUS
  <2>3. Len(fifo) \in Nat
    OBVIOUS
  <2>4. QED BY <2>1, <2>2, <2>3
<1>2. PICK left : left = IF get THEN Tail(fifo) ELSE fifo
  OBVIOUS
<1>3. after = IF put THEN Append(left, value) ELSE left
  BY <1>2 DEF Update
<1>4. left \in Seq(S) /\ (get => left = <<>>)
  <2>1. CASE get
    <3>1. Tail(fifo) \in Seq(S) /\ Tail(fifo) = <<>>
      BY <1>1, <2>1, TailIs
    <3>2. QED BY <1>2, <2>1, <3>1
  <2>2. CASE ~get
    BY <1>1, <1>2, <2>2
  <2>3. QED BY <2>1, <2>2
<1>5. put /\ ~get => fifo = <<>> /\ Len(fifo) = 0
  BY EmptyIs
<1>6. put => left = <<>>
  BY <1>2, <1>4, <1>5
<1>7. left = <<>> <=> Len(left) = 0
  BY <1>4, EmptyIs
<1>8. CASE put
  <2>1. after \in Seq(S) /\ Len(after) = Len(left) + 1 /\ after[Len(left) + 1] = value
    BY <1>3, <1>4, <1>8, AppendIs
  <2>2. Len(left) = 0
    BY <1>6, <1>7, <1>8
  <2>3. after \in Seq(S) /\ Len(after) = 1 /\ after[1] = value
    BY <2>1, <2>2
  <2>4. Len(after) <= 1 /\ (get => Len(fifo) = 1) /\ (~get => Len(fifo) = 0)
    <3>1. 1 <= 1
      OBVIOUS
    <3>2. QED BY <1>1, <1>5, <1>8, <2>3, <3>1
  <2>5. QED BY ZenonT(30), <1>8, <2>3, <2>4
<1>9. CASE ~put
  <2>1. after = left
    BY <1>3, <1>9
  <2>2. CASE get
    BY <1>1, <1>4, <1>7, <1>9, <2>1, <2>2
  <2>3. CASE ~get
    BY <1>2, <1>9, <2>1, <2>3
  <2>4. QED BY <2>2, <2>3
<1>10. QED BY <1>8, <1>9

-----------------------------------------------------------------------------
(* THE WORDS A CACHE WAITS FOR.                                            *)

Types == DataTypes /\ InsTypes /\ CmdTypes /\ RspTypes /\ StoreTypes /\ NetTypes /\ MemTypes

Shapes ==
  /\ AskedData /\ ServedData /\ ServedIns
  /\ DcacheShape /\ IcacheShape /\ WbufShape /\ BurstShape /\ RspShape
  /\ OncePlaced /\ WritesPlaced /\ NetDistinct /\ PacketsAsk
  /\ DataTraffic /\ InsTraffic

(* When no word is on its way, the request is over.                        *)
LEMMA NoneComing ==
  ASSUME NetTypes, NEW type, NEW size \in Nat \ {0}, Coming(type, size) = 0
  PROVE  Place(type) = "none"
<1>1. Place(type) = "rsp" => rsp /= <<>>
  BY DEF Place, AtRsp
<1>2. rsp /= <<>> => Len(rsp) >= 1
  BY FirstIs DEF NetTypes
<1>3. QED BY <1>1, <1>2 DEF Coming

(* The words of a request that its cache waits for, in a cycle: one may    *)
(* leave the FIFO (get), and one may enter it (put).                       *)
Flows(type, line, size, word, fifo, error, served, flit, get, put, after) ==
  /\ after \in Seq(Value \cup {None}) /\ Len(after) <= 1
  /\ after /= <<>> => after[1] = IF put THEN flit.rdata ELSE fifo[1]
  /\ after /= <<>> /\ ~put => after = fifo
  /\ line \notin ErrorLine =>
       /\ ~error /\ ~Err(type, served, flit)
       /\ (IF get THEN word + 1 ELSE word) + Len(after) + Coming(type, size)' = size
       /\ Place(type)' = "rsp" => \A n \in DOMAIN rsp' : ~rsp'[n].error
  /\ line \in ErrorLine =>
       /\ ~put /\ ~get /\ after = <<>>
       /\ Place(type)' = "none" <=> error \/ Err(type, served, flit)
       /\ Place(type)' = "rsp" => rsp'[1].error

(* The request for size words of line.                                     *)
Fits(type, line, size) ==
  \A p \in InFlight : p.trdid.type = type => p.line = line /\ (line \notin ErrorLine => Len(Flits(p)) = size)

(* The words received, in the FIFO and on their way add up, whatever is    *)
(* taken and put.                                                          *)
LEMMA FlowSum ==
  ASSUME NEW size \in Int, NEW word \in Int, NEW get \in BOOLEAN, NEW put \in BOOLEAN,
         NEW f \in Int, NEW a \in Int, NEW c \in Int, NEW d \in Int,
         word + f + c = size, get => f = 1, put /\ ~get => f = 0,
         a = IF put THEN 1 ELSE IF get THEN 0 ELSE f, d = IF put THEN c - 1 ELSE c
  PROVE  (IF get THEN word + 1 ELSE word) + a + d = size
<1>1. CASE get /\ put
  BY <1>1
<1>2. CASE get /\ ~put
  BY <1>2
<1>3. CASE ~get /\ put
  BY <1>3
<1>4. CASE ~get /\ ~put
  BY <1>4
<1>5. QED BY <1>1, <1>2, <1>3, <1>4

(* A cycle moves the words a cache waits for as above.                     *)
LEMMA FlowStep ==
  ASSUME Types, Shapes, NEW type \in ReadType, NEW line, NEW size \in Nat, NEW word \in Nat,
         NEW fifo \in Seq(Value \cup {None}), Len(fifo) <= 1, NEW error \in BOOLEAN,
         Accounts(line, word, size, fifo, error, type),
         Fits(type, line, size), ~Requested(type),
         NEW served, NEW ack, NEW flit, RspSteps(served, flit), Moves(type, served, ack, flit),
         NEW get \in BOOLEAN, get => fifo /= <<>> /\ ~error,
         NEW put \in BOOLEAN, put <=> Put(type, served, flit), put => fifo = <<>> \/ get,
         NEW after, after = Update(fifo, get, put, flit.rdata)
  PROVE  Flows(type, line, size, word, fifo, error, served, flit, get, put, after)
<1>1. Sound(type, line)
  BY DEF Accounts, Sound
<1>2. RspTypes /\ NetTypes /\ MemTypes /\ RspShape /\ OncePlaced /\ WritesPlaced /\ PacketsAsk
  BY DEF Types, Shapes
<1>3. /\ Sound(type, line)'
      /\ line \notin ErrorLine =>
           /\ Coming(type, size)' = IF Put(type, served, flit) THEN Coming(type, size) - 1 ELSE Coming(type, size)
           /\ ~Err(type, served, flit)
      /\ line \in ErrorLine =>
           /\ ~Put(type, served, flit)
           /\ (Place(type) = "none")' <=> Place(type) = "none" \/ Err(type, served, flit)
  BY <1>1, <1>2, ComingStep DEF Fits
<1>4. put => flit.rdata \in Value \cup {None}
  BY <1>2, PutWhere
<1>5. /\ after \in Seq(Value \cup {None}) /\ Len(after) <= 1
      /\ get => Len(fifo) = 1
      /\ put /\ ~get => Len(fifo) = 0
      /\ put => Len(after) = 1 /\ after[1] = flit.rdata
      /\ get /\ ~put => after = <<>> /\ Len(after) = 0
      /\ ~get /\ ~put => after = fifo
  <2>1. put /\ fifo /= <<>> => get
    OBVIOUS
  <2>2. get => fifo /= <<>>
    OBVIOUS
  <2>3. QED BY <1>4, <2>1, <2>2, FifoIs
<1>6. after /= <<>> => after[1] = IF put THEN flit.rdata ELSE fifo[1]
  BY <1>5
<1>7. after /= <<>> /\ ~put => after = fifo
  BY <1>5
<1>8. ASSUME line \notin ErrorLine
      PROVE  /\ ~error /\ ~Err(type, served, flit)
             /\ (IF get THEN word + 1 ELSE word) + Len(after) + Coming(type, size)' = size
             /\ Place(type)' = "rsp" => \A n \in DOMAIN rsp' : ~rsp'[n].error
  <2>1. word + Len(fifo) + Coming(type, size) = size /\ ~error
    BY <1>8 DEF Accounts
  <2>2. Coming(type, size)' = IF put THEN Coming(type, size) - 1 ELSE Coming(type, size)
    BY <1>3, <1>8
  <2>3. Coming(type, size) \in Nat /\ Len(fifo) \in Nat
    BY <1>2, ComingIs
  <2>4. (IF get THEN word + 1 ELSE word) + Len(after) + Coming(type, size)' = size
    <3>1. Len(fifo) = IF get THEN 1 ELSE Len(fifo)
      BY <1>5
    <3>2. Len(after) = IF put THEN 1 ELSE IF get THEN 0 ELSE Len(fifo)
      BY <1>5
    <3>3. put /\ ~get => Len(fifo) = 0
      BY <1>5
    <3>4. PICK f, a, c, d \in Int :
            f = Len(fifo) /\ a = Len(after) /\ c = Coming(type, size) /\ d = Coming(type, size)'
      BY <2>2, <2>3, <3>2
    <3>5. (IF get THEN word + 1 ELSE word) + a + d = size
      <4>1. word + f + c = size /\ (get => f = 1) /\ (put /\ ~get => f = 0)
        BY <1>5, <2>1, <3>3, <3>4
      <4>2. a = IF put THEN 1 ELSE IF get THEN 0 ELSE f
        BY <3>2, <3>4
      <4>3. d = IF put THEN c - 1 ELSE c
        BY <2>2, <3>4
      <4>4. size \in Int /\ word \in Int
        OBVIOUS
      <4>5. QED BY <4>1, <4>2, <4>3, <4>4, FlowSum
    <3>6. QED BY <3>4, <3>5
  <2>5. QED BY <1>3, <1>8, <2>1, <2>4 DEF Sound
<1>9. ASSUME line \in ErrorLine
      PROVE  /\ ~put /\ ~get /\ after = <<>>
             /\ Place(type)' = "none" <=> error \/ Err(type, served, flit)
             /\ Place(type)' = "rsp" => rsp'[1].error
  <2>1. fifo = <<>> /\ (error <=> Place(type) = "none")
    BY <1>9 DEF Accounts
  <2>2. ~put /\ ~get /\ after = <<>>
    BY <1>3, <1>5, <1>9, <2>1
  <2>3. QED BY <1>3, <1>9, <2>1, <2>2 DEF Sound
<1>10. QED BY <1>5, <1>6, <1>7, <1>8, <1>9 DEF Flows

(* What the RSP machine gives to the data cache.                           *)
LEMMA DataFlow ==
  ASSUME Types, Shapes,
         NEW locks, NEW ack, NEW served, NEW flit, Ticks(locks, ack, served, flit)
  PROVE  /\ RspSteps(served, flit)
         /\ \A type \in ReadType : Moves(type, served, ack, flit)
         /\ fifo_data' = Update(fifo_data, DataGet, DataPut(flit), flit.rdata)
         /\ data_error' = (DataErrorSet(flit) \/ (data_error /\ ~DataError))
         /\ DataGet \in BOOLEAN /\ DataPut(flit) \in BOOLEAN
         /\ DataPut(flit) <=> Put("DATA_MISS", served, flit) \/ Put("DATA_UNC", served, flit)
         /\ DataErrorSet(flit) <=> Err("DATA_MISS", served, flit) \/ Err("DATA_UNC", served, flit)
         /\ \A type \in ReadType : Place(type) /= "rsp" => ~Put(type, served, flit) /\ ~Err(type, served, flit)
         /\ \A type \in ReadType : Place(type) = "none" =>
              Place(type)' = IF Requested(type) THEN "req" ELSE "none"
<1>1. RspSteps(served, flit)
  BY RspStep DEF Types, Shapes
<1>2. \A type \in ReadType : Moves(type, served, ack, flit)
  BY PlaceStep DEF Types, Shapes
<1>3. Rsp(flit)
  BY DEF Ticks, Cycle
<1>4. DataGet \in BOOLEAN /\ DataPut(flit) \in BOOLEAN
  BY DEF DataGet, DataPut
<1>5. \A type \in ReadType : Place(type) /= "rsp" => ~Put(type, served, flit) /\ ~Err(type, served, flit)
  BY PutWhere DEF Types, Shapes
<1>6. \A type \in ReadType : Place(type) = "none" =>
              Place(type)' = IF Requested(type) THEN "req" ELSE "none"
  BY <1>2 DEF Moves, Rests, Arises, Starts, Leaves, Reaches, Remains, Gives
<1>7. QED BY <1>1, <1>2, <1>3, <1>4, <1>5, <1>6, PutIs DEF Rsp

(* The flow of a miss, and of an uncached access.                          *)
DataFlows(type, size, word, served, flit) ==
  /\ Flows(type, d_addr.line, size, word, fifo_data, data_error, served, flit, DataGet, DataPut(flit), fifo_data')
  /\ DataPut(flit) <=> Put(type, served, flit)
  /\ DataErrorSet(flit) <=> Err(type, served, flit)

(* The words of a miss of the data cache, in a cycle.                      *)
LEMMA DataMissFlows ==
  ASSUME Types, Shapes, d_fsm \in Missing,
         NEW locks, NEW ack, NEW served, NEW flit, Ticks(locks, ack, served, flit)
  PROVE  DataFlows("DATA_MISS", NbWords, d_word, served, flit)
<1>0. PICK type : type = "DATA_MISS"
  OBVIOUS
<1>1. /\ RspSteps(served, flit) /\ Moves(type, served, ack, flit)
      /\ fifo_data' = Update(fifo_data, DataGet, DataPut(flit), flit.rdata)
      /\ DataGet \in BOOLEAN /\ DataPut(flit) \in BOOLEAN
      /\ DataPut(flit) <=> Put(type, served, flit) \/ Put("DATA_UNC", served, flit)
      /\ DataErrorSet(flit) <=> Err(type, served, flit) \/ Err("DATA_UNC", served, flit)
      /\ Place("DATA_UNC") /= "rsp" => ~Put("DATA_UNC", served, flit) /\ ~Err("DATA_UNC", served, flit)
      /\ Place(type) /= "rsp" => ~Put(type, served, flit)
  BY <1>0, DataFlow DEF ReadType
<1>2. d_fsm /= "UNC_WAIT"
  BY DEF Missing
<1>3. Place("DATA_UNC") = "none" /\ Accounts(d_addr.line, d_word, NbWords, fifo_data, data_error, type)
  BY <1>0, <1>2 DEF Shapes, DataTraffic
<1>4. DataPut(flit) <=> Put(type, served, flit)
  BY <1>1, <1>3
<1>5. DataErrorSet(flit) <=> Err(type, served, flit)
  BY <1>1, <1>3
<1>6. ~Requested(type)
  BY <1>0, DataHeld DEF Types, Shapes, Ticks, Cycle
<1>7. Fits(type, d_addr.line, NbWords)
  <2>1. \A p \in InFlight : p.trdid.type = type => p.line = d_addr.line
    BY <1>0 DEF Shapes, PacketsAsk, Asks
  <2>2. QED BY <1>0, <2>1, MissLength DEF Types, Shapes, Fits
<1>8. DataGet => fifo_data /= <<>> /\ ~data_error
  BY DEF DataGet
<1>9. Put(type, served, flit) => fifo_data = <<>> \/ DataGet
  <2>1. ASSUME Put(type, served, flit), fifo_data /= <<>>
        PROVE  DataGet
    <3>1. Place(type) = "rsp"
      BY <1>0, <1>1, <2>1
    <3>2. d_fsm = "MISS_WAIT"
      BY <1>0, <3>1 DEF Shapes, DataTraffic, Missing
    <3>3. ~data_error
      BY <1>3, <2>1 DEF Accounts
    <3>4. QED BY <2>1, <3>2, <3>3 DEF DataGet, Waiting
  <2>2. QED BY <2>1
<1>10. /\ d_word \in Nat /\ NbWords \in Nat /\ fifo_data \in Seq(Value \cup {None}) /\ Len(fifo_data) <= 1
       /\ data_error \in BOOLEAN /\ type \in ReadType
  BY <1>0, StoresAssumption DEF Types, DataTypes, RspTypes, ReadType
<1>11. Flows(type, d_addr.line, NbWords, d_word, fifo_data, data_error, served, flit, DataGet, DataPut(flit), fifo_data')
  <2>1. PICK get \in BOOLEAN, put \in BOOLEAN : (get <=> DataGet) /\ (put <=> DataPut(flit))
    OBVIOUS
  <2>2. PICK after : after = fifo_data'
    OBVIOUS
  <2>3. after = Update(fifo_data, get, put, flit.rdata)
    BY <1>1, <2>1, <2>2 DEF Update
  <2>4. (get => fifo_data /= <<>> /\ ~data_error) /\ (put => fifo_data = <<>> \/ get) /\ (put <=> Put(type, served, flit))
    BY <1>4, <1>8, <1>9, <2>1
  <2>5. Flows(type, d_addr.line, NbWords, d_word, fifo_data, data_error, served, flit, get, put, after)
    BY <1>1, <1>3, <1>6, <1>7, <1>10, <2>1, <2>3, <2>4, FlowStep
  <2>6. QED BY <2>1, <2>2, <2>5 DEF Flows
<1>12. DataFlows(type, NbWords, d_word, served, flit)
  BY <1>4, <1>5, <1>11 DEF DataFlows
<1>13. QED BY <1>0, <1>12

(* The word of an uncached access, in a cycle.                             *)
LEMMA DataUncFlows ==
  ASSUME Types, Shapes, d_fsm = "UNC_WAIT",
         NEW locks, NEW ack, NEW served, NEW flit, Ticks(locks, ack, served, flit)
  PROVE  DataFlows("DATA_UNC", 1, 0, served, flit)
<1>0. PICK type : type = "DATA_UNC"
  OBVIOUS
<1>1. /\ RspSteps(served, flit) /\ Moves(type, served, ack, flit)
      /\ fifo_data' = Update(fifo_data, DataGet, DataPut(flit), flit.rdata)
      /\ DataGet \in BOOLEAN /\ DataPut(flit) \in BOOLEAN
      /\ DataPut(flit) <=> Put("DATA_MISS", served, flit) \/ Put(type, served, flit)
      /\ DataErrorSet(flit) <=> Err("DATA_MISS", served, flit) \/ Err(type, served, flit)
      /\ Place("DATA_MISS") /= "rsp" => ~Put("DATA_MISS", served, flit) /\ ~Err("DATA_MISS", served, flit)
  BY <1>0, DataFlow DEF ReadType
<1>2. d_fsm \notin Missing
  BY DEF Missing
<1>3. Place("DATA_MISS") = "none" /\ Accounts(d_addr.line, 0, 1, fifo_data, data_error, type)
  BY <1>0, <1>2 DEF Shapes, DataTraffic
<1>4. DataPut(flit) <=> Put(type, served, flit)
  BY <1>1, <1>3
<1>5. DataErrorSet(flit) <=> Err(type, served, flit)
  BY <1>1, <1>3
<1>6. ~Requested(type)
  BY <1>0, DataHeld DEF Types, Shapes, Ticks, Cycle
<1>7. Fits(type, d_addr.line, 1)
  <2>1. \A p \in InFlight : p.trdid.type = type => p.line = d_addr.line
    BY <1>0 DEF Shapes, PacketsAsk, Asks
  <2>2. QED BY <1>0, <2>1, MissLength DEF Types, Shapes, Fits
<1>8. DataGet => fifo_data /= <<>> /\ ~data_error
  BY DEF DataGet
<1>9. Put(type, served, flit) => fifo_data = <<>> \/ DataGet
  <2>1. ASSUME fifo_data /= <<>>
        PROVE  DataGet
    BY <1>3, <2>1 DEF Accounts, DataGet, Waiting
  <2>2. QED BY <2>1
<1>10. /\ 0 \in Nat /\ 1 \in Nat /\ fifo_data \in Seq(Value \cup {None}) /\ Len(fifo_data) <= 1
       /\ data_error \in BOOLEAN /\ type \in ReadType
  BY <1>0 DEF Types, RspTypes, ReadType
<1>11. Flows(type, d_addr.line, 1, 0, fifo_data, data_error, served, flit, DataGet, DataPut(flit), fifo_data')
  <2>1. PICK get \in BOOLEAN, put \in BOOLEAN : (get <=> DataGet) /\ (put <=> DataPut(flit))
    OBVIOUS
  <2>2. PICK after : after = fifo_data'
    OBVIOUS
  <2>3. after = Update(fifo_data, get, put, flit.rdata)
    BY <1>1, <2>1, <2>2 DEF Update
  <2>4. (get => fifo_data /= <<>> /\ ~data_error) /\ (put => fifo_data = <<>> \/ get) /\ (put <=> Put(type, served, flit))
    BY <1>4, <1>8, <1>9, <2>1
  <2>5. Flows(type, d_addr.line, 1, 0, fifo_data, data_error, served, flit, get, put, after)
    BY <1>1, <1>3, <1>6, <1>7, <1>10, <2>1, <2>3, <2>4, FlowStep
  <2>6. QED BY <2>1, <2>2, <2>5 DEF Flows
<1>12. DataFlows(type, 1, 0, served, flit)
  BY <1>4, <1>5, <1>11 DEF DataFlows
<1>13. QED BY <1>0, <1>12

(* The data cache waits for nothing.                                       *)
DataQuiet(served, flit) ==
  /\ fifo_data' = <<>> /\ ~data_error'
  /\ Place("DATA_MISS")' = (IF ReadMiss THEN "req" ELSE "none")
  /\ Place("DATA_UNC")' = (IF Uncached THEN "req" ELSE "none")

(* While the data cache waits for nothing, nothing comes.                  *)
LEMMA DataRests ==
  ASSUME Types, Shapes, d_fsm \notin Missing \cup {"UNC_WAIT"},
         NEW locks, NEW ack, NEW served, NEW flit, Ticks(locks, ack, served, flit)
  PROVE  DataQuiet(served, flit)
<1>1. Place("DATA_MISS") = "none" /\ Place("DATA_UNC") = "none" /\ fifo_data = <<>> /\ ~data_error
  BY DEF Shapes, DataTraffic
<1>2. ~Put("DATA_MISS", served, flit) /\ ~Err("DATA_MISS", served, flit)
      /\ ~Put("DATA_UNC", served, flit) /\ ~Err("DATA_UNC", served, flit)
  BY <1>1, DataFlow DEF ReadType
<1>3. ~DataPut(flit) /\ ~DataErrorSet(flit) /\ ~DataGet
  BY <1>1, <1>2, DataFlow, NotWaiting DEF Missing
<1>4. fifo_data' = fifo_data /\ ~data_error'
  BY <1>1, <1>3, DataFlow DEF Update
<1>5. Requested("DATA_MISS") <=> ReadMiss
  BY DEF Requested
<1>6. Requested("DATA_UNC") <=> Uncached
  BY DEF Requested
<1>7. "DATA_MISS" \in ReadType /\ "DATA_UNC" \in ReadType
  BY DEF ReadType
<1>8. QED BY <1>1, <1>4, <1>5, <1>6, <1>7, DataFlow DEF DataQuiet

(* A request that is over stays over until it is made again.               *)
LEMMA StillNone ==
  ASSUME Types, Shapes, NEW type \in ReadType, Place(type) = "none", ~Requested(type),
         NEW locks, NEW ack, NEW served, NEW flit, Ticks(locks, ack, served, flit)
  PROVE  Place(type)' = "none"
BY DataFlow

(* The empty FIFO has its type.                                            *)
LEMMA FifoTyped == <<>> \in Seq(Value \cup {None}) /\ Len(<<>>) = 0
OBVIOUS

(* A sequence of length 0 is the empty one.                                *)
LEMMA EmptyHasNone ==
  ASSUME NEW S, NEW s \in Seq(S), Len(s) = 0
  PROVE  s = <<>>
BY EmptyIs

(* Nothing is on its way for a request that is over.                       *)
LEMMA NoneIs ==
  ASSUME NEW type, NEW size, Place(type) = "none"
  PROVE  Coming(type, size) = 0
BY DEF Coming

(* Everything is still to come for a request that waits for the CMD        *)
(* machine.                                                                *)
LEMMA ReqIs ==
  ASSUME NEW type, NEW size, Place(type) = "req"
  PROVE  Coming(type, size) = size
BY DEF Coming

(* A miss that goes on.                                                    *)
LEMMA MissGoesOn ==
  ASSUME Types, Shapes, d_fsm \in Missing,
         NEW locks, NEW ack, NEW served, NEW flit, Ticks(locks, ack, served, flit),
         d_fsm' \in Missing, d_word' = IF DataGet THEN d_word + 1 ELSE d_word, ~DataError
  PROVE  /\ Accounts(d_addr.line, d_word, NbWords, fifo_data, data_error, "DATA_MISS")'
         /\ fifo_data' /= <<>> => fifo_data'[1] \in Value
<1>0. PICK type : type = "DATA_MISS"
  OBVIOUS
<1>1. DataFlows(type, NbWords, d_word, served, flit)
  BY <1>0, DataMissFlows
<1>2. d_addr' = d_addr
  BY DataHeld DEF Types, Shapes, Ticks, Cycle
<1>3. data_error' = (DataErrorSet(flit) \/ (data_error /\ ~DataError))
  BY DataFlow
<1>4. CASE d_addr.line \notin ErrorLine
  <2>1. ~data_error'
    BY <1>1, <1>3, <1>4 DEF DataFlows, Flows
  <2>2. d_word' + Len(fifo_data') + Coming(type, NbWords)' = NbWords
    BY <1>1, <1>4 DEF DataFlows, Flows
  <2>3. Place(type)' = "rsp" => \A n \in DOMAIN rsp' : ~rsp'[n].error
    BY <1>1, <1>4 DEF DataFlows, Flows
  <2>4. Accounts(d_addr.line, d_word, NbWords, fifo_data, data_error, "DATA_MISS")'
    BY <1>0, <1>2, <1>4, <2>1, <2>2, <2>3 DEF Accounts
  <2>5. Put(type, served, flit) => flit.rdata \in Value
    <3>1. Put(type, served, flit) => AtRsp(type) /\ flit = rsp[1] /\ ~rsp[1].error
      BY DEF Put, RspTakes
    <3>2. AtRsp(type) => 1 \in DOMAIN rsp /\ rsp[1].trdid.type \in BurstState
      BY <1>0, FirstIs DEF AtRsp, BurstState, Types, NetTypes
    <3>3. QED BY <3>1, <3>2 DEF Shapes, RspShape
  <2>6. fifo_data /= <<>> => fifo_data[1] \in Value
    BY DEF Shapes, DataTraffic
  <2>7. fifo_data' /= <<>> => fifo_data'[1] \in Value
    <3>1. fifo_data' /= <<>> => fifo_data'[1] = IF Put(type, served, flit) THEN flit.rdata ELSE fifo_data[1]
      BY <1>1 DEF DataFlows, Flows
    <3>2. fifo_data' /= <<>> /\ ~Put(type, served, flit) => fifo_data' = fifo_data
      BY <1>1 DEF DataFlows, Flows
    <3>3. QED BY <2>5, <2>6, <3>1, <3>2
  <2>8. QED BY <2>4, <2>7
<1>5. CASE d_addr.line \in ErrorLine
  <2>1. fifo_data' = <<>> /\ (Place(type)' = "rsp" => rsp'[1].error)
    BY <1>1, <1>5 DEF DataFlows, Flows
  <2>2. data_error' <=> Place(type)' = "none"
    BY <1>1, <1>3, <1>5 DEF DataFlows, Flows
  <2>3. QED BY <1>0, <1>2, <1>5, <2>1, <2>2 DEF Accounts
<1>6. QED BY <1>4, <1>5

(* The last word, or the error.                                            *)
LEMMA MissIsOver ==
  ASSUME Types, Shapes, d_fsm = "MISS_WAIT",
         NEW locks, NEW ack, NEW served, NEW flit, Ticks(locks, ack, served, flit),
         DataError \/ (DataGet /\ d_word = NbWords - 1)
  PROVE  fifo_data' = <<>> /\ ~data_error' /\ Place("DATA_MISS")' = "none"
<1>0. PICK type : type = "DATA_MISS"
  OBVIOUS
<1>a. d_fsm \in Missing
  BY DEF Missing
<1>1. DataFlows(type, NbWords, d_word, served, flit)
  BY <1>0, <1>a, DataMissFlows
<1>2. data_error' = (DataErrorSet(flit) \/ (data_error /\ ~DataError))
  BY DataFlow
<1>3. Accounts(d_addr.line, d_word, NbWords, fifo_data, data_error, type)
  BY <1>0, <1>a DEF Shapes, DataTraffic
<1>4. Place(type) = "none"
  <2>1. CASE DataError
    BY <1>3, <2>1 DEF DataError, Accounts
  <2>2. CASE DataGet /\ d_word = NbWords - 1
    <3>1. d_word + 1 + Coming(type, NbWords) = NbWords
      BY <1>0, <2>2, DataWord DEF Types, Shapes
    <3>2. Coming(type, NbWords) \in Nat
      BY ComingIs, StoresAssumption DEF Types
    <3>3. Coming(type, NbWords) = 0
      BY <2>2, <3>1, <3>2, StoresAssumption
    <3>4. QED BY <3>3, NoneComing, StoresAssumption DEF Types
  <2>3. QED BY <2>1, <2>2
<1>5. ~Put(type, served, flit) /\ ~Err(type, served, flit)
  BY <1>0, <1>4, DataFlow DEF ReadType
<1>6. ~Requested(type)
  BY <1>0, <1>a, DataHeld DEF Types, Shapes, Ticks, Cycle
<1>7. Place(type)' = "none"
  BY <1>0, <1>4, <1>6, StillNone DEF ReadType
<1>8. fifo_data' = <<>>
  <2>1. CASE DataError
    <3>1. d_addr.line \in ErrorLine
      BY <1>3, <2>1 DEF DataError, Accounts
    <3>2. QED BY <1>1, <3>1 DEF DataFlows, Flows
  <2>2. CASE DataGet /\ d_word = NbWords - 1
    <3>1. d_addr.line \notin ErrorLine
      BY <2>2, DataWord DEF Types, Shapes
    <3>2. d_word + 1 + Len(fifo_data') + Coming(type, NbWords)' = NbWords /\ fifo_data' \in Seq(Value \cup {None})
      BY <1>1, <2>2, <3>1 DEF DataFlows, Flows
    <3>3. Coming(type, NbWords)' = 0
      BY <1>7 DEF Coming
    <3>4. Len(fifo_data') = 0
      BY <2>2, <3>2, <3>3, StoresAssumption
    <3>5. QED BY <3>2, <3>4, EmptyHasNone
  <2>3. QED BY <2>1, <2>2
<1>9. ~data_error'
  BY <1>1, <1>2, <1>5 DEF DataFlows, DataError, DataGet
<1>10. QED BY <1>0, <1>7, <1>8, <1>9

(* An uncached access.                                                     *)
LEMMA UncGoesOn ==
  ASSUME Types, Shapes, d_fsm = "UNC_WAIT",
         NEW locks, NEW ack, NEW served, NEW flit, Ticks(locks, ack, served, flit),
         ~DataError, ~DataGet
  PROVE  Accounts(d_addr.line, 0, 1, fifo_data, data_error, "DATA_UNC")'
<1>0. PICK type : type = "DATA_UNC"
  OBVIOUS
<1>1. DataFlows(type, 1, 0, served, flit)
  BY <1>0, DataUncFlows
<1>2. d_addr' = d_addr
  BY DataHeld DEF Types, Shapes, Ticks, Cycle
<1>3. data_error' = (DataErrorSet(flit) \/ (data_error /\ ~DataError))
  BY DataFlow
<1>4. CASE d_addr.line \notin ErrorLine
  <2>1. ~data_error'
    BY <1>1, <1>3, <1>4 DEF DataFlows, Flows
  <2>2. 0 + Len(fifo_data') + Coming(type, 1)' = 1
    BY <1>1, <1>4 DEF DataFlows, Flows
  <2>3. Place(type)' = "rsp" => \A n \in DOMAIN rsp' : ~rsp'[n].error
    BY <1>1, <1>4 DEF DataFlows, Flows
  <2>4. QED BY <1>0, <1>2, <1>4, <2>1, <2>2, <2>3 DEF Accounts
<1>5. CASE d_addr.line \in ErrorLine
  <2>1. fifo_data' = <<>> /\ (Place(type)' = "rsp" => rsp'[1].error)
    BY <1>1, <1>5 DEF DataFlows, Flows
  <2>2. data_error' <=> Place(type)' = "none"
    BY <1>1, <1>3, <1>5 DEF DataFlows, Flows
  <2>3. QED BY <1>0, <1>2, <1>5, <2>1, <2>2 DEF Accounts
<1>6. QED BY <1>4, <1>5

(* The answer to an uncached access leaves nothing behind.                 *)
LEMMA UncIsOver ==
  ASSUME Types, Shapes, d_fsm = "UNC_WAIT",
         NEW locks, NEW ack, NEW served, NEW flit, Ticks(locks, ack, served, flit),
         DataError \/ DataGet
  PROVE  fifo_data' = <<>> /\ ~data_error' /\ Place("DATA_UNC")' = "none"
<1>0. PICK type : type = "DATA_UNC"
  OBVIOUS
<1>1. DataFlows(type, 1, 0, served, flit)
  BY <1>0, DataUncFlows
<1>2. data_error' = (DataErrorSet(flit) \/ (data_error /\ ~DataError))
  BY DataFlow
<1>3. Accounts(d_addr.line, 0, 1, fifo_data, data_error, type)
  BY <1>0 DEF Shapes, DataTraffic
<1>4. Place(type) = "none"
  <2>1. CASE DataError
    BY <1>3, <2>1 DEF DataError, Accounts
  <2>2. CASE DataGet
    <3>1. Coming(type, 1) = 0
      BY <1>0, <2>2, DataWord DEF Types, Shapes
    <3>2. QED BY <3>1, NoneComing DEF Types
  <2>3. QED BY <2>1, <2>2
<1>5. ~Put(type, served, flit) /\ ~Err(type, served, flit)
  BY <1>0, <1>4, DataFlow DEF ReadType
<1>6. ~Requested(type)
  BY <1>0, DataHeld DEF Types, Shapes, Ticks, Cycle
<1>7. Place(type)' = "none"
  BY <1>0, <1>4, <1>6, StillNone DEF ReadType
<1>8. fifo_data' = <<>>
  <2>1. CASE DataError
    <3>1. d_addr.line \in ErrorLine
      BY <1>3, <2>1 DEF DataError, Accounts
    <3>2. QED BY <1>1, <3>1 DEF DataFlows, Flows
  <2>2. CASE DataGet
    <3>1. d_addr.line \notin ErrorLine
      BY <2>2, DataWord DEF Types, Shapes
    <3>2. 0 + 1 + Len(fifo_data') + Coming(type, 1)' = 1 /\ fifo_data' \in Seq(Value \cup {None})
      BY <1>1, <2>2, <3>1 DEF DataFlows, Flows
    <3>3. Coming(type, 1)' = 0
      BY <1>7 DEF Coming
    <3>4. Len(fifo_data') = 0
      BY <3>2, <3>3
    <3>5. QED BY <3>2, <3>4, EmptyHasNone
  <2>3. QED BY <2>1, <2>2
<1>9. ~data_error'
  BY <1>1, <1>2, <1>5 DEF DataFlows, DataError, DataGet
<1>10. QED BY <1>0, <1>7, <1>8, <1>9

(* A cycle keeps count of every word that the data cache waits for.        *)
LEMMA DataTrafficKept ==
  ASSUME Types, Shapes,
         NEW locks, NEW ack, NEW served, NEW flit, Ticks(locks, ack, served, flit)
  PROVE  DataTraffic'
<1>0. DataTypes /\ ServedData /\ Dcache /\ DataTraffic /\ NetTypes
  BY DEF Types, Shapes, Ticks, Cycle
<1>1. CASE d_fsm \notin Missing \cup {"UNC_WAIT"}
  <2>1. DataQuiet(served, flit)
    BY <1>1, DataRests
  <2>2. ASSUME ~ReadMiss, ~Uncached, d_fsm' \notin Missing \cup {"UNC_WAIT"}
        PROVE  DataTraffic'
    BY <2>1, <2>2 DEF DataQuiet, DataTraffic, Missing
  <2>3. CASE AsksMiss
    <3>1. ReadMiss /\ ~Uncached /\ d_fsm' = "MISS_SELECT" /\ d_word' = 0
      BY <2>3 DEF AsksMiss, TakesTo, ReadMiss, Uncached, Considered
    <3>2. fifo_data' = <<>> /\ ~data_error' /\ Place("DATA_MISS")' = "req" /\ Place("DATA_UNC")' = "none"
      BY <2>1, <3>1 DEF DataQuiet
    <3>3. Coming("DATA_MISS", NbWords)' = NbWords
      BY <3>2 DEF Coming
    <3>4. 0 + Len(fifo_data') + Coming("DATA_MISS", NbWords)' = NbWords
      BY <3>2, <3>3, FifoTyped, StoresAssumption
    <3>5. Accounts(d_addr.line, d_word, NbWords, fifo_data, data_error, "DATA_MISS")'
      BY <3>1, <3>2, <3>4 DEF Accounts
    <3>6. QED BY <3>1, <3>2, <3>5 DEF DataTraffic, Missing
  <2>4. CASE AsksUncached
    <3>1. ~ReadMiss /\ Uncached /\ d_fsm' = "UNC_WAIT"
      BY <2>4 DEF AsksUncached, TakesTo, ReadMiss, Uncached, Considered
    <3>2. fifo_data' = <<>> /\ ~data_error' /\ Place("DATA_UNC")' = "req" /\ Place("DATA_MISS")' = "none"
      BY <2>1, <3>1 DEF DataQuiet
    <3>3. Coming("DATA_UNC", 1)' = 1
      BY <3>2 DEF Coming
    <3>4. 0 + Len(fifo_data') + Coming("DATA_UNC", 1)' = 1
      BY <3>2, <3>3, FifoTyped
    <3>5. Accounts(d_addr.line, 0, 1, fifo_data, data_error, "DATA_UNC")'
      BY <3>2, <3>4 DEF Accounts
    <3>6. QED BY <3>1, <3>2, <3>5 DEF DataTraffic, Missing
  <2>5. CASE AsksNothing \/ AsksHit \/ StoresHit \/ StoresMiss \/ AsksInval \/ AsksSync
    <3>1. ~ReadMiss /\ ~Uncached
      BY <2>5 DEF AsksNothing, AsksHit, StoresHit, StoresMiss, AsksInval, AsksSync, ReadMiss, ReadHit,
                  WriteHit, WriteMiss, Uncached, Considered
    <3>2. d_fsm' \notin Missing \cup {"UNC_WAIT"}
      BY <2>5 DEF AsksNothing, AsksHit, StoresHit, StoresMiss, AsksInval, AsksSync, TakesTo, Missing
    <3>3. QED BY <2>2, <3>1, <3>2
  <2>6. CASE ServesStore \/ ServesXtn
    <3>1. d_fsm /= "IDLE" /\ ~Accepted
      BY <2>6 DEF ServesStore, StoreRefused, StoreUpdates, ServesXtn, InvalMisses, InvalHits, InvalEnds, SyncEnds,
                  SyncWaits, Stays, Accepted
    <3>2. d_fsm' \notin Missing \cup {"UNC_WAIT"}
      BY <2>6 DEF ServesStore, StoreRefused, StoreUpdates, ServesXtn, InvalMisses, InvalHits, InvalEnds, SyncEnds,
                  SyncWaits, Stays, Missing
    <3>3. QED BY <2>2, <3>1, <3>2 DEF ReadMiss, Uncached, Considered
  <2>7. ~ServesMiss /\ ~ServesUnc
    BY <1>1 DEF ServesMiss, MissSelects, MissInvals, MissFails, MissFills, MissEnds, MissWaits,
                ServesUnc, UncFails, UncEnds, UncWaits, Stays, Missing
  <2>8. QED BY <1>0, <2>3, <2>4, <2>5, <2>6, <2>7, DataCases DEF TakesRequest
<1>2. CASE d_fsm \in Missing
  <2>1. (ServesMiss \/ ServesUnc) /\ ~Requested("DATA_MISS") /\ ~Requested("DATA_UNC")
    BY <1>0, <1>2, DataHeld
  <2>2. Place("DATA_UNC")' = "none"
    <3>1. Place("DATA_UNC") = "none"
      BY <1>0, <1>2 DEF DataTraffic, Missing
    <3>2. QED BY <2>1, <3>1, StillNone DEF ReadType
  <2>3. Place("DATA_MISS") \in {"req", "cmd"} => ~Put("DATA_MISS", served, flit) /\ ~Err("DATA_MISS", served, flit)
    BY DataFlow DEF ReadType
  <2>4. Moves("DATA_MISS", served, ack, flit)
    BY DataFlow DEF ReadType
  <2>5. ASSUME d_fsm' \in Missing, d_word' = IF DataGet THEN d_word + 1 ELSE d_word, ~DataError,
               d_fsm' = "MISS_WAIT" \/ (d_fsm' = "MISS_INVAL" /\ Place("DATA_MISS")' \in {"req", "cmd"})
        PROVE  DataTraffic'
    <3>1. Accounts(d_addr.line, d_word, NbWords, fifo_data, data_error, "DATA_MISS")'
          /\ (fifo_data' /= <<>> => fifo_data'[1] \in Value)
      BY <1>2, <2>5, MissGoesOn
    <3>2. QED BY <2>2, <2>5, <3>1 DEF DataTraffic, Missing
  <2>6. CASE MissSelects
    <3>1. Place("DATA_MISS") = "req"
      BY <1>0, <2>6 DEF MissSelects, DataTraffic
    <3>2. Place("DATA_MISS")' \in {"req", "cmd"}
      BY <2>4, <3>1 DEF Moves, Rests, Arises, Starts, Leaves, Reaches, Remains, Gives
    <3>3. d_fsm' \in {"MISS_INVAL", "MISS_WAIT"} /\ d_word' = d_word /\ ~DataGet /\ ~DataError
      BY <2>6 DEF MissSelects, Quiet
    <3>4. QED BY <2>5, <3>2, <3>3 DEF Missing
  <2>7. CASE MissInvals \/ MissWaits
    BY <2>5, <2>7 DEF MissInvals, MissWaits, Stays, Quiet, Same, Missing
  <2>8. CASE MissFills
    BY <2>5, <2>8 DEF MissFills, Stays, Missing
  <2>9. CASE MissFails \/ MissEnds
    <3>1. d_fsm = "MISS_WAIT" /\ (DataError \/ (DataGet /\ d_word = NbWords - 1)) /\ d_fsm' = "IDLE"
      BY <2>9 DEF MissFails, MissEnds, Stays
    <3>2. fifo_data' = <<>> /\ ~data_error' /\ Place("DATA_MISS")' = "none"
      BY <3>1, MissIsOver
    <3>3. QED BY <2>2, <3>1, <3>2 DEF DataTraffic, Missing
  <2>10. ~ServesUnc
    BY <1>2 DEF ServesUnc, UncFails, UncEnds, UncWaits, Stays, Missing
  <2>11. QED BY <2>1, <2>6, <2>7, <2>8, <2>9, <2>10 DEF ServesMiss
<1>3. CASE d_fsm = "UNC_WAIT"
  <2>1. (ServesMiss \/ ServesUnc) /\ ~Requested("DATA_MISS") /\ ~Requested("DATA_UNC")
    BY <1>0, <1>3, DataHeld
  <2>2. Place("DATA_MISS")' = "none"
    <3>1. Place("DATA_MISS") = "none"
      BY <1>0, <1>3 DEF DataTraffic, Missing
    <3>2. QED BY <2>1, <3>1, StillNone DEF ReadType
  <2>3. CASE UncWaits
    <3>1. ~DataError /\ ~DataGet /\ d_fsm' = "UNC_WAIT"
      BY <2>3 DEF UncWaits, Stays, Quiet
    <3>2. Accounts(d_addr.line, 0, 1, fifo_data, data_error, "DATA_UNC")'
      BY <1>3, <3>1, UncGoesOn
    <3>3. QED BY <2>2, <3>1, <3>2 DEF DataTraffic, Missing
  <2>4. CASE UncFails \/ UncEnds
    <3>1. (DataError \/ DataGet) /\ d_fsm' = "IDLE"
      BY <2>4 DEF UncFails, UncEnds, Stays
    <3>2. fifo_data' = <<>> /\ ~data_error' /\ Place("DATA_UNC")' = "none"
      BY <1>3, <3>1, UncIsOver
    <3>3. QED BY <2>2, <3>1, <3>2 DEF DataTraffic, Missing
  <2>5. ~ServesMiss
    BY <1>3 DEF ServesMiss, MissSelects, MissInvals, MissFails, MissFills, MissEnds, MissWaits, Stays
  <2>6. QED BY <2>1, <2>3, <2>4, <2>5 DEF ServesUnc
<1>4. QED BY <1>1, <1>2, <1>3

(* A cycle keeps one word at most in the FIFO of the data cache.           *)
LEMMA DataFifoKept ==
  ASSUME Types, Shapes,
         NEW locks, NEW ack, NEW served, NEW flit, Ticks(locks, ack, served, flit)
  PROVE  fifo_data' \in Seq(Value \cup {None}) /\ Len(fifo_data') <= 1 /\ data_error' \in BOOLEAN
<1>1. data_error' \in BOOLEAN
  BY DataFlow
<1>2. CASE d_fsm \in Missing
  BY <1>1, <1>2, DataMissFlows DEF DataFlows, Flows
<1>3. CASE d_fsm = "UNC_WAIT"
  BY <1>1, <1>3, DataUncFlows DEF DataFlows, Flows
<1>4. CASE d_fsm \notin Missing \cup {"UNC_WAIT"}
  <2>1. fifo_data' = <<>>
    BY <1>4, DataRests DEF DataQuiet
  <2>2. Len(<<>>) <= 1
    OBVIOUS
  <2>3. QED BY <1>1, <2>1, <2>2, FifoTyped
<1>5. QED BY <1>2, <1>3, <1>4

(* What the RSP machine gives to the instruction cache.                           *)
LEMMA InsFlow ==
  ASSUME Types, Shapes,
         NEW locks, NEW ack, NEW served, NEW flit, Ticks(locks, ack, served, flit)
  PROVE  /\ RspSteps(served, flit)
         /\ \A type \in ReadType : Moves(type, served, ack, flit)
         /\ fifo_ins' = Update(fifo_ins, InsGet, InsPut(flit), flit.rdata)
         /\ ins_error' = (InsErrorSet(flit) \/ (ins_error /\ ~InsError))
         /\ InsGet \in BOOLEAN /\ InsPut(flit) \in BOOLEAN
         /\ InsPut(flit) <=> Put("INS_MISS", served, flit) \/ Put("INS_UNC", served, flit)
         /\ InsErrorSet(flit) <=> Err("INS_MISS", served, flit) \/ Err("INS_UNC", served, flit)
         /\ \A type \in ReadType : Place(type) /= "rsp" => ~Put(type, served, flit) /\ ~Err(type, served, flit)
         /\ \A type \in ReadType : Place(type) = "none" =>
              Place(type)' = IF Requested(type) THEN "req" ELSE "none"
<1>1. RspSteps(served, flit)
  BY RspStep DEF Types, Shapes
<1>2. \A type \in ReadType : Moves(type, served, ack, flit)
  BY PlaceStep DEF Types, Shapes
<1>3. Rsp(flit)
  BY DEF Ticks, Cycle
<1>4. InsGet \in BOOLEAN /\ InsPut(flit) \in BOOLEAN
  BY DEF InsGet, InsPut
<1>5. \A type \in ReadType : Place(type) /= "rsp" => ~Put(type, served, flit) /\ ~Err(type, served, flit)
  BY PutWhere DEF Types, Shapes
<1>6. \A type \in ReadType : Place(type) = "none" =>
              Place(type)' = IF Requested(type) THEN "req" ELSE "none"
  BY <1>2 DEF Moves, Rests, Arises, Starts, Leaves, Reaches, Remains, Gives
<1>7. QED BY <1>1, <1>2, <1>3, <1>4, <1>5, <1>6, PutIs DEF Rsp

(* The flow of a miss, and of an uncached access.                          *)
InsFlows(type, size, word, served, flit) ==
  /\ Flows(type, i_addr.line, size, word, fifo_ins, ins_error, served, flit, InsGet, InsPut(flit), fifo_ins')
  /\ InsPut(flit) <=> Put(type, served, flit)
  /\ InsErrorSet(flit) <=> Err(type, served, flit)

(* The words of a miss of the instruction cache, in a cycle.               *)
LEMMA InsMissFlows ==
  ASSUME Types, Shapes, i_fsm \in Missing,
         NEW locks, NEW ack, NEW served, NEW flit, Ticks(locks, ack, served, flit)
  PROVE  InsFlows("INS_MISS", NbWords, i_word, served, flit)
<1>0. PICK type : type = "INS_MISS"
  OBVIOUS
<1>1. /\ RspSteps(served, flit) /\ Moves(type, served, ack, flit)
      /\ fifo_ins' = Update(fifo_ins, InsGet, InsPut(flit), flit.rdata)
      /\ InsGet \in BOOLEAN /\ InsPut(flit) \in BOOLEAN
      /\ InsPut(flit) <=> Put(type, served, flit) \/ Put("INS_UNC", served, flit)
      /\ InsErrorSet(flit) <=> Err(type, served, flit) \/ Err("INS_UNC", served, flit)
      /\ Place("INS_UNC") /= "rsp" => ~Put("INS_UNC", served, flit) /\ ~Err("INS_UNC", served, flit)
      /\ Place(type) /= "rsp" => ~Put(type, served, flit)
  BY <1>0, InsFlow DEF ReadType
<1>2. i_fsm /= "UNC_WAIT"
  BY DEF Missing
<1>3. Place("INS_UNC") = "none" /\ Accounts(i_addr.line, i_word, NbWords, fifo_ins, ins_error, type)
  BY <1>0, <1>2 DEF Shapes, InsTraffic
<1>4. InsPut(flit) <=> Put(type, served, flit)
  BY <1>1, <1>3
<1>5. InsErrorSet(flit) <=> Err(type, served, flit)
  BY <1>1, <1>3
<1>6. ~Requested(type)
  BY <1>0, InsHeld DEF Types, Shapes, Ticks, Cycle
<1>7. Fits(type, i_addr.line, NbWords)
  <2>1. \A p \in InFlight : p.trdid.type = type => p.line = i_addr.line
    BY <1>0 DEF Shapes, PacketsAsk, Asks
  <2>2. QED BY <1>0, <2>1, MissLength DEF Types, Shapes, Fits
<1>8. InsGet => fifo_ins /= <<>> /\ ~ins_error
  BY DEF InsGet
<1>9. Put(type, served, flit) => fifo_ins = <<>> \/ InsGet
  <2>1. ASSUME Put(type, served, flit), fifo_ins /= <<>>
        PROVE  InsGet
    <3>1. Place(type) = "rsp"
      BY <1>0, <1>1, <2>1
    <3>2. i_fsm = "MISS_WAIT"
      BY <1>0, <3>1 DEF Shapes, InsTraffic, Missing
    <3>3. ~ins_error
      BY <1>3, <2>1 DEF Accounts
    <3>4. QED BY <2>1, <3>2, <3>3 DEF InsGet, IWaiting
  <2>2. QED BY <2>1
<1>10. /\ i_word \in Nat /\ NbWords \in Nat /\ fifo_ins \in Seq(Value \cup {None}) /\ Len(fifo_ins) <= 1
       /\ ins_error \in BOOLEAN /\ type \in ReadType
  BY <1>0, StoresAssumption DEF Types, InsTypes, RspTypes, ReadType
<1>11. Flows(type, i_addr.line, NbWords, i_word, fifo_ins, ins_error, served, flit, InsGet, InsPut(flit), fifo_ins')
  <2>1. PICK get \in BOOLEAN, put \in BOOLEAN : (get <=> InsGet) /\ (put <=> InsPut(flit))
    OBVIOUS
  <2>2. PICK after : after = fifo_ins'
    OBVIOUS
  <2>3. after = Update(fifo_ins, get, put, flit.rdata)
    BY <1>1, <2>1, <2>2 DEF Update
  <2>4. (get => fifo_ins /= <<>> /\ ~ins_error) /\ (put => fifo_ins = <<>> \/ get) /\ (put <=> Put(type, served, flit))
    BY <1>4, <1>8, <1>9, <2>1
  <2>5. Flows(type, i_addr.line, NbWords, i_word, fifo_ins, ins_error, served, flit, get, put, after)
    BY <1>1, <1>3, <1>6, <1>7, <1>10, <2>1, <2>3, <2>4, FlowStep
  <2>6. QED BY <2>1, <2>2, <2>5 DEF Flows
<1>12. InsFlows(type, NbWords, i_word, served, flit)
  BY <1>4, <1>5, <1>11 DEF InsFlows
<1>13. QED BY <1>0, <1>12

(* The word of an uncached fetch, in a cycle.                              *)
LEMMA InsUncFlows ==
  ASSUME Types, Shapes, i_fsm = "UNC_WAIT",
         NEW locks, NEW ack, NEW served, NEW flit, Ticks(locks, ack, served, flit)
  PROVE  InsFlows("INS_UNC", 1, 0, served, flit)
<1>0. PICK type : type = "INS_UNC"
  OBVIOUS
<1>1. /\ RspSteps(served, flit) /\ Moves(type, served, ack, flit)
      /\ fifo_ins' = Update(fifo_ins, InsGet, InsPut(flit), flit.rdata)
      /\ InsGet \in BOOLEAN /\ InsPut(flit) \in BOOLEAN
      /\ InsPut(flit) <=> Put("INS_MISS", served, flit) \/ Put(type, served, flit)
      /\ InsErrorSet(flit) <=> Err("INS_MISS", served, flit) \/ Err(type, served, flit)
      /\ Place("INS_MISS") /= "rsp" => ~Put("INS_MISS", served, flit) /\ ~Err("INS_MISS", served, flit)
  BY <1>0, InsFlow DEF ReadType
<1>2. i_fsm \notin Missing
  BY DEF Missing
<1>3. Place("INS_MISS") = "none" /\ Accounts(i_addr.line, 0, 1, fifo_ins, ins_error, type)
  BY <1>0, <1>2 DEF Shapes, InsTraffic
<1>4. InsPut(flit) <=> Put(type, served, flit)
  BY <1>1, <1>3
<1>5. InsErrorSet(flit) <=> Err(type, served, flit)
  BY <1>1, <1>3
<1>6. ~Requested(type)
  BY <1>0, InsHeld DEF Types, Shapes, Ticks, Cycle
<1>7. Fits(type, i_addr.line, 1)
  <2>1. \A p \in InFlight : p.trdid.type = type => p.line = i_addr.line
    BY <1>0 DEF Shapes, PacketsAsk, Asks
  <2>2. QED BY <1>0, <2>1, MissLength DEF Types, Shapes, Fits
<1>8. InsGet => fifo_ins /= <<>> /\ ~ins_error
  BY DEF InsGet
<1>9. Put(type, served, flit) => fifo_ins = <<>> \/ InsGet
  <2>1. ASSUME fifo_ins /= <<>>
        PROVE  InsGet
    BY <1>3, <2>1 DEF Accounts, InsGet, IWaiting
  <2>2. QED BY <2>1
<1>10. /\ 0 \in Nat /\ 1 \in Nat /\ fifo_ins \in Seq(Value \cup {None}) /\ Len(fifo_ins) <= 1
       /\ ins_error \in BOOLEAN /\ type \in ReadType
  BY <1>0 DEF Types, RspTypes, ReadType
<1>11. Flows(type, i_addr.line, 1, 0, fifo_ins, ins_error, served, flit, InsGet, InsPut(flit), fifo_ins')
  <2>1. PICK get \in BOOLEAN, put \in BOOLEAN : (get <=> InsGet) /\ (put <=> InsPut(flit))
    OBVIOUS
  <2>2. PICK after : after = fifo_ins'
    OBVIOUS
  <2>3. after = Update(fifo_ins, get, put, flit.rdata)
    BY <1>1, <2>1, <2>2 DEF Update
  <2>4. (get => fifo_ins /= <<>> /\ ~ins_error) /\ (put => fifo_ins = <<>> \/ get) /\ (put <=> Put(type, served, flit))
    BY <1>4, <1>8, <1>9, <2>1
  <2>5. Flows(type, i_addr.line, 1, 0, fifo_ins, ins_error, served, flit, get, put, after)
    BY <1>1, <1>3, <1>6, <1>7, <1>10, <2>1, <2>3, <2>4, FlowStep
  <2>6. QED BY <2>1, <2>2, <2>5 DEF Flows
<1>12. InsFlows(type, 1, 0, served, flit)
  BY <1>4, <1>5, <1>11 DEF InsFlows
<1>13. QED BY <1>0, <1>12

(* The instruction cache waits for nothing.                                       *)
InsNoFlow(served, flit) ==
  /\ fifo_ins' = <<>> /\ ~ins_error'
  /\ Place("INS_MISS")' = (IF IMiss THEN "req" ELSE "none")
  /\ Place("INS_UNC")' = (IF IUnc THEN "req" ELSE "none")

(* While the instruction cache waits for nothing, nothing comes.           *)
LEMMA InsRests ==
  ASSUME Types, Shapes, i_fsm \notin Missing \cup {"UNC_WAIT"},
         NEW locks, NEW ack, NEW served, NEW flit, Ticks(locks, ack, served, flit)
  PROVE  InsNoFlow(served, flit)
<1>1. Place("INS_MISS") = "none" /\ Place("INS_UNC") = "none" /\ fifo_ins = <<>> /\ ~ins_error
  BY DEF Shapes, InsTraffic
<1>2. ~Put("INS_MISS", served, flit) /\ ~Err("INS_MISS", served, flit)
      /\ ~Put("INS_UNC", served, flit) /\ ~Err("INS_UNC", served, flit)
  BY <1>1, InsFlow DEF ReadType
<1>3. ~InsPut(flit) /\ ~InsErrorSet(flit) /\ ~InsGet
  BY <1>1, <1>2, InsFlow, InsNotWaiting DEF Missing
<1>4. fifo_ins' = fifo_ins /\ ~ins_error'
  BY <1>1, <1>3, InsFlow DEF Update
<1>5. Requested("INS_MISS") <=> IMiss
  BY DEF Requested
<1>6. Requested("INS_UNC") <=> IUnc
  BY DEF Requested
<1>7. "INS_MISS" \in ReadType /\ "INS_UNC" \in ReadType
  BY DEF ReadType
<1>8. QED BY <1>1, <1>4, <1>5, <1>6, <1>7, InsFlow DEF InsNoFlow

(* A miss that goes on.                                                    *)
LEMMA InsMissGoesOn ==
  ASSUME Types, Shapes, i_fsm \in Missing,
         NEW locks, NEW ack, NEW served, NEW flit, Ticks(locks, ack, served, flit),
         i_fsm' \in Missing, i_word' = IF InsGet THEN i_word + 1 ELSE i_word, ~InsError
  PROVE  /\ Accounts(i_addr.line, i_word, NbWords, fifo_ins, ins_error, "INS_MISS")'
         /\ fifo_ins' /= <<>> => fifo_ins'[1] \in Value
<1>0. PICK type : type = "INS_MISS"
  OBVIOUS
<1>1. InsFlows(type, NbWords, i_word, served, flit)
  BY <1>0, InsMissFlows
<1>2. i_addr' = i_addr
  BY InsHeld DEF Types, Shapes, Ticks, Cycle
<1>3. ins_error' = (InsErrorSet(flit) \/ (ins_error /\ ~InsError))
  BY InsFlow
<1>4. CASE i_addr.line \notin ErrorLine
  <2>1. ~ins_error'
    BY <1>1, <1>3, <1>4 DEF InsFlows, Flows
  <2>2. i_word' + Len(fifo_ins') + Coming(type, NbWords)' = NbWords
    BY <1>1, <1>4 DEF InsFlows, Flows
  <2>3. Place(type)' = "rsp" => \A n \in DOMAIN rsp' : ~rsp'[n].error
    BY <1>1, <1>4 DEF InsFlows, Flows
  <2>4. Accounts(i_addr.line, i_word, NbWords, fifo_ins, ins_error, "INS_MISS")'
    BY <1>0, <1>2, <1>4, <2>1, <2>2, <2>3 DEF Accounts
  <2>5. Put(type, served, flit) => flit.rdata \in Value
    <3>1. Put(type, served, flit) => AtRsp(type) /\ flit = rsp[1] /\ ~rsp[1].error
      BY DEF Put, RspTakes
    <3>2. AtRsp(type) => 1 \in DOMAIN rsp /\ rsp[1].trdid.type \in BurstState
      BY <1>0, FirstIs DEF AtRsp, BurstState, Types, NetTypes
    <3>3. QED BY <3>1, <3>2 DEF Shapes, RspShape
  <2>6. fifo_ins /= <<>> => fifo_ins[1] \in Value
    BY DEF Shapes, InsTraffic
  <2>7. fifo_ins' /= <<>> => fifo_ins'[1] \in Value
    <3>1. fifo_ins' /= <<>> => fifo_ins'[1] = IF Put(type, served, flit) THEN flit.rdata ELSE fifo_ins[1]
      BY <1>1 DEF InsFlows, Flows
    <3>2. fifo_ins' /= <<>> /\ ~Put(type, served, flit) => fifo_ins' = fifo_ins
      BY <1>1 DEF InsFlows, Flows
    <3>3. QED BY <2>5, <2>6, <3>1, <3>2
  <2>8. QED BY <2>4, <2>7
<1>5. CASE i_addr.line \in ErrorLine
  <2>1. fifo_ins' = <<>> /\ (Place(type)' = "rsp" => rsp'[1].error)
    BY <1>1, <1>5 DEF InsFlows, Flows
  <2>2. ins_error' <=> Place(type)' = "none"
    BY <1>1, <1>3, <1>5 DEF InsFlows, Flows
  <2>3. QED BY <1>0, <1>2, <1>5, <2>1, <2>2 DEF Accounts
<1>6. QED BY <1>4, <1>5

(* The last word, or the error.                                            *)
LEMMA InsMissIsOver ==
  ASSUME Types, Shapes, i_fsm = "MISS_WAIT",
         NEW locks, NEW ack, NEW served, NEW flit, Ticks(locks, ack, served, flit),
         InsError \/ (InsGet /\ i_word = NbWords - 1)
  PROVE  fifo_ins' = <<>> /\ ~ins_error' /\ Place("INS_MISS")' = "none"
<1>0. PICK type : type = "INS_MISS"
  OBVIOUS
<1>a. i_fsm \in Missing
  BY DEF Missing
<1>1. InsFlows(type, NbWords, i_word, served, flit)
  BY <1>0, <1>a, InsMissFlows
<1>2. ins_error' = (InsErrorSet(flit) \/ (ins_error /\ ~InsError))
  BY InsFlow
<1>3. Accounts(i_addr.line, i_word, NbWords, fifo_ins, ins_error, type)
  BY <1>0, <1>a DEF Shapes, InsTraffic
<1>4. Place(type) = "none"
  <2>1. CASE InsError
    BY <1>3, <2>1 DEF InsError, Accounts
  <2>2. CASE InsGet /\ i_word = NbWords - 1
    <3>1. i_word + 1 + Coming(type, NbWords) = NbWords
      BY <1>0, <2>2, InsWord DEF Types, Shapes
    <3>2. Coming(type, NbWords) \in Nat
      BY ComingIs, StoresAssumption DEF Types
    <3>3. Coming(type, NbWords) = 0
      BY <2>2, <3>1, <3>2, StoresAssumption
    <3>4. QED BY <3>3, NoneComing, StoresAssumption DEF Types
  <2>3. QED BY <2>1, <2>2
<1>5. ~Put(type, served, flit) /\ ~Err(type, served, flit)
  BY <1>0, <1>4, InsFlow DEF ReadType
<1>6. ~Requested(type)
  BY <1>0, <1>a, InsHeld DEF Types, Shapes, Ticks, Cycle
<1>7. Place(type)' = "none"
  BY <1>0, <1>4, <1>6, StillNone DEF ReadType
<1>8. fifo_ins' = <<>>
  <2>1. CASE InsError
    <3>1. i_addr.line \in ErrorLine
      BY <1>3, <2>1 DEF InsError, Accounts
    <3>2. QED BY <1>1, <3>1 DEF InsFlows, Flows
  <2>2. CASE InsGet /\ i_word = NbWords - 1
    <3>1. i_addr.line \notin ErrorLine
      BY <2>2, InsWord DEF Types, Shapes
    <3>2. i_word + 1 + Len(fifo_ins') + Coming(type, NbWords)' = NbWords /\ fifo_ins' \in Seq(Value \cup {None})
      BY <1>1, <2>2, <3>1 DEF InsFlows, Flows
    <3>3. Coming(type, NbWords)' = 0
      BY <1>7 DEF Coming
    <3>4. Len(fifo_ins') = 0
      BY <2>2, <3>2, <3>3, StoresAssumption
    <3>5. QED BY <3>2, <3>4, EmptyHasNone
  <2>3. QED BY <2>1, <2>2
<1>9. ~ins_error'
  BY <1>1, <1>2, <1>5 DEF InsFlows, InsError, InsGet
<1>10. QED BY <1>0, <1>7, <1>8, <1>9

(* An uncached fetch.                                                     *)
LEMMA InsUncGoesOn ==
  ASSUME Types, Shapes, i_fsm = "UNC_WAIT",
         NEW locks, NEW ack, NEW served, NEW flit, Ticks(locks, ack, served, flit),
         ~InsError, ~InsGet
  PROVE  Accounts(i_addr.line, 0, 1, fifo_ins, ins_error, "INS_UNC")'
<1>0. PICK type : type = "INS_UNC"
  OBVIOUS
<1>1. InsFlows(type, 1, 0, served, flit)
  BY <1>0, InsUncFlows
<1>2. i_addr' = i_addr
  BY InsHeld DEF Types, Shapes, Ticks, Cycle
<1>3. ins_error' = (InsErrorSet(flit) \/ (ins_error /\ ~InsError))
  BY InsFlow
<1>4. CASE i_addr.line \notin ErrorLine
  <2>1. ~ins_error'
    BY <1>1, <1>3, <1>4 DEF InsFlows, Flows
  <2>2. 0 + Len(fifo_ins') + Coming(type, 1)' = 1
    BY <1>1, <1>4 DEF InsFlows, Flows
  <2>3. Place(type)' = "rsp" => \A n \in DOMAIN rsp' : ~rsp'[n].error
    BY <1>1, <1>4 DEF InsFlows, Flows
  <2>4. QED BY <1>0, <1>2, <1>4, <2>1, <2>2, <2>3 DEF Accounts
<1>5. CASE i_addr.line \in ErrorLine
  <2>1. fifo_ins' = <<>> /\ (Place(type)' = "rsp" => rsp'[1].error)
    BY <1>1, <1>5 DEF InsFlows, Flows
  <2>2. ins_error' <=> Place(type)' = "none"
    BY <1>1, <1>3, <1>5 DEF InsFlows, Flows
  <2>3. QED BY <1>0, <1>2, <1>5, <2>1, <2>2 DEF Accounts
<1>6. QED BY <1>4, <1>5

(* The answer to an uncached fetch leaves nothing behind.                  *)
LEMMA InsUncIsOver ==
  ASSUME Types, Shapes, i_fsm = "UNC_WAIT",
         NEW locks, NEW ack, NEW served, NEW flit, Ticks(locks, ack, served, flit),
         InsError \/ InsGet
  PROVE  fifo_ins' = <<>> /\ ~ins_error' /\ Place("INS_UNC")' = "none"
<1>0. PICK type : type = "INS_UNC"
  OBVIOUS
<1>1. InsFlows(type, 1, 0, served, flit)
  BY <1>0, InsUncFlows
<1>2. ins_error' = (InsErrorSet(flit) \/ (ins_error /\ ~InsError))
  BY InsFlow
<1>3. Accounts(i_addr.line, 0, 1, fifo_ins, ins_error, type)
  BY <1>0 DEF Shapes, InsTraffic
<1>4. Place(type) = "none"
  <2>1. CASE InsError
    BY <1>3, <2>1 DEF InsError, Accounts
  <2>2. CASE InsGet
    <3>1. Coming(type, 1) = 0
      BY <1>0, <2>2, InsWord DEF Types, Shapes
    <3>2. QED BY <3>1, NoneComing DEF Types
  <2>3. QED BY <2>1, <2>2
<1>5. ~Put(type, served, flit) /\ ~Err(type, served, flit)
  BY <1>0, <1>4, InsFlow DEF ReadType
<1>6. ~Requested(type)
  BY <1>0, InsHeld DEF Types, Shapes, Ticks, Cycle
<1>7. Place(type)' = "none"
  BY <1>0, <1>4, <1>6, StillNone DEF ReadType
<1>8. fifo_ins' = <<>>
  <2>1. CASE InsError
    <3>1. i_addr.line \in ErrorLine
      BY <1>3, <2>1 DEF InsError, Accounts
    <3>2. QED BY <1>1, <3>1 DEF InsFlows, Flows
  <2>2. CASE InsGet
    <3>1. i_addr.line \notin ErrorLine
      BY <2>2, InsWord DEF Types, Shapes
    <3>2. 0 + 1 + Len(fifo_ins') + Coming(type, 1)' = 1 /\ fifo_ins' \in Seq(Value \cup {None})
      BY <1>1, <2>2, <3>1 DEF InsFlows, Flows
    <3>3. Coming(type, 1)' = 0
      BY <1>7 DEF Coming
    <3>4. Len(fifo_ins') = 0
      BY <3>2, <3>3
    <3>5. QED BY <3>2, <3>4, EmptyHasNone
  <2>3. QED BY <2>1, <2>2
<1>9. ~ins_error'
  BY <1>1, <1>2, <1>5 DEF InsFlows, InsError, InsGet
<1>10. QED BY <1>0, <1>7, <1>8, <1>9

(* A cycle keeps one word at most in the FIFO of the instruction cache.    *)
LEMMA InsFifoKept ==
  ASSUME Types, Shapes,
         NEW locks, NEW ack, NEW served, NEW flit, Ticks(locks, ack, served, flit)
  PROVE  fifo_ins' \in Seq(Value \cup {None}) /\ Len(fifo_ins') <= 1 /\ ins_error' \in BOOLEAN
<1>1. ins_error' \in BOOLEAN
  BY InsFlow
<1>2. CASE i_fsm \in Missing
  BY <1>1, <1>2, InsMissFlows DEF InsFlows, Flows
<1>3. CASE i_fsm = "UNC_WAIT"
  BY <1>1, <1>3, InsUncFlows DEF InsFlows, Flows
<1>4. CASE i_fsm \notin Missing \cup {"UNC_WAIT"}
  <2>1. fifo_ins' = <<>>
    BY <1>4, InsRests DEF InsNoFlow
  <2>2. Len(<<>>) <= 1
    OBVIOUS
  <2>3. QED BY <1>1, <2>1, <2>2, FifoTyped
<1>5. QED BY <1>2, <1>3, <1>4

(* A cycle keeps count of every word that the instruction cache waits for. *)
LEMMA InsTrafficKept ==
  ASSUME Types, Shapes,
         NEW locks, NEW ack, NEW served, NEW flit, Ticks(locks, ack, served, flit)
  PROVE  InsTraffic'
<1>0. InsTypes /\ ServedIns /\ Icache /\ InsTraffic /\ NetTypes
  BY DEF Types, Shapes, Ticks, Cycle
<1>1. CASE i_fsm \notin Missing \cup {"UNC_WAIT"}
  <2>1. InsNoFlow(served, flit)
    BY <1>1, InsRests
  <2>2. CASE FetchesMiss
    <3>1. IMiss /\ ~IUnc /\ i_fsm' = "MISS_SELECT" /\ i_word' = 0
      BY <2>2 DEF FetchesMiss, IMiss, IUnc
    <3>2. fifo_ins' = <<>> /\ ~ins_error' /\ Place("INS_MISS")' = "req" /\ Place("INS_UNC")' = "none"
      BY <2>1, <3>1 DEF InsNoFlow
    <3>3. Coming("INS_MISS", NbWords)' = NbWords
      BY <3>2 DEF Coming
    <3>4. 0 + Len(fifo_ins') + Coming("INS_MISS", NbWords)' = NbWords
      BY <3>2, <3>3, FifoTyped, StoresAssumption
    <3>5. Accounts(i_addr.line, i_word, NbWords, fifo_ins, ins_error, "INS_MISS")'
      BY <3>1, <3>2, <3>4 DEF Accounts
    <3>6. QED BY <3>1, <3>2, <3>5 DEF InsTraffic, Missing
  <2>3. CASE FetchesUncached
    <3>1. ~IMiss /\ IUnc /\ i_fsm' = "UNC_WAIT"
      BY <2>3 DEF FetchesUncached, IMiss, IUnc
    <3>2. fifo_ins' = <<>> /\ ~ins_error' /\ Place("INS_UNC")' = "req" /\ Place("INS_MISS")' = "none"
      BY <2>1, <3>1 DEF InsNoFlow
    <3>3. Coming("INS_UNC", 1)' = 1
      BY <3>2 DEF Coming
    <3>4. 0 + Len(fifo_ins') + Coming("INS_UNC", 1)' = 1
      BY <3>2, <3>3, FifoTyped
    <3>5. Accounts(i_addr.line, 0, 1, fifo_ins, ins_error, "INS_UNC")'
      BY <3>2, <3>4 DEF Accounts
    <3>6. QED BY <3>1, <3>2, <3>5 DEF InsTraffic, Missing
  <2>4. CASE FetchesNothing \/ FetchesHit
    <3>1. ~IMiss /\ ~IUnc /\ i_fsm' = "IDLE"
      BY <2>4 DEF FetchesNothing, FetchesHit, InsStays, IMiss, IUnc, IHit, Fetched
    <3>2. QED BY <2>1, <3>1 DEF InsNoFlow, InsTraffic, Missing
  <2>5. ~InsMisses /\ ~InsUnc
    BY <1>1 DEF InsMisses, InsSelects, InsInvals, InsFails, InsFills, InsEnds, InsWaits,
                InsUnc, InsUncFails, InsUncEnds, InsUncWaits, InsStays, Missing
  <2>6. QED BY <1>0, <2>2, <2>3, <2>4, <2>5, InsCases DEF InsTakes
<1>2. CASE i_fsm \in Missing
  <2>1. (InsMisses \/ InsUnc) /\ ~Requested("INS_MISS") /\ ~Requested("INS_UNC")
    BY <1>0, <1>2, InsHeld
  <2>2. Place("INS_UNC")' = "none"
    <3>1. Place("INS_UNC") = "none"
      BY <1>0, <1>2 DEF InsTraffic, Missing
    <3>2. QED BY <2>1, <3>1, StillNone DEF ReadType
  <2>3. Moves("INS_MISS", served, ack, flit)
    BY DataFlow DEF ReadType
  <2>4. ASSUME i_fsm' \in Missing, i_word' = IF InsGet THEN i_word + 1 ELSE i_word, ~InsError,
               i_fsm' = "MISS_WAIT" \/ (i_fsm' = "MISS_INVAL" /\ Place("INS_MISS")' \in {"req", "cmd"})
        PROVE  InsTraffic'
    <3>1. Accounts(i_addr.line, i_word, NbWords, fifo_ins, ins_error, "INS_MISS")'
          /\ (fifo_ins' /= <<>> => fifo_ins'[1] \in Value)
      BY <1>2, <2>4, InsMissGoesOn
    <3>2. QED BY <2>2, <2>4, <3>1 DEF InsTraffic, Missing
  <2>5. CASE InsSelects
    <3>1. Place("INS_MISS") = "req"
      BY <1>0, <2>5 DEF InsSelects, InsTraffic
    <3>2. Place("INS_MISS")' \in {"req", "cmd"}
      BY <2>3, <3>1 DEF Moves, Rests, Arises, Starts, Leaves, Reaches, Remains, Gives
    <3>3. i_fsm' \in {"MISS_INVAL", "MISS_WAIT"} /\ i_word' = i_word /\ ~InsGet /\ ~InsError
      BY <2>5 DEF InsSelects, InsQuiet
    <3>4. QED BY <2>4, <3>2, <3>3 DEF Missing
  <2>6. CASE InsInvals \/ InsWaits
    BY <2>4, <2>6 DEF InsInvals, InsWaits, InsStays, InsQuiet, InsSame, Missing
  <2>7. CASE InsFills
    BY <2>4, <2>7 DEF InsFills, InsStays, Missing
  <2>8. CASE InsFails \/ InsEnds
    <3>1. i_fsm = "MISS_WAIT" /\ (InsError \/ (InsGet /\ i_word = NbWords - 1)) /\ i_fsm' = "IDLE"
      BY <2>8 DEF InsFails, InsEnds, InsStays
    <3>2. fifo_ins' = <<>> /\ ~ins_error' /\ Place("INS_MISS")' = "none"
      BY <3>1, InsMissIsOver
    <3>3. QED BY <2>2, <3>1, <3>2 DEF InsTraffic, Missing
  <2>9. ~InsUnc
    BY <1>2 DEF InsUnc, InsUncFails, InsUncEnds, InsUncWaits, InsStays, Missing
  <2>10. QED BY <2>1, <2>5, <2>6, <2>7, <2>8, <2>9 DEF InsMisses
<1>3. CASE i_fsm = "UNC_WAIT"
  <2>1. (InsMisses \/ InsUnc) /\ ~Requested("INS_MISS") /\ ~Requested("INS_UNC")
    BY <1>0, <1>3, InsHeld
  <2>2. Place("INS_MISS")' = "none"
    <3>1. Place("INS_MISS") = "none"
      BY <1>0, <1>3 DEF InsTraffic, Missing
    <3>2. QED BY <2>1, <3>1, StillNone DEF ReadType
  <2>3. CASE InsUncWaits
    <3>1. ~InsError /\ ~InsGet /\ i_fsm' = "UNC_WAIT"
      BY <2>3 DEF InsUncWaits, InsStays, InsQuiet
    <3>2. Accounts(i_addr.line, 0, 1, fifo_ins, ins_error, "INS_UNC")'
      BY <1>3, <3>1, InsUncGoesOn
    <3>3. QED BY <2>2, <3>1, <3>2 DEF InsTraffic, Missing
  <2>4. CASE InsUncFails \/ InsUncEnds
    <3>1. (InsError \/ InsGet) /\ i_fsm' = "IDLE"
      BY <2>4 DEF InsUncFails, InsUncEnds, InsStays
    <3>2. fifo_ins' = <<>> /\ ~ins_error' /\ Place("INS_UNC")' = "none"
      BY <1>3, <3>1, InsUncIsOver
    <3>3. QED BY <2>2, <3>1, <3>2 DEF InsTraffic, Missing
  <2>5. ~InsMisses
    BY <1>3 DEF InsMisses, InsSelects, InsInvals, InsFails, InsFills, InsEnds, InsWaits, InsStays
  <2>6. QED BY <2>1, <2>3, <2>4, <2>5 DEF InsUnc
<1>4. QED BY <1>1, <1>2, <1>3

-----------------------------------------------------------------------------
(* THE CONTROL INVARIANT HOLDS.                                            *)

(* A cycle keeps every type.                                               *)
LEMMA TypesKept ==
  ASSUME Types, Shapes,
         NEW locks, NEW ack, NEW served, NEW flit, Ticks(locks, ack, served, flit)
  PROVE  Types'
<1>0. Dcache /\ Icache /\ Processor /\ RspSteps(served, flit)
  BY DataFlow DEF Ticks, Cycle
<1>1. DataTypes' /\ dcache' \in CacheType
  BY <1>0, DataTypesKept DEF Types, Shapes
<1>2. InsTypes' /\ icache' \in CacheType
  BY <1>0, InsTypesKept DEF Types, Shapes
<1>3. CmdTypes'
  BY CmdTypesKept DEF Types, Shapes
<1>4. rsp' \in Seq(FlitSet) /\ rsp_fsm' \in ReadType \cup {"IDLE", "DATA_WRITE"}
  BY <1>0, RspShapeKept DEF Types, Shapes
<1>5. RspTypes'
  BY <1>4, DataFifoKept, InsFifoKept DEF RspTypes
<1>6. wbuf' \in [Slot -> SlotType]
  BY SlotStep DEF Types, Shapes
<1>7. StoreTypes'
  BY <1>1, <1>2, <1>6 DEF StoreTypes, SlotType
<1>8. net' \in Seq(PacketSet)
  BY NetStep DEF Types, Shapes, NetSteps
<1>9. burst' \in Burst
  BY BurstShapeKept DEF Types, Shapes
<1>10. NetTypes'
  BY <1>4, <1>8, <1>9 DEF NetTypes
<1>11. MemTypes'
  BY MemTypesKept DEF Types, Shapes
<1>12. QED BY <1>1, <1>2, <1>3, <1>5, <1>7, <1>10, <1>11 DEF Types

(* A cycle keeps every part of the control invariant.                      *)
LEMMA ShapesKept ==
  ASSUME Types, Shapes,
         NEW locks, NEW ack, NEW served, NEW flit, Ticks(locks, ack, served, flit)
  PROVE  Shapes'
<1>0. Dcache /\ Icache /\ Processor /\ RspSteps(served, flit)
  BY DataFlow DEF Ticks, Cycle
<1>1. AskedData'
  BY <1>0, AskedDataKept DEF Types, Shapes
<1>2. ServedData'
  BY <1>0, ServedDataKept DEF Types, Shapes
<1>3. ServedIns'
  BY <1>0, ServedInsKept DEF Types, Shapes
<1>4. DcacheShape'
  BY <1>0, DcacheShapeKept DEF Types, Shapes
<1>5. IcacheShape'
  BY <1>0, IcacheShapeKept DEF Types, Shapes
<1>6. WbufShape'
  BY WbufShapeKept DEF Types, Shapes
<1>7. BurstShape'
  BY BurstShapeKept DEF Types, Shapes
<1>8. RspShape'
  BY <1>0, RspShapeKept DEF Types, Shapes
<1>9. OncePlaced'
  BY OncePlacedKept DEF Types, Shapes
<1>10. WritesPlaced'
  BY WritesPlacedKept DEF Types, Shapes
<1>11. NetDistinct'
  BY NetDistinctKept DEF Types, Shapes
<1>12. PacketsAsk'
  BY PacketsAskKept DEF Types, Shapes
<1>13. DataTraffic' /\ InsTraffic'
  BY DataTrafficKept, InsTrafficKept
<1>14. QED
  BY <1>1, <1>2, <1>3, <1>4, <1>5, <1>6, <1>7, <1>8, <1>9, <1>10, <1>11, <1>12, <1>13 DEF Shapes

(* So does a step that changes nothing.                                    *)
LEMMA StutterKeeps ==
  ASSUME Types, Shapes, UNCHANGED vars
  PROVE  Types' /\ Shapes'
<1> USE DEF vars, externals, dcacheRegs, icacheRegs, cmdVars, cmdRegs, rspVars
<1>1. Types'
  <2>1. DataTypes' /\ InsTypes'
    BY DEF Types, DataTypes, InsTypes
  <2>2. CmdTypes'
    BY DEF Types, CmdTypes
  <2>3. RspTypes'
    BY DEF Types, RspTypes
  <2>4. StoreTypes' /\ NetTypes' /\ MemTypes'
    BY DEF Types, StoreTypes, NetTypes, MemTypes
  <2>5. QED BY <2>1, <2>2, <2>3, <2>4 DEF Types
<1>2. AskedData' /\ ServedData' /\ ServedIns'
  BY DEF Shapes, AskedData, ServedData, ServedIns, Stores, Cacheable
<1>3. DcacheShape' /\ IcacheShape'
  BY DEF Shapes, DcacheShape, IcacheShape, CacheShape, Hit, Holds
<1>4. WbufShape' /\ BurstShape'
  BY DEF Shapes, WbufShape, BurstShape, Gathers, Busy
<1>5. InFlight' = InFlight
  BY DEF InFlight
<1>6. \A type : (AtRsp(type)' <=> AtRsp(type)) /\ Place(type)' = Place(type)
  BY <1>5 DEF Place, AtReq, AtCmd, AtNet, AtRsp
<1>7. RspShape'
  BY <1>6 DEF Shapes, RspShape, AtRsp
<1>8. OncePlaced'
  BY <1>5, <1>6 DEF Shapes, OncePlaced, AtReq, AtCmd, AtNet, AtRsp
<1>9. WritesPlaced' /\ NetDistinct'
  BY <1>5, <1>6 DEF Shapes, WritesPlaced, NetDistinct, AtRsp
<1>10. PacketsAsk'
  BY <1>5 DEF Shapes, PacketsAsk, Asks, OneWord
<1>11. \A type, size : Coming(type, size)' = Coming(type, size)
  BY <1>6 DEF Coming
<1>12. ASSUME NEW line, NEW word, NEW size, NEW fifo, NEW error, NEW type,
              Accounts(line, word, size, fifo, error, type)
       PROVE  Accounts(line, word, size, fifo, error, type)'
  BY <1>6, <1>11, <1>12 DEF Accounts
<1>13. DataTraffic' /\ InsTraffic'
  BY <1>6, <1>11 DEF Shapes, DataTraffic, InsTraffic, Accounts
<1>14. QED
  BY <1>1, <1>2, <1>3, <1>4, <1>7, <1>8, <1>9, <1>10, <1>13 DEF Shapes

(* The reset state satisfies the control invariant.                        *)
LEMMA InitShapes ==
  ASSUME Init
  PROVE  Types /\ Shapes
<1> USE DEF Init, DcacheInit, IcacheInit, VciInit
<1>0. <<>> \in Seq(PacketSet) /\ <<>> \in Seq(FlitSet) /\ <<>> \in Seq(Value \cup {None}) /\ Len(<<>>) <= 1
      /\ DOMAIN net = {} /\ DOMAIN rsp = {}
  OBVIOUS
<1>1. EmptyCache \in CacheType /\ \A way \in Way : ~EmptyCache[way].valid
  BY DEF EmptyCache, InvalidWay, CacheType
<1>2. EmptyBuffer \in [Slot -> SlotType] /\ \A s \in Slot : EmptyBuffer[s] = EmptySlot /\ EmptyBuffer[s].st = "EMPTY"
  BY EmptySlotTyped DEF EmptyBuffer
<1>3. DataTypes
  BY Zero, StoresAssumption DEF DataTypes, DcacheState, NoData, DataRequest
<1>4. InsTypes
  BY Zero, StoresAssumption DEF InsTypes, IcacheState
<1>5. CmdTypes
  <2>1. 0 \in 0 .. NbWords
    BY StoresAssumption
  <2>2. QED BY <2>1, Zero DEF CmdTypes
<1>6. RspTypes
  BY <1>0 DEF RspTypes
<1>7. StoreTypes
  BY <1>1, <1>2 DEF StoreTypes, SlotType
<1>8. NetTypes
  BY <1>0 DEF NetTypes, NoBurst, Burst
<1>9. MemTypes
  <2>1. \A line \in Line : \A word \in Word : Contents[line][word] \in Value
    BY ContentsAreValues
  <2>2. Contents \in [Line -> [Word -> Value]]
    BY <2>1, TopAssumption
  <2>3. QED BY <2>2 DEF MemTypes
<1>10. AskedData
  <2>1. \A line \in StoredLine : \A word \in Word : Contents[line][word] \in Bit
    BY TopAssumption DEF Bit
  <2>2. QED BY <2>1 DEF AskedData, NoData, Stores
<1>11. ServedData /\ ServedIns
  BY DEF ServedData, ServedIns, NoFetch, Missing, Writing
<1>12. DcacheShape /\ IcacheShape
  BY <1>1 DEF DcacheShape, IcacheShape, CacheShape, Missing
<1>13. WbufShape /\ BurstShape
  BY <1>2 DEF WbufShape, BurstShape, Busy, Gathers
<1>14. InFlight = {}
  BY <1>0 DEF InFlight
<1>15. \A type \in ReadType : Place(type) = "none" /\ ~AtReq(type) /\ ~AtCmd(type) /\ ~AtNet(type) /\ ~AtRsp(type)
  BY <1>14 DEF Place, AtReq, AtCmd, AtNet, AtRsp, ReadType
<1>16. RspShape /\ OncePlaced
  BY <1>0, <1>15 DEF RspShape, OncePlaced
<1>17. WritesPlaced /\ NetDistinct /\ PacketsAsk
  BY <1>0, <1>14 DEF WritesPlaced, NetDistinct, PacketsAsk, AtRsp
<1>18. DataTraffic /\ InsTraffic
  BY <1>15 DEF DataTraffic, InsTraffic, ReadType, Missing
<1>19. QED
  BY <1>3, <1>4, <1>5, <1>6, <1>7, <1>8, <1>9, <1>10, <1>11, <1>12, <1>13, <1>16, <1>17, <1>18 DEF Types, Shapes

Controlled == Types /\ Shapes

(* The control invariant holds in every state of the cache, its processor  *)
(* and its network: the machines DCACHE, ICACHE, CMD and RSP of            *)
(* vci_xcache_wrapper_advanced.cpp agree at every cycle on what each waits *)
(* for.                                                                    *)
THEOREM AlwaysControlled == Spec => []Controlled
<1>1. Init => Controlled
  BY InitShapes DEF Controlled
<1>2. Controlled /\ [Clock]_vars => Controlled'
  <2>1. ASSUME Controlled, UNCHANGED vars
        PROVE  Controlled'
    BY <2>1, StutterKeeps DEF Controlled
  <2>2. ASSUME Controlled, Clock
        PROVE  Controlled'
    <3>1. PICK locks, ack, served, flit : Ticks(locks, ack, served, flit)
      BY <2>2, ClockTicks
    <3>2. QED BY <2>2, <3>1, TypesKept, ShapesKept DEF Controlled
  <2>3. QED BY <2>1, <2>2
<1>3. QED BY <1>1, <1>2, PTL DEF Spec

(* The control invariant bounds every register.                            *)
LEMMA TypesAreOK == Controlled => TypeOK
<1> SUFFICES ASSUME Controlled
             PROVE  TypeOK
  OBVIOUS
<1>1. cmd_fsm = "DATA_WRITE" => cmd_cpt <= cmd_max
  BY DEF Controlled, Shapes, BurstShape
<1>2. wbuf \in [Slot -> [st : {"EMPTY", "OPEN", "LOCKED", "SENT"}, line : CacheableLine \cup {None},
                         data : [Word -> Value \cup {Hole}]]]
  <2>1. Burst \subseteq [Word -> Value \cup {Hole}]
    BY BitIsValue DEF Burst
  <2>2. \A s \in Slot : wbuf[s] \in [st : {"EMPTY", "OPEN", "LOCKED", "SENT"}, line : CacheableLine \cup {None},
                                     data : [Word -> Value \cup {Hole}]]
    BY <2>1 DEF Controlled, Types, StoreTypes
  <2>3. QED BY <2>2 DEF Controlled, Types, StoreTypes
<1>3. Len(fifo_data) <= FifoDepth /\ Len(fifo_ins) <= FifoDepth
  BY StoresAssumption DEF Controlled, Types, RspTypes
<1>4. QED
  BY <1>1, <1>2, <1>3 DEF TypeOK, Controlled, Types, DataTypes, InsTypes, CmdTypes, RspTypes, StoreTypes, MemTypes

(* Every register of the wrapper, every slot of its write buffer and every *)
(* word in the network keeps its type: no way, word or slot index of the   *)
(* cache leaves its range, and no FIFO holds more than its place.          *)
THEOREM TypeAlwaysOK == Spec => []TypeOK
BY AlwaysControlled, TypesAreOK, PTL

(* The words that a run counts are those that the invariant accounts for.  *)
LEMMA ToComeIs ==
  ASSUME Controlled, NEW type \in ReadType, NEW size \in Nat, NEW request, request <=> AtReq(type)
  PROVE  ToCome(request, {type}, size) = Coming(type, size)
<1>1. OnItsWay({type}) <=> AtCmd(type) \/ AtNet(type)
  BY DEF OnItsWay, AtCmd, AtNet, InFlight
<1>2. CASE request \/ OnItsWay({type})
  <2>1. Place(type) \in {"req", "cmd", "net"}
    BY <1>1, <1>2 DEF Place
  <2>2. QED BY <1>2, <2>1 DEF ToCome, Coming
<1>3. CASE ~request /\ ~OnItsWay({type})
  <2>1. ToCome(request, {type}, size) = Cardinality({n \in DOMAIN rsp : rsp[n].trdid.type \in {type}})
    BY <1>3 DEF ToCome
  <2>2. CASE AtRsp(type)
    <3>1. Place(type) = "rsp"
      BY <1>1, <1>3, <2>2 DEF Place
    <3>2. \A n \in DOMAIN rsp : rsp[n].trdid.type = type
      BY <2>2 DEF Controlled, Shapes, RspShape, AtRsp
    <3>3. DOMAIN rsp = 1 .. Len(rsp) /\ Len(rsp) \in Nat
      BY DomainIs DEF Controlled, Types, NetTypes
    <3>4. {n \in DOMAIN rsp : rsp[n].trdid.type \in {type}} = 1 .. Len(rsp)
      BY <3>2, <3>3
    <3>5. Cardinality(1 .. Len(rsp)) = Len(rsp)
      <4>2. PICK n \in Nat : n = Len(rsp)
        BY <3>3
      <4>3. Cardinality(1 .. n) = IF 1 > n THEN 0 ELSE n - 1 + 1
        BY FS_Interval
      <4>4. QED BY <4>2, <4>3
    <3>6. QED BY <2>1, <3>1, <3>4, <3>5 DEF Coming
  <2>3. CASE ~AtRsp(type)
    <3>1. Place(type) = "none"
      BY <1>1, <1>3, <2>3 DEF Place
    <3>2. \A n \in DOMAIN rsp : rsp[n].trdid.type /= type
      <4>1. \A n \in DOMAIN rsp : rsp[n].trdid = rsp[1].trdid
        BY DEF Controlled, Shapes, RspShape
      <4>2. rsp = <<>> => DOMAIN rsp = {}
        OBVIOUS
      <4>3. QED BY <2>3, <4>1, <4>2 DEF AtRsp
    <3>3. {n \in DOMAIN rsp : rsp[n].trdid.type \in {type}} = {}
      BY <3>2
    <3>4. QED BY <2>1, <3>1, <3>3, FS_EmptySet DEF Coming
  <2>4. QED BY <2>2, <2>3
<1>4. QED BY <1>2, <1>3

(* A cache that waits accounts for its words.                              *)
LEMMA AccountedIs ==
  ASSUME Controlled, NEW fsm, NEW word \in Nat, NEW line, NEW fifo \in Seq(Value \cup {None}), NEW error \in BOOLEAN,
         NEW miss, NEW unc, miss \in ReadType, unc \in ReadType,
         fsm \notin Missing => Place(miss) = "none", fsm /= "UNC_WAIT" => Place(unc) = "none",
         fsm \in Missing => Accounts(line, word, NbWords, fifo, error, miss),
         fsm = "UNC_WAIT" => Accounts(line, 0, 1, fifo, error, unc),
         fsm \notin Missing \cup {"UNC_WAIT"} => fifo = <<>> /\ ~error
  PROVE  Accounted(fsm, word, line, fifo, error, Coming(miss, NbWords), Coming(unc, 1))
<1>1. NbWords \in Nat \ {0} /\ 1 \in Nat \ {0} /\ NetTypes
  BY StoresAssumption DEF Controlled, Types
<1>2. /\ Coming(miss, NbWords) \in Nat /\ Coming(unc, 1) \in Nat
      /\ Coming(miss, NbWords) = 0 <=> Place(miss) = "none"
      /\ Coming(unc, 1) = 0 <=> Place(unc) = "none"
  BY <1>1, ComingIs, NoneComing, NoneIs
<1>3. CASE fsm \in Missing
  <2>1. fsm /= "UNC_WAIT" /\ Coming(unc, 1) = 0
    BY <1>2, <1>3 DEF Missing
  <2>2. Accounts(line, word, NbWords, fifo, error, miss)
    BY <1>3
  <2>3. CASE line \notin ErrorLine
    <3>1. word + Len(fifo) + Coming(miss, NbWords) = NbWords /\ ~error
      BY <2>2, <2>3 DEF Accounts
    <3>2. QED BY <1>3, <2>1, <2>3, <3>1 DEF Accounted, Missing
  <2>4. CASE line \in ErrorLine
    <3>1. fifo = <<>> /\ (error <=> Coming(miss, NbWords) = 0)
      BY <1>2, <2>2, <2>4 DEF Accounts
    <3>2. Coming(miss, NbWords) + Coming(unc, 1) = Coming(miss, NbWords)
      BY <1>2, <2>1
    <3>3. QED BY <1>3, <2>1, <2>4, <3>1, <3>2 DEF Accounted, Missing
  <2>5. QED BY <2>3, <2>4
<1>4. CASE fsm = "UNC_WAIT"
  <2>1. fsm \notin Missing /\ Coming(miss, NbWords) = 0
    BY <1>2, <1>4 DEF Missing
  <2>2. Accounts(line, 0, 1, fifo, error, unc)
    BY <1>4
  <2>3. CASE line \notin ErrorLine
    <3>1. 0 + Len(fifo) + Coming(unc, 1) = 1 /\ ~error
      BY <2>2, <2>3 DEF Accounts
    <3>2. Len(fifo) + Coming(unc, 1) = 1
      BY <1>2, <3>1
    <3>3. QED BY <1>4, <2>1, <2>3, <3>1, <3>2 DEF Accounted, Missing
  <2>4. CASE line \in ErrorLine
    <3>1. fifo = <<>> /\ (error <=> Coming(unc, 1) = 0)
      BY <1>2, <2>2, <2>4 DEF Accounts
    <3>2. Coming(miss, NbWords) + Coming(unc, 1) = Coming(unc, 1)
      BY <1>2, <2>1
    <3>3. QED BY <1>4, <2>1, <2>4, <3>1, <3>2 DEF Accounted, Missing
  <2>5. QED BY <2>3, <2>4
<1>5. CASE fsm \notin Missing \cup {"UNC_WAIT"}
  <2>1. Coming(miss, NbWords) + Coming(unc, 1) = 0 /\ fifo = <<>> /\ ~error
    BY <1>2, <1>5
  <2>2. QED BY <1>5, <2>1 DEF Accounted, Missing
<1>6. QED BY <1>3, <1>4, <1>5

(* The control invariant accounts for every response.                      *)
LEMMA ResponsesAreAccounted == Controlled => ResponsesAccounted
<1> SUFFICES ASSUME Controlled
             PROVE  ResponsesAccounted
  OBVIOUS
<1>0. {"DATA_MISS", "DATA_UNC", "INS_MISS", "INS_UNC"} \subseteq ReadType /\ NbWords \in Nat /\ 1 \in Nat
  BY StoresAssumption DEF ReadType
<1>1. /\ ToCome(d_miss_req, {"DATA_MISS"}, NbWords) = Coming("DATA_MISS", NbWords)
      /\ ToCome(d_unc_req, {"DATA_UNC"}, 1) = Coming("DATA_UNC", 1)
      /\ ToCome(i_miss_req, {"INS_MISS"}, NbWords) = Coming("INS_MISS", NbWords)
      /\ ToCome(i_unc_req, {"INS_UNC"}, 1) = Coming("INS_UNC", 1)
  <2>1. /\ d_miss_req <=> AtReq("DATA_MISS")
        /\ d_unc_req <=> AtReq("DATA_UNC")
        /\ i_miss_req <=> AtReq("INS_MISS")
        /\ i_unc_req <=> AtReq("INS_UNC")
    BY DEF AtReq
  <2>2. QED BY <1>0, <2>1, ToComeIs
<1>2. Accounted(d_fsm, d_word, d_addr.line, fifo_data, data_error, Coming("DATA_MISS", NbWords), Coming("DATA_UNC", 1))
  <2>1. d_word \in Nat /\ fifo_data \in Seq(Value \cup {None}) /\ data_error \in BOOLEAN
    BY StoresAssumption DEF Controlled, Types, DataTypes, RspTypes
  <2>2. DataTraffic
    BY DEF Controlled, Shapes
  <2>3. QED BY <1>0, <2>1, <2>2, AccountedIs DEF DataTraffic
<1>3. Accounted(i_fsm, i_word, i_addr.line, fifo_ins, ins_error, Coming("INS_MISS", NbWords), Coming("INS_UNC", 1))
  <2>1. i_word \in Nat /\ fifo_ins \in Seq(Value \cup {None}) /\ ins_error \in BOOLEAN
    BY StoresAssumption DEF Controlled, Types, InsTypes, RspTypes
  <2>2. InsTraffic
    BY DEF Controlled, Shapes
  <2>3. QED BY <1>0, <2>1, <2>2, AccountedIs DEF InsTraffic
<1>4. QED BY <1>1, <1>2, <1>3 DEF ResponsesAccounted

(* The words of a response never get mixed: what the DCACHE and ICACHE     *)
(* machines have received, what is in r_vci_rsp_fifo_* and what is still   *)
(* to come always add up to the request they wait for, and a cache that    *)
(* waits for nothing finds its FIFO and its error register empty.          *)
THEOREM AllResponsesAccounted == Spec => []ResponsesAccounted
BY AlwaysControlled, ResponsesAreAccounted, PTL

-----------------------------------------------------------------------------
(* THE VALUES.                                                             *)

(* A value that a read of the word may be answered with.                   *)
Good(line, word, value) ==
  /\ line \in OwnLine => value = Latest(line, word)
  /\ line \in (fresh \cap DmaLine) \ ErrorLine => value = "new"

CachedRight ==
  \A way \in Way : dcache[way].valid => \A w \in Word :
    \/ d_fsm = "WRITE_UPDT" /\ d_addr = [line |-> dcache[way].tag, word |-> w]
    \/ Good(dcache[way].tag, w, dcache[way].data[w])

FillRight ==
  d_fsm \in Missing /\ d_addr.line \notin ErrorLine =>
    /\ \A w \in Word : w < d_word => Good(d_addr.line, w, dcache[d_way].data[w])
    /\ fifo_data /= <<>> => Good(d_addr.line, d_word, fifo_data[1])
    /\ Place("DATA_MISS") = "rsp" =>
         \A k \in DOMAIN rsp : Good(d_addr.line, NbWords - Len(rsp) + k - 1, rsp[k].rdata)

MissClear == Place("DATA_MISS") \in {"cmd", "net"} => WbufMiss(wbuf, d_addr.line)

UncRight ==
  d_fsm = "UNC_WAIT" /\ d_type \in {"READ", "LL"} /\ d_addr.line \notin ErrorLine =>
    /\ fifo_data /= <<>> => Good(d_addr.line, d_addr.word, fifo_data[1])
    /\ Place("DATA_UNC") = "rsp" => Good(d_addr.line, d_addr.word, rsp[1].rdata)

DmaRight ==
  /\ fresh /= {} => dmaDone
  /\ dmaDone => \A line \in DmaLine : \A w \in Word : mem[line][w] = "new"

(* A write to a device that has not reached it.                            *)
Pending(line, word) ==
  /\ Stores(dreq) /\ dreq.addr = [line |-> line, word |-> word]
  /\ d_fsm = "UNC_WAIT" => Place("DATA_UNC") \in {"req", "cmd", "net"}

DeviceRight ==
  \A line \in OwnLine \ CacheableLine : \A w \in Word :
    ~Pending(line, w) => mem[line][w] = expected[line][w]

(* Where a write to a cacheable word is on its way to memory.              *)
InCache(line, word) == d_fsm \in Writing /\ d_addr = [line |-> line, word |-> word]
InSlot(s, line, word) == Gathers(s) /\ wbuf[s].line = line /\ wbuf[s].data[word] /= Hole
InBuffer(line, word) == \E s \in Slot : InSlot(s, line, word)
InPacket(p, line, word) == p.write /\ p.line = line /\ p.words[word] /= Hole
InNet(line, word) == \E p \in InFlight : InPacket(p, line, word)

WriteRight(line, word) ==
  /\ InCache(line, word) => d_wdata = Latest(line, word)
  /\ ~InCache(line, word) =>
       \A s \in Slot : InSlot(s, line, word) => wbuf[s].data[word] = Latest(line, word)
  /\ ~InCache(line, word) /\ ~InBuffer(line, word) =>
       \A p \in InFlight : InPacket(p, line, word) => p.words[word] = Latest(line, word)
  /\ ~InCache(line, word) /\ ~InBuffer(line, word) /\ ~InNet(line, word) => mem[line][word] = Latest(line, word)

WritesRight == \A line \in OwnLine \cap CacheableLine : \A w \in Word : WriteRight(line, w)

(* The write commands on their way.                                        *)
LEMMA WritePacketIs ==
  ASSUME Controlled, NEW p \in InFlight, p.write
  PROVE  \/ /\ p.trdid.type = "DATA_WRITE" /\ p.trdid.slot \in Slot
            /\ wbuf[p.trdid.slot].st = "SENT" /\ p.line = wbuf[p.trdid.slot].line
            /\ p.line \in CacheableLine \cap StoredLine
         \/ /\ p.trdid.type = "DATA_UNC" /\ d_fsm = "UNC_WAIT" /\ Place("DATA_UNC") = "net"
            /\ p.line = d_addr.line /\ d_addr = dreq.addr /\ Stores(dreq) /\ d_wdata = dreq.wdata
            /\ p.words = OneWord(d_addr, d_wdata) /\ p.line \in StoredLine \ CacheableLine
<1>1. p.trdid \in TrdidSet
  BY InFlightIs DEF Controlled, Types
<1>2. Asks(p)
  BY DEF Controlled, Shapes, PacketsAsk
<1>3. CASE p.trdid.type = "DATA_WRITE"
  <2>1. p.trdid.slot \in Slot /\ wbuf[p.trdid.slot].st = "SENT" /\ p.line = wbuf[p.trdid.slot].line
    BY <1>1, <1>3 DEF Controlled, Shapes, WritesPlaced, TrdidSet
  <2>2. p.line \in CacheableLine \cap StoredLine
    BY <2>1 DEF Controlled, Shapes, WbufShape, Busy
  <2>3. QED BY <1>3, <2>1, <2>2
<1>4. CASE p.trdid.type = "DATA_UNC"
  <2>1. AtNet("DATA_UNC")
    BY <1>4 DEF AtNet
  <2>2. Place("DATA_UNC") = "net"
    BY <2>1 DEF Controlled, Shapes, OncePlaced, ReadType
  <2>3. d_fsm = "UNC_WAIT"
    BY <2>2 DEF Controlled, Shapes, DataTraffic
  <2>4. d_addr = dreq.addr /\ d_type = dreq.type /\ d_wdata = dreq.wdata /\ ~Cacheable(dreq.addr)
    BY <2>3 DEF Controlled, Shapes, ServedData
  <2>5. d_type \in {"WRITE", "SC"} /\ p.line = d_addr.line /\ p.words = OneWord(d_addr, d_wdata)
    BY <1>2, <1>4 DEF Asks
  <2>6. Stores(dreq) /\ p.line \in StoredLine
    BY <2>4, <2>5 DEF Stores, Controlled, Shapes, AskedData
  <2>7. QED BY <1>4, <2>2, <2>3, <2>4, <2>5, <2>6 DEF Cacheable
<1>5. CASE p.trdid.type \in {"DATA_MISS", "INS_MISS", "INS_UNC"}
  BY <1>2, <1>5 DEF Asks
<1>6. QED BY <1>1, <1>3, <1>4, <1>5 DEF TrdidSet, ReadType

(* The lines that the program stores to are written by nobody else.        *)
LEMMA StoredIs ==
  ASSUME NEW line \in StoredLine
  PROVE  line \in Line /\ line \notin DmaLine /\ line \notin FetchedLine
<1>1. \A q \in Requests : Stores(q) => q.addr.line \in Line
  BY AskedForm DEF Access, Addr
<1>2. QED BY <1>1, TopAssumption DEF StoredLine

(* The cache waits: the processor does, too.                               *)
LEMMA Waits ==
  ASSUME Controlled, d_fsm \in Missing \cup {"UNC_WAIT"}, ~Drsp.valid,
         NEW locks, NEW ack, NEW served, NEW flit, Ticks(locks, ack, served, flit)
  PROVE  /\ dreq' = dreq /\ expected' = expected /\ fresh' = fresh
         /\ \A line, word, value : Good(line, word, value)' <=> Good(line, word, value)
<1>1. dreq.type /= "NONE"
  BY DEF Controlled, Shapes, ServedData
<1>2. dreq' = dreq /\ expected' = expected
  BY <1>1, ProcessorCases DEF Controlled, Types, Ticks, Cycle, HoldsRequest, Free
<1>3. fresh' = fresh
  BY DEF Ticks, Cycle, Invalidate, Missing
<1>4. QED BY <1>2, <1>3 DEF Good, Latest

(* When a cache that waits has its answer.                                 *)
LEMMA WaitAnswer ==
  ASSUME Controlled, d_fsm \in Missing \cup {"UNC_WAIT"}
  PROVE  Drsp.valid <=> DataError \/ (d_fsm = "UNC_WAIT" /\ DataGet)
<1>1. ~ReadHit /\ ~WriteHit /\ ~WriteMiss /\ ~SyncDone
  BY DEF ReadHit, WriteHit, WriteMiss, SyncDone, Considered, Accepted, Missing
<1>2. QED BY <1>1, AnswerIs DEF Controlled, Types, Shapes, Missing

(* An uncached access is not answered while its request is under way.      *)
LEMMA UncAnswer ==
  ASSUME Controlled, d_fsm = "UNC_WAIT", Place("DATA_UNC") /= "none"
  PROVE  ~DataGet /\ ~DataError
<1>1. Accounts(d_addr.line, 0, 1, fifo_data, data_error, "DATA_UNC")
  BY DEF Controlled, Shapes, DataTraffic
<1>2. DataGet => Coming("DATA_UNC", 1) = 0
  BY DataWord DEF Controlled, Types, Shapes
<1>3. Coming("DATA_UNC", 1) = 0 => Place("DATA_UNC") = "none"
  BY NoneComing DEF Controlled, Types
<1>4. DataError => Place("DATA_UNC") = "none"
  BY <1>1 DEF DataError, Accounts
<1>5. QED BY <1>2, <1>3, <1>4

(* A cycle keeps a miss on its way clear of the write buffer: no write of  *)
(* its line is buffered.                                                   *)
LEMMA MissClearKept ==
  ASSUME Controlled, MissClear,
         NEW locks, NEW ack, NEW served, NEW flit, Ticks(locks, ack, served, flit)
  PROVE  MissClear'
<1>1. Moves("DATA_MISS", served, ack, flit)
  BY DataFlow DEF Controlled, ReadType
<1> SUFFICES ASSUME Place("DATA_MISS")' \in {"cmd", "net"}
             PROVE  WbufMiss(wbuf, d_addr.line)'
  BY DEF MissClear
<1>2. Place("DATA_MISS") \in {"req", "cmd", "net"}
  BY <1>1 DEF Moves, Rests, Arises, Starts, Leaves, Reaches, Remains, Gives
<1>3. d_fsm \in Missing
  BY <1>2 DEF Controlled, Shapes, DataTraffic
<1>4. d_addr' = d_addr
  BY <1>3, DataHeld DEF Controlled, Types, Shapes, Ticks, Cycle
<1>5. ~Accepted
  BY <1>3 DEF Accepted, Missing
<1>6. CASE Place("DATA_MISS") = "req"
  <2>1. CmdTakes("DATA_MISS")
    BY <1>1, <1>6 DEF Moves, Rests, Arises, Starts, Leaves, Reaches, Remains, Gives
  <2>2. WbufMiss(Updated(locks), d_addr.line)
    BY <2>1, CmdOf, CmdStep DEF Controlled, Types
  <2>3. \A s \in Slot : Busy(wbuf, s)' => Busy(Updated(locks), s) /\ Updated(locks)[s].line = wbuf'[s].line
    BY SlotStep DEF Controlled, Types, Shapes
  <2>4. QED BY <1>4, <2>2, <2>3 DEF WbufMiss, Busy
<1>7. CASE Place("DATA_MISS") \in {"cmd", "net"}
  <2>1. WbufMiss(wbuf, d_addr.line)
    BY <1>7 DEF MissClear
  <2>2. \A s \in Slot : SlotSteps(s, ack, flit)
    BY SlotStep DEF Controlled, Types, Shapes
  <2>3. ASSUME NEW s \in Slot, wbuf'[s].st /= "EMPTY"
        PROVE  wbuf[s].st /= "EMPTY" /\ wbuf'[s].line = wbuf[s].line
    BY <1>5, <2>2, <2>3, EmptySlotTyped DEF SlotSteps, SlotKept, SlotLocked, SlotWritten, SlotSent, SlotDone
  <2>4. QED BY <1>4, <2>1, <2>3 DEF WbufMiss, Busy
<1>8. QED BY <1>2, <1>6, <1>7

(* A cycle keeps what the transfer of the device has left in memory.       *)
LEMMA DmaRightKept ==
  ASSUME Controlled, DmaRight,
         NEW locks, NEW ack, NEW served, NEW flit, Ticks(locks, ack, served, flit)
  PROVE  DmaRight'
<1>1. fresh' /= {} => fresh /= {} \/ dmaDone
  BY DEF Ticks, Cycle, Invalidate
<1>2. MemKept \/ MemWritten(served) \/ MemDma
  BY MemStep
<1>3. dmaDone \in BOOLEAN
  BY DEF Controlled, Types, MemTypes
<1>4. DmaLine \subseteq Line
  BY TopAssumption
<1>5. CASE MemKept
  BY <1>1, <1>5 DEF MemKept, DmaRight
<1>6. CASE MemWritten(served)
  <2>1. /\ net[served] \in InFlight
        /\ \A line \in Line : \A w \in Word : mem'[line][w] =
             IF line = net[served].line /\ net[served].words[w] /= Hole
             THEN net[served].words[w] ELSE mem[line][w]
    BY <1>6, MemIs DEF Controlled, Types
  <2>2. net[served].line \notin DmaLine
    BY <1>6, <2>1, WritePacketIs, StoredIs DEF MemWritten
  <2>3. dmaDone' = dmaDone
    BY <1>6 DEF MemWritten
  <2>4. \A line \in DmaLine : \A w \in Word : mem'[line][w] = mem[line][w]
    BY <1>4, <2>1, <2>2
  <2>5. QED BY <1>1, <2>3, <2>4 DEF DmaRight
<1>7. CASE MemDma
  <2>1. \A line \in DmaLine : \A w \in Word : mem'[line][w] = "new"
    BY <1>4, <1>7, MemIs DEF Controlled, Types
  <2>2. dmaDone'
    BY <1>7 DEF MemDma
  <2>3. QED BY <2>1, <2>2 DEF DmaRight
<1>8. QED BY <1>2, <1>5, <1>6, <1>7

(* The lines that only this processor writes.                              *)
LEMMA OwnLineIs ==
  ASSUME NEW line \in OwnLine
  PROVE  line \in Line /\ line \notin DmaLine /\ line \notin ErrorLine
BY DEF OwnLine

(* A word that only the processor writes, in memory.                       *)
LEMMA WordStep ==
  ASSUME Controlled, NEW line \in OwnLine, NEW w \in Word,
         NEW locks, NEW ack, NEW served, NEW flit, Ticks(locks, ack, served, flit)
  PROVE  mem'[line][w] = IF served \in DOMAIN net /\ InPacket(net[served], line, w)
                         THEN net[served].words[w] ELSE mem[line][w]
<1>1. line \in Line /\ line \notin DmaLine /\ line \notin ErrorLine
  BY OwnLineIs
<1>2. mem \in [Line -> [Word -> Value]] /\ DOMAIN net = 1 .. Len(net) /\ net \in Seq(PacketSet)
  BY DomainIs DEF Controlled, Types, MemTypes, NetTypes
<1>3. CASE served = 0
  <2>1. Deliver(flit)
    BY <1>3 DEF Ticks, Cycle
  <2>2. mem'[line][w] = mem[line][w]
    BY <1>1, <1>2, <2>1 DEF Deliver, Dma
  <2>3. QED BY <1>2, <1>3, <2>2
<1>4. CASE served /= 0
  <2>1. served \in DOMAIN net /\ mem' = Execute(net[served])
    BY <1>4 DEF Ticks, Cycle, Serve, Serviceable
  <2>2. net[served] \in PacketSet
    BY <1>2, <2>1
  <2>3. CASE net[served].write /\ net[served].line \notin ErrorLine
    <3>1. MemWritten(served)
      BY <2>1, <2>3, <1>4 DEF MemWritten, Execute, Ticks, Cycle, Serve
    <3>2. mem'[line][w] = IF line = net[served].line /\ net[served].words[w] /= Hole
                   THEN net[served].words[w] ELSE mem[line][w]
      BY <1>1, <3>1, MemIs DEF Controlled, Types
    <3>3. QED BY <2>1, <2>3, <3>2 DEF InPacket
  <2>4. CASE ~(net[served].write /\ net[served].line \notin ErrorLine)
    <3>1. mem' = mem
      BY <2>1, <2>4 DEF Execute
    <3>2. ~InPacket(net[served], line, w)
      BY <2>4, <1>1 DEF InPacket
    <3>3. QED BY <3>1, <3>2
  <2>5. QED BY <2>3, <2>4
<1>5. QED BY <1>3, <1>4

(* The word, in a slot of the write buffer after the cycle.                *)
LEMMA SlotWord ==
  ASSUME Controlled, NEW line \in CacheableLine, NEW w \in Word, ~InCache(line, w),
         NEW locks, NEW ack, NEW served, NEW flit, Ticks(locks, ack, served, flit),
         NEW s \in Slot
  PROVE  /\ InSlot(s, line, w)' => InSlot(s, line, w) /\ wbuf'[s].data[w] = wbuf[s].data[w]
         /\ InSlot(s, line, w) /\ ~InSlot(s, line, w)' => SlotSent(s, ack)
<1>1. SlotSteps(s, ack, flit)
  BY SlotStep DEF Controlled, Types, Shapes
<1>2. wbuf[s] \in SlotType
  BY SlotTyped DEF Controlled, Types
<1>3. CASE SlotKept(s) \/ SlotLocked(s)
  BY <1>3 DEF SlotKept, SlotLocked, InSlot, Gathers
<1>4. CASE SlotWritten(s)
  <2>1. d_fsm = "WRITE_REQ" /\ d_addr \in Addr /\ d_wdata \in Bit
    BY <1>4 DEF SlotWritten, Accepted, Writing, Controlled, Shapes, ServedData
  <2>2. ASSUME d_addr.line = line PROVE d_addr.word /= w
    BY <2>1, <2>2 DEF InCache, Writing, Addr
  <2>3. wbuf[s].data \in [Word -> Bit \cup {Hole}] /\ wbuf'[s].data = [wbuf[s].data EXCEPT ![d_addr.word] = d_wdata]
    BY <1>2, <1>4 DEF SlotWritten, Filled, SlotType, Burst
  <2>4. d_addr.line = line => wbuf'[s].data[w] = wbuf[s].data[w]
    BY <2>2, <2>3
  <2>5. wbuf'[s].line = d_addr.line /\ wbuf'[s].st \in {"OPEN", "LOCKED"}
    BY <1>4 DEF SlotWritten
  <2>6. \/ wbuf[s].st = "OPEN" /\ wbuf[s].line = d_addr.line
        \/ wbuf[s].st = "EMPTY"
    BY <1>4 DEF SlotWritten, Accepts, Busy
  <2>7. wbuf[s].st = "EMPTY" => wbuf[s].data[w] = Hole
    BY EmptySlotTyped DEF Controlled, Shapes, WbufShape, Busy
  <2>8. QED BY <2>4, <2>5, <2>6, <2>7 DEF InSlot, Gathers
<1>5. CASE SlotSent(s, ack)
  BY <1>5 DEF SlotSent, InSlot, Gathers
<1>6. CASE SlotDone(s, flit)
  BY <1>6, EmptySlotTyped DEF SlotDone, InSlot, Gathers
<1>7. QED BY <1>1, <1>3, <1>4, <1>5, <1>6 DEF SlotSteps

(* A write to a word that leaves the cache machine.                        *)
LEMMA CacheWord ==
  ASSUME Controlled, NEW line, NEW w,
         NEW locks, NEW ack, NEW served, NEW flit, Ticks(locks, ack, served, flit)
  PROVE  /\ InCache(line, w)' =>
              \/ (WriteHit \/ WriteMiss) /\ dreq.addr = [line |-> line, word |-> w] /\ d_wdata' = dreq.wdata
              \/ InCache(line, w) /\ d_wdata' = d_wdata
         /\ (WriteHit \/ WriteMiss) /\ dreq.addr = [line |-> line, word |-> w] =>
              InCache(line, w)' /\ d_wdata' = dreq.wdata
         /\ InCache(line, w) /\ ~InCache(line, w)' => Accepted
<1>1. TakesRequest \/ ServesStore \/ ServesMiss \/ ServesUnc \/ ServesXtn
  BY DataCases DEF Controlled, Types, Shapes, Ticks, Cycle
<1>2. CASE TakesRequest
  <2>1. Idles /\ (d_fsm \in Writing => Accepted)
    BY <1>2 DEF TakesRequest, AsksNothing, AsksHit, AsksMiss, AsksUncached, StoresHit, StoresMiss, AsksInval, AsksSync,
                TakesTo, Idles, Writing, Accepted
  <2>2. CASE StoresHit \/ StoresMiss
    BY <2>1, <2>2 DEF StoresHit, StoresMiss, TakesTo, InCache, Writing
  <2>3. CASE AsksNothing \/ AsksHit \/ AsksMiss \/ AsksUncached \/ AsksInval \/ AsksSync
    <3>1. d_fsm' \notin Writing
      BY <2>3 DEF AsksNothing, AsksHit, AsksMiss, AsksUncached, AsksInval, AsksSync, TakesTo, Writing
    <3>2. ~WriteHit /\ ~WriteMiss
      BY <2>3, RequestIs DEF AsksNothing, AsksHit, AsksMiss, AsksUncached, AsksInval, AsksSync, TakesTo, Writing,
          WriteHit, WriteMiss, ReadHit, ReadMiss, Uncached, Considered, Controlled, Types
    <3>3. QED BY <2>1, <3>1, <3>2 DEF InCache
  <2>4. QED BY <1>2, <2>2, <2>3 DEF TakesRequest
<1>3. CASE ServesStore
  <2>1. ~WriteHit /\ ~WriteMiss
    BY <1>3 DEF ServesStore, StoreRefused, StoreUpdates, Stays, WriteHit, WriteMiss, Considered, Accepted
  <2>2. QED BY <1>3, <2>1 DEF ServesStore, StoreRefused, StoreUpdates, Stays, InCache, Writing
<1>4. CASE ServesMiss \/ ServesUnc \/ ServesXtn
  <2>1. d_fsm \notin Writing /\ d_fsm /= "IDLE" /\ d_fsm' \notin Writing
    BY <1>4 DEF ServesMiss, ServesUnc, ServesXtn, MissSelects, MissInvals, MissFails, MissFills, MissEnds, MissWaits,
       UncFails, UncEnds, UncWaits, InvalMisses, InvalHits, InvalEnds, SyncEnds, SyncWaits, Stays, Writing
  <2>2. QED BY <2>1 DEF InCache, WriteHit, WriteMiss, Considered, Accepted, Writing
<1>5. QED BY <1>1, <1>2, <1>3, <1>4

(* A cacheable write leaves for the network only from the write buffer.    *)
LEMMA SentWord ==
  ASSUME Controlled, NEW line \in CacheableLine, NEW w \in Word,
         NEW ack, Sends(ack), InPacket(Packet, line, w)
  PROVE  cmd_fsm = "DATA_WRITE" /\ InSlot(cmd_slot, line, w) /\ Packet.words[w] = wbuf[cmd_slot].data[w]
<1>1. /\ Packet \in PacketSet /\ Asks(Packet)
      /\ Packet.trdid = [type |-> cmd_fsm, slot |-> PacketSlot]
      /\ cmd_fsm = "DATA_WRITE" => /\ Packet.write /\ Packet.line = wbuf[cmd_slot].line
                                   /\ \A v \in Word : Packet.words[v] = wbuf[cmd_slot].data[v]
  BY PacketIs DEF Controlled, Types, Shapes
<1>2. cmd_fsm \in ReadType \cup {"DATA_WRITE"}
  BY DEF Controlled, Types, CmdTypes, Sends
<1>3. CASE cmd_fsm = "DATA_WRITE"
  BY <1>1, <1>3 DEF InPacket, InSlot, Gathers, Controlled, Shapes, BurstShape
<1>4. CASE cmd_fsm = "DATA_UNC"
  <2>1. Place("DATA_UNC") = "cmd"
    BY <1>4 DEF Controlled, Shapes, OncePlaced, AtCmd, ReadType
  <2>2. ~Cacheable(d_addr)
    BY <2>1 DEF Controlled, Shapes, DataTraffic, ServedData
  <2>3. Packet.line = d_addr.line
    BY <1>1, <1>4 DEF Asks
  <2>4. QED BY <2>2, <2>3 DEF InPacket, Cacheable
<1>5. CASE cmd_fsm \in {"DATA_MISS", "INS_MISS", "INS_UNC"}
  BY <1>1, <1>5 DEF Asks, InPacket
<1>6. QED BY <1>2, <1>3, <1>4, <1>5 DEF ReadType

(* A cycle keeps the latest value of a word in the first place of its way  *)
(* to memory that holds the word.                                          *)
LEMMA WriteRightKept ==
  ASSUME Controlled, NEW line \in OwnLine \cap CacheableLine, NEW w \in Word, WriteRight(line, w), WbufShape',
         NEW locks, NEW ack, NEW served, NEW flit, Ticks(locks, ack, served, flit)
  PROVE  WriteRight(line, w)'
<1> DEFINE now == (WriteHit \/ WriteMiss) /\ dreq.addr = [line |-> line, word |-> w]
<1>1. Latest(line, w)' = IF now THEN dreq.wdata ELSE Latest(line, w)
  BY LatestStep DEF Controlled, Types, Shapes, Ticks, Cycle
<1>2. /\ InCache(line, w)' => (now /\ d_wdata' = dreq.wdata) \/ (InCache(line, w) /\ d_wdata' = d_wdata)
      /\ now => InCache(line, w)' /\ d_wdata' = dreq.wdata
      /\ InCache(line, w) /\ ~InCache(line, w)' => Accepted
  BY CacheWord
<1> HIDE DEF now
<1>3. NetSteps(served, ack)
  BY NetStep DEF Controlled, Types, Shapes
<1>4. CASE now
  BY <1>1, <1>2, <1>4 DEF WriteRight
<1>5. CASE InCache(line, w)' /\ ~now
  BY <1>1, <1>2, <1>5 DEF WriteRight
<1>6. CASE ~InCache(line, w)' /\ ~now /\ InCache(line, w)
  <2>1. PICK t \in Slot : t = Target /\ SlotWritten(t) /\ Accepted
    BY <1>2, <1>6, SlotStep DEF Controlled, Types, Shapes
  <2>2. d_addr = [line |-> line, word |-> w] /\ d_wdata \in Bit /\ d_wdata = Latest(line, w)
    BY <1>6 DEF InCache, Controlled, Shapes, ServedData, WriteRight
  <2>3. wbuf[t].data \in [Word -> Bit \cup {Hole}]
    BY <2>1, SlotTyped DEF Controlled, Types, SlotType, Burst
  <2>4. wbuf'[t].line = line /\ wbuf'[t].data[w] = d_wdata /\ wbuf'[t].st \in {"OPEN", "LOCKED"}
    BY <2>1, <2>2, <2>3 DEF SlotWritten, Filled
  <2>5. InSlot(t, line, w)'
    BY <2>2, <2>4 DEF InSlot, Gathers, Bit, Hole
  <2>6. ASSUME NEW s \in Slot, InSlot(s, line, w)'
        PROVE  s = t
    BY <2>1, <2>5, <2>6 DEF InSlot, Gathers, WbufShape, Busy
  <2>7. InBuffer(line, w)'
    BY <2>1, <2>5 DEF InBuffer
  <2>8. Latest(line, w)' = d_wdata
    BY <1>1, <1>6, <2>2
  <2>9. \A s \in Slot : InSlot(s, line, w)' => wbuf'[s].data[w] = Latest(line, w)'
    BY <2>4, <2>6, <2>8
  <2>10. QED BY <1>6, <2>7, <2>9 DEF WriteRight
<1>7. CASE ~InCache(line, w)' /\ ~now /\ ~InCache(line, w)
  <2>1. \A s \in Slot : /\ InSlot(s, line, w)' => InSlot(s, line, w) /\ wbuf'[s].data[w] = wbuf[s].data[w]
                        /\ InSlot(s, line, w) /\ ~InSlot(s, line, w)' => SlotSent(s, ack)
    BY <1>7, SlotWord
  <2>2. Latest(line, w)' = Latest(line, w)
    BY <1>1, <1>7
  <2>3. \A s \in Slot : InSlot(s, line, w) => wbuf[s].data[w] = Latest(line, w)
    BY <1>7 DEF WriteRight
  <2>4. \A s \in Slot : InSlot(s, line, w)' => wbuf'[s].data[w] = Latest(line, w)'
    BY <2>1, <2>2, <2>3
  <2>5. CASE InBuffer(line, w)'
    BY <1>7, <2>4, <2>5 DEF WriteRight
  <2>6. CASE ~InBuffer(line, w)' /\ InBuffer(line, w)
    <3>1. PICK s \in Slot : InSlot(s, line, w)
      BY <2>6 DEF InBuffer
    <3>2. SlotSent(s, ack)
      BY <2>1, <2>6, <3>1 DEF InBuffer
    <3>3. s = cmd_slot /\ cmd_fsm = "DATA_WRITE" /\ Sends(ack) /\ wbuf[s].st = "LOCKED"
      BY <3>2 DEF SlotSent, BurstSent, Sends
    <3>4. Packet.write /\ Packet.line = line /\ Packet.words[w] = Latest(line, w) /\ wbuf[s].data[w] /= Hole
      BY <2>3, <3>1, <3>3, PacketIs DEF Controlled, Types, Shapes, InSlot
    <3>5. Packet \in InFlight'
      BY <1>3, <3>3 DEF NetSteps
    <3>6. InNet(line, w)'
      BY <2>3, <3>1, <3>4, <3>5 DEF InNet, InPacket
    <3>7. ASSUME NEW p \in InFlight, InPacket(p, line, w)
          PROVE  FALSE
      <4>1. /\ p.trdid.slot \in Slot /\ wbuf[p.trdid.slot].st = "SENT" /\ line = wbuf[p.trdid.slot].line
        BY <3>7, WritePacketIs DEF InPacket
      <4>2. QED BY <3>1, <3>3, <4>1 DEF Controlled, Shapes, WbufShape, Busy, InSlot
    <3>8. \A p \in InFlight' : InPacket(p, line, w) => p = Packet
      BY <1>3, <3>7 DEF NetSteps
    <3>9. \A p \in InFlight' : InPacket(p, line, w)' => p.words[w] = Latest(line, w)'
      BY <2>2, <3>4, <3>8 DEF InPacket
    <3>10. (\A p \in InFlight : InPacket(p, line, w) => p.words[w] = Latest(line, w))'
      BY <3>9
    <3>11. QED BY <1>7, <2>4, <2>6, <3>6, <3>10 DEF WriteRight
  <2>7. CASE ~InBuffer(line, w)' /\ ~InBuffer(line, w)
    <3>1. Sends(ack) => ~InPacket(Packet, line, w)
      <4>1. cmd_slot \in Slot
        BY DEF Controlled, Types, CmdTypes
      <4>2. QED BY <2>7, <4>1, SentWord DEF InBuffer
    <3>2. \A p \in InFlight : InPacket(p, line, w) => p.words[w] = Latest(line, w)
      BY <1>7, <2>7 DEF WriteRight
    <3>3. \A p \in InFlight' : InPacket(p, line, w)' => p \in InFlight /\ InPacket(p, line, w)
      BY <1>3, <3>1 DEF NetSteps, InPacket
    <3>4. \A p \in InFlight' : InPacket(p, line, w)' => p.words[w] = Latest(line, w)'
      BY <2>2, <3>2, <3>3
    <3>5. ASSUME ~InNet(line, w)'
          PROVE  mem'[line][w] = Latest(line, w)'
      <4>1. mem'[line][w] = IF served \in DOMAIN net /\ InPacket(net[served], line, w)
                         THEN net[served].words[w] ELSE mem[line][w]
        BY WordStep
      <4>2. CASE served \in DOMAIN net /\ InPacket(net[served], line, w)
        <5>1. net[served] \in InFlight
          BY <4>2 DEF InFlight
        <5>2. QED BY <2>2, <3>2, <4>1, <4>2, <5>1
      <4>3. CASE ~(served \in DOMAIN net /\ InPacket(net[served], line, w))
        <5>1. \A p \in InFlight : InPacket(p, line, w) => p \in InFlight'
          BY <1>3, <4>3 DEF NetSteps
        <5>2. ~InNet(line, w)
          BY <3>5, <5>1 DEF InNet, InPacket
        <5>3. QED BY <1>7, <2>2, <2>7, <4>1, <4>3, <5>2 DEF WriteRight
      <4>4. QED BY <4>2, <4>3
    <3>6. (\A p \in InFlight : InPacket(p, line, w) => p.words[w] = Latest(line, w))'
      BY <3>4
    <3>7. QED BY <1>7, <2>4, <2>7, <3>5, <3>6 DEF WriteRight
  <2>8. QED BY <2>5, <2>6, <2>7
<1>8. QED BY <1>4, <1>5, <1>6, <1>7

(* The cache waits for an uncached access only after it has asked for it.  *)
LEMMA UncWaitIs ==
  ASSUME Controlled, d_fsm' = "UNC_WAIT",
         NEW locks, NEW ack, NEW served, NEW flit, Ticks(locks, ack, served, flit)
  PROVE  /\ ~Free
         /\ d_fsm /= "UNC_WAIT" => Place("DATA_UNC")' = "req"
<1>1. TakesRequest \/ ServesStore \/ ServesMiss \/ ServesUnc \/ ServesXtn
  BY DataCases DEF Controlled, Types, Shapes, Ticks, Cycle
<1>2. CASE TakesRequest
  <2>1. AsksUncached
    BY <1>2 DEF TakesRequest, AsksNothing, AsksHit, AsksMiss, StoresHit, StoresMiss, AsksInval, AsksSync, TakesTo
  <2>2. ~Drsp.valid /\ dreq.type /= "NONE"
    BY <2>1 DEF AsksUncached, Uncached, Considered
  <2>3. d_fsm /= "UNC_WAIT"
    BY <2>1 DEF AsksUncached, TakesTo, Idles, Accepted
  <2>4. Place("DATA_UNC") = "none"
    BY <2>3 DEF Controlled, Shapes, DataTraffic
  <2>5. Requested("DATA_UNC")
    BY <2>1 DEF AsksUncached, Requested
  <2>6. Place("DATA_UNC")' = "req"
    BY <2>4, <2>5, DataFlow DEF Controlled, ReadType
  <2>7. QED BY <2>2, <2>6 DEF Free
<1>3. CASE ServesStore \/ ServesMiss \/ ServesXtn
  BY <1>3 DEF ServesStore, StoreRefused, StoreUpdates, ServesMiss, ServesXtn, MissSelects, MissInvals, MissFails, MissFills,
     MissEnds, MissWaits, InvalMisses, InvalHits, InvalEnds, SyncEnds, SyncWaits, Stays
<1>4. CASE ServesUnc
  <2>1. UncWaits
    BY <1>4 DEF ServesUnc, UncFails, UncEnds, Stays
  <2>2. d_fsm = "UNC_WAIT" /\ ~Drsp.valid
    BY <2>1 DEF UncWaits, Stays, Quiet
  <2>3. QED BY <2>2 DEF Free, Controlled, Shapes, ServedData
<1>5. QED BY <1>1, <1>2, <1>3, <1>4

(* A write to a device is answered when it has reached it.                 *)
LEMMA PendingWaits ==
  ASSUME Controlled, NEW line \in OwnLine \ CacheableLine, NEW w \in Word, Pending(line, w)
  PROVE  ~Free
<1>1. Stores(dreq) /\ dreq.addr = [line |-> line, word |-> w] /\ ~Cacheable(dreq.addr)
  BY DEF Pending, Cacheable
<1>2. SUFFICES ASSUME Drsp.valid PROVE FALSE
  BY <1>1 DEF Free, Stores
<1>3. ~ReadHit /\ ~WriteHit /\ ~WriteMiss
  BY <1>1 DEF ReadHit, WriteHit, WriteMiss
<1>4. d_fsm \notin Missing /\ d_fsm \notin {"XTN_HIT", "XTN_INVAL", "XTN_SYNC"}
  BY <1>1 DEF Stores, Controlled, Shapes, ServedData
<1>5. ~SyncDone
  BY <1>4 DEF SyncDone
<1>6. d_fsm = "UNC_WAIT" /\ (DataError \/ DataGet)
  BY <1>2, <1>3, <1>4, <1>5, AnswerIs DEF Controlled, Types, Shapes, DataError, Waiting, Missing
<1>7. Place("DATA_UNC") /= "none"
  BY <1>6 DEF Pending
<1>8. QED BY <1>6, <1>7, UncAnswer

(* What the processor has written into a word of a device.                 *)
LEMMA DeviceExpected ==
  ASSUME Controlled, NEW line \in OwnLine \ CacheableLine, NEW w \in Word, ~Pending(line, w)',
         NEW locks, NEW ack, NEW served, NEW flit, Ticks(locks, ack, served, flit)
  PROVE  expected'[line][w] = expected[line][w]
<1>1. HoldsRequest \/ (Free /\ dreq' = NoData /\ expected' = expected) \/ (Free /\ \E r \in program.requests : Issue(r))
  BY ProcessorCases DEF Controlled, Types, Ticks, Cycle
<1>2. CASE Free /\ \E r \in program.requests : Issue(r)
  <2>1. PICK r \in program.requests : Issue(r)
    BY <1>2
  <2>2. /\ dreq'.type = r.type /\ dreq'.addr = r.addr
        /\ \A l \in Line : \A x \in Word : expected'[l][x] =
              IF Stores(r) /\ r.addr = [line |-> l, word |-> x] /\ l \notin ErrorLine
              THEN Other(expected[l][x]) ELSE expected[l][x]
    BY <2>1, IssueIs DEF Controlled, Types, Shapes
  <2>3. d_fsm' /= "UNC_WAIT"
    BY <1>2, UncWaitIs
  <2>4. ~(Stores(r) /\ r.addr = [line |-> line, word |-> w])
    BY <2>2, <2>3 DEF Pending, Stores
  <2>5. QED BY <2>2, <2>4, OwnLineIs
<1>3. QED BY <1>1, <1>2 DEF HoldsRequest

(* A write to a device that is executed is the one that is pending.        *)
LEMMA DevicePacket ==
  ASSUME Controlled, NEW line \in OwnLine \ CacheableLine, NEW w \in Word,
         NEW p \in InFlight, InPacket(p, line, w)
  PROVE  Pending(line, w)
<1>1. /\ p.trdid.type = "DATA_UNC" /\ d_fsm = "UNC_WAIT" /\ Place("DATA_UNC") = "net"
      /\ line = d_addr.line /\ d_addr = dreq.addr /\ Stores(dreq)
      /\ p.words = OneWord(d_addr, d_wdata)
  BY WritePacketIs DEF InPacket
<1>2. p.words[w] /= Hole
  BY DEF InPacket
<1>3. d_addr.word = w
  BY <1>1, <1>2 DEF OneWord
<1>4. dreq.addr \in Addr
  BY <1>1, RequestIs DEF Stores, Controlled, Types
<1>5. QED BY <1>1, <1>3, <1>4 DEF Pending, Addr

(* An uncached store that is no longer pending has reached its target.     *)
LEMMA DeviceReached ==
  ASSUME Controlled, NEW line \in OwnLine \ CacheableLine, NEW w \in Word, Pending(line, w), ~Pending(line, w)',
         NEW locks, NEW ack, NEW served, NEW flit, Ticks(locks, ack, served, flit)
  PROVE  mem'[line][w] = expected[line][w]
<1>1. dreq' = dreq
  BY PendingWaits, ProcessorCases DEF Controlled, Types, Ticks, Cycle, HoldsRequest
<1>2. Stores(dreq) /\ dreq.addr = [line |-> line, word |-> w]
  BY DEF Pending
<1>3. d_fsm' = "UNC_WAIT" /\ Place("DATA_UNC")' \notin {"req", "cmd", "net"}
  BY <1>1, <1>2 DEF Pending, Stores
<1>4. d_fsm = "UNC_WAIT"
  BY <1>3, UncWaitIs
<1>5. Place("DATA_UNC") \in {"req", "cmd", "net"}
  BY <1>4 DEF Pending
<1>6. Moves("DATA_UNC", served, ack, flit)
  BY DataFlow DEF Controlled, ReadType
<1>7. Chosen("DATA_UNC", served)
  BY <1>3, <1>5, <1>6 DEF Moves, Rests, Arises, Starts, Leaves, Reaches, Remains, Gives
<1>8. net[served] \in InFlight /\ net[served].trdid.type = "DATA_UNC" /\ served \in DOMAIN net
  BY <1>7 DEF Chosen, InFlight
<1>9. d_addr = dreq.addr /\ d_type = dreq.type /\ d_wdata = dreq.wdata
  BY <1>4 DEF Controlled, Shapes, ServedData
<1>10. Asks(net[served])
  BY <1>8 DEF Controlled, Shapes, PacketsAsk
<1>11. net[served].write /\ net[served].line = line /\ net[served].words = OneWord(d_addr, d_wdata)
  BY <1>2, <1>8, <1>9, <1>10 DEF Asks, Stores
<1>12. net[served].words[w] = d_wdata
  BY <1>2, <1>9, <1>11 DEF OneWord
<1>13. d_wdata \in Bit
  BY <1>2, <1>9, RequestIs DEF Stores, Controlled, Types
<1>14. d_wdata = expected[line][w]
  BY <1>2, <1>9, OwnLineIs DEF Controlled, Shapes, AskedData
<1>15. InPacket(net[served], line, w)
  BY <1>11, <1>12, <1>13 DEF InPacket, Bit, Hole
<1>16. QED BY <1>8, <1>12, <1>14, <1>15, WordStep

(* A cycle keeps every uncached word at the value the program expects of   *)
(* it.                                                                     *)
LEMMA DeviceRightKept ==
  ASSUME Controlled, DeviceRight,
         NEW locks, NEW ack, NEW served, NEW flit, Ticks(locks, ack, served, flit)
  PROVE  DeviceRight'
<1> SUFFICES ASSUME NEW line \in OwnLine \ CacheableLine, NEW w \in Word, ~Pending(line, w)'
             PROVE  mem'[line][w] = expected'[line][w]
  BY DEF DeviceRight
<1>1. expected'[line][w] = expected[line][w]
  BY DeviceExpected
<1>2. CASE Pending(line, w)
  BY <1>1, <1>2, DeviceReached
<1>3. CASE ~Pending(line, w)
  <2>1. mem[line][w] = expected[line][w]
    BY <1>3 DEF DeviceRight
  <2>2. ~(served \in DOMAIN net /\ InPacket(net[served], line, w))
    BY <1>3, DevicePacket DEF InFlight
  <2>3. QED BY <1>1, <2>1, <2>2, WordStep
<1>4. QED BY <1>2, <1>3

(* A right value stays right while no store to its word is accepted.       *)
LEMMA GoodStep ==
  ASSUME Controlled, NEW line \in CacheableLine \ ErrorLine, NEW w \in Word, NEW value, Good(line, w, value),
         NEW locks, NEW ack, NEW served, NEW flit, Ticks(locks, ack, served, flit),
         ~((WriteHit \/ WriteMiss) /\ dreq.addr = [line |-> line, word |-> w]),
         line \in fresh' => line \in fresh
  PROVE  Good(line, w, value)'
<1>1. line \in OwnLine => Latest(line, w)' = Latest(line, w)
  BY LatestStep DEF Controlled, Types, Shapes, Ticks, Cycle
<1>2. QED BY <1>1 DEF Good

(* A line just invalidated is not in the cache.                            *)
LEMMA FreshStep ==
  ASSUME Controlled, NEW line, line \in fresh', line \notin fresh,
         NEW locks, NEW ack, NEW served, NEW flit, Ticks(locks, ack, served, flit)
  PROVE  \A way \in Way : dcache'[way].valid => dcache'[way].tag /= line
<1>1. line = d_wdata /\ d_fsm \in {"XTN_HIT", "XTN_INVAL"} /\ Drsp.valid
  BY DEF Ticks, Cycle, Invalidate
<1>2. TakesRequest \/ ServesStore \/ ServesMiss \/ ServesUnc \/ ServesXtn
  BY DataCases DEF Controlled, Types, Shapes, Ticks, Cycle
<1>3. ServesXtn
  BY <1>1, <1>2 DEF TakesRequest, AsksNothing, AsksHit, AsksMiss, AsksUncached, StoresHit, StoresMiss, AsksInval, AsksSync,
     TakesTo, Idles, Accepted, ServesStore, StoreRefused, StoreUpdates, ServesMiss, MissSelects, MissInvals, MissFails,
     MissFills, MissEnds, MissWaits, ServesUnc, UncFails, UncEnds, UncWaits, Stays
<1>4. InvalMisses \/ InvalEnds
  BY <1>1, <1>3 DEF ServesXtn, InvalHits, SyncEnds, SyncWaits, Stays, Quiet
<1>5. CASE InvalMisses
  BY <1>1, <1>5 DEF InvalMisses, XtnMiss, Same, Hit, Holds
<1>6. CASE InvalEnds
  <2>1. Holds(dcache, d_wdata, d_way) /\ CacheShape(dcache) /\ d_way \in Way /\ dcache \in CacheType
    BY <1>6 DEF InvalEnds, Stays, Controlled, Types, Shapes, DcacheShape, DataTypes, StoreTypes
  <2>2. ~dcache'[d_way].valid /\ \A way \in Way : way /= d_way => dcache'[way] = dcache[way]
    BY <1>6, <2>1, InvalidateIs DEF InvalEnds
  <2>3. QED BY <1>1, <2>1, <2>2 DEF Holds, CacheShape
<1>7. QED BY <1>4, <1>5, <1>6

(* The words of a way that does not change in the cycle.                   *)
RightWay(way) ==
  dcache[way].valid => \A w \in Word :
    \/ d_fsm = "WRITE_UPDT" /\ d_addr = [line |-> dcache[way].tag, word |-> w]
    \/ Good(dcache[way].tag, w, dcache[way].data[w])

(* A way that does not change stays right.                                 *)
LEMMA SameWay ==
  ASSUME Controlled, NEW way \in Way, RightWay(way), dcache'[way] = dcache[way], d_fsm /= "WRITE_UPDT",
         NEW locks, NEW ack, NEW served, NEW flit, Ticks(locks, ack, served, flit)
  PROVE  RightWay(way)'
<1> SUFFICES ASSUME dcache[way].valid, NEW w \in Word
             PROVE  \/ d_fsm' = "WRITE_UPDT" /\ d_addr' = [line |-> dcache[way].tag, word |-> w]
                    \/ Good(dcache[way].tag, w, dcache[way].data[w])'
  BY DEF RightWay
<1>1. dcache[way].tag \in CacheableLine \ ErrorLine
  BY DEF Controlled, Shapes, DcacheShape, CacheShape
<1>2. PICK tag \in CacheableLine \ ErrorLine : dcache[way].tag = tag
  BY <1>1
<1>3. PICK value : dcache[way].data[w] = value
  OBVIOUS
<1>4. Good(tag, w, value)
  BY <1>2, <1>3 DEF RightWay
<1>5. CASE (WriteHit \/ WriteMiss) /\ dreq.addr = [line |-> tag, word |-> w]
  <2>1. DHit
    BY <1>2, <1>5 DEF DHit, Hit, Holds
  <2>2. WriteHit
    BY <1>5, <2>1 DEF WriteMiss
  <2>3. StoresHit
    <3>1. TakesRequest \/ ServesStore \/ ServesMiss \/ ServesUnc \/ ServesXtn
      BY DataCases DEF Controlled, Types, Shapes, Ticks, Cycle
    <3>2. d_fsm = "IDLE" \/ Accepted
      BY <2>2 DEF WriteHit, Considered
    <3>3. TakesRequest
      BY <3>1, <3>2 DEF ServesStore, StoreRefused, StoreUpdates, ServesMiss, ServesXtn, MissSelects, MissInvals,
         MissFails, MissFills, MissEnds, MissWaits, InvalMisses, InvalHits, InvalEnds, SyncEnds, SyncWaits,
         ServesUnc, UncFails, UncEnds, UncWaits, Stays, Accepted
    <3>4. QED
      BY <2>2, <3>3 DEF TakesRequest, AsksNothing, AsksHit, AsksMiss, AsksUncached, StoresMiss, AsksInval, AsksSync,
         WriteHit, WriteMiss, ReadHit, ReadMiss, Uncached, Considered
  <2>4. d_fsm' = "WRITE_UPDT" /\ d_addr' = dreq.addr
    BY <2>3 DEF StoresHit, TakesTo
  <2>5. QED BY <1>2, <1>5, <2>4
<1>6. CASE ~((WriteHit \/ WriteMiss) /\ dreq.addr = [line |-> tag, word |-> w])
  <2>1. tag \in fresh' => tag \in fresh
    BY <1>2, FreshStep
  <2>2. Good(tag, w, value)'
    BY <1>4, <1>6, <2>1, GoodStep
  <2>3. QED BY <1>2, <1>3, <2>2 DEF Good, Latest
<1>7. QED BY <1>5, <1>6

(* The way that a store updates becomes right again.                       *)
LEMMA UpdatedWay ==
  ASSUME Controlled, WritesRight, StoreUpdates, NEW way \in Way, RightWay(way),
         NEW locks, NEW ack, NEW served, NEW flit, Ticks(locks, ack, served, flit)
  PROVE  RightWay(way)'
<1>1. /\ d_fsm = "WRITE_UPDT" /\ Holds(dcache, d_addr.line, d_way) /\ d_word = d_addr.word /\ CacheShape(dcache)
      /\ d_addr \in Addr /\ d_addr.line \in StoredLine /\ d_wdata \in Bit /\ dcache \in CacheType /\ d_way \in Way
  BY DEF StoreUpdates, Stays, Controlled, Types, Shapes, DcacheShape, ServedData, Writing, StoreTypes, DataTypes
<1>2. /\ \A v \in Way : dcache'[v].valid = dcache[v].valid /\ dcache'[v].tag = dcache[v].tag
      /\ \A v \in Way : \A x \in Word :
           dcache'[v].data[x] = IF v = d_way /\ x = d_word THEN d_wdata ELSE dcache[v].data[x]
  <2>1. d_word \in Word /\ d_wdata \in Value /\ dcache' = WriteWord(dcache, d_way, d_word, d_wdata)
    BY <1>1, BitIsValue DEF StoreUpdates, Addr
  <2>2. QED BY <1>1, <2>1, WriteWordIs
<1>3. ~WriteHit /\ ~WriteMiss /\ fresh' = fresh
  BY <1>1 DEF WriteHit, WriteMiss, Considered, Accepted, Ticks, Cycle, Invalidate
<1> SUFFICES ASSUME dcache[way].valid, NEW w \in Word
             PROVE  Good(dcache[way].tag, w, dcache[way].data[w])'
  BY <1>2 DEF RightWay
<1>4. PICK tag \in CacheableLine \ ErrorLine : dcache[way].tag = tag /\ dcache'[way].tag = tag
  BY <1>1, <1>2 DEF CacheShape
<1>5. PICK value : dcache'[way].data[w] = value
  OBVIOUS
<1>6. Good(tag, w, value)
  <2>1. CASE way = d_way /\ w = d_word
    <3>1. value = d_wdata /\ tag = d_addr.line /\ w = d_addr.word
      BY <1>1, <1>2, <1>4, <1>5, <2>1 DEF Holds
    <3>2. InCache(tag, w)
      BY <1>1, <3>1 DEF InCache, Writing, Addr
    <3>3. tag \in OwnLine => value = Latest(tag, w)
      BY <3>1, <3>2 DEF WritesRight, WriteRight
    <3>4. tag \notin DmaLine
      BY <1>1, <3>1, StoredIs
    <3>5. QED BY <3>3, <3>4 DEF Good
  <2>2. CASE ~(way = d_way /\ w = d_word)
    <3>1. value = dcache[way].data[w]
      BY <1>2, <1>5, <2>2
    <3>2. d_addr /= [line |-> dcache[way].tag, word |-> w]
      BY <1>1, <2>2 DEF Holds, CacheShape
    <3>3. QED BY <1>4, <3>1, <3>2 DEF RightWay
  <2>3. QED BY <2>1, <2>2
<1>7. Good(tag, w, value)'
  BY <1>3, <1>6, GoodStep
<1>8. QED BY <1>4, <1>5, <1>7 DEF Good, Latest

(* The way that a miss has filled is right.                                *)
LEMMA FilledWay ==
  ASSUME Controlled, FillRight, MissEnds, NEW way \in Way, way = d_way,
         NEW locks, NEW ack, NEW served, NEW flit, Ticks(locks, ack, served, flit)
  PROVE  RightWay(way)'
<1>1. /\ d_fsm = "MISS_WAIT" /\ DataGet /\ ~Drsp.valid /\ d_way' = d_way /\ d_way \in Way /\ dcache \in CacheType
      /\ d_addr \in Addr /\ Cacheable(d_addr) /\ d_word = NbWords - 1
  BY RequestIs DEF MissEnds, Stays, Controlled, Types, Shapes, ServedData, Missing, DataTypes, StoreTypes
<1>2. /\ Head(fifo_data) = fifo_data[1] /\ fifo_data[1] \in Value /\ d_word \in Word /\ d_addr.line \notin ErrorLine
      /\ fifo_data /= <<>>
  BY <1>1, DataWord DEF Controlled, Types, Shapes, DataGet
<1>3. way = d_way
  OBVIOUS
<1> DEFINE filled == WriteWord(dcache, way, d_word, fifo_data[1])
<1>4. /\ filled \in CacheType
      /\ \A x \in Word : filled[way].data[x] = IF x = d_word THEN fifo_data[1] ELSE dcache[way].data[x]
  BY <1>1, <1>2, <1>3, WriteWordIs
<1>5. dcache' = UpdateTag(filled, way, d_addr.line)
  BY <1>2, <1>3 DEF MissEnds
<1> HIDE DEF filled
<1>6. dcache'[way].data = filled[way].data /\ dcache'[way].tag = d_addr.line
  BY <1>1, <1>4, <1>5, UpdateTagIs DEF Cacheable
<1>7. d_fsm' = "IDLE" /\ d_addr' = d_addr
  BY DEF MissEnds, Stays
<1> SUFFICES ASSUME NEW w \in Word
             PROVE  Good(dcache[way].tag, w, dcache[way].data[w])'
  BY DEF RightWay
<1>8. PICK line, value : line = dcache'[way].tag /\ value = dcache'[way].data[w]
  OBVIOUS
<1>9. Good(line, w, value)
  <2>1. CASE w = d_word
    BY <1>1, <1>2, <1>4, <1>6, <1>8, <2>1 DEF FillRight, Missing
  <2>2. CASE w /= d_word
    <3>1. w < d_word
      BY <1>1, <2>2, StoresAssumption DEF Word
    <3>2. QED BY <1>1, <1>2, <1>3, <1>4, <1>6, <1>8, <2>2, <3>1 DEF FillRight, Missing
  <2>3. QED BY <2>1, <2>2
<1>10. Good(line, w, value)'
  BY <1>1, <1>9, Waits DEF Missing
<1>11. QED BY <1>8, <1>10 DEF Good, Latest

(* A cycle keeps every valid way of the data cache right.                  *)
LEMMA CachedRightKept ==
  ASSUME Controlled, CachedRight, FillRight, WritesRight,
         NEW locks, NEW ack, NEW served, NEW flit, Ticks(locks, ack, served, flit)
  PROVE  CachedRight'
<1> SUFFICES ASSUME NEW way \in Way
             PROVE  RightWay(way)'
  BY DEF CachedRight, RightWay
<1>1. RightWay(way)
  BY DEF CachedRight, RightWay
<1>2. TakesRequest \/ ServesStore \/ ServesMiss \/ ServesUnc \/ ServesXtn
  BY DataCases DEF Controlled, Types, Shapes, Ticks, Cycle
<1>3. dcache \in CacheType /\ d_way \in Way
  BY DEF Controlled, Types, StoreTypes, DataTypes
<1>4. CASE StoreUpdates
  BY <1>1, <1>4, UpdatedWay
<1>5. CASE dcache' = dcache /\ d_fsm /= "WRITE_UPDT"
  BY <1>1, <1>5, SameWay
<1>6. CASE MissInvals \/ InvalEnds
  <2>1. ~dcache'[d_way].valid /\ \A w \in Way : w /= d_way => dcache'[w] = dcache[w]
    BY <1>3, <1>6, InvalidateIs DEF MissInvals, InvalEnds
  <2>2. d_fsm /= "WRITE_UPDT"
    BY <1>6 DEF MissInvals, InvalEnds, Stays
  <2>3. CASE way = d_way
    BY <2>1, <2>3 DEF RightWay
  <2>4. CASE way /= d_way
    BY <1>1, <2>1, <2>2, <2>4, SameWay
  <2>5. QED BY <2>3, <2>4
<1>7. CASE MissFills \/ MissEnds
  <2>1. d_fsm = "MISS_WAIT" /\ DataGet /\ ~dcache[d_way].valid /\ Cacheable(d_addr)
    BY <1>7 DEF MissFills, MissEnds, Stays, Controlled, Shapes, DcacheShape, ServedData, Missing
  <2>2. Head(fifo_data) \in Value /\ d_word \in Word
    BY <2>1, DataWord DEF Controlled, Types, Shapes
  <2>3. PICK filled : filled = WriteWord(dcache, d_way, d_word, Head(fifo_data))
    OBVIOUS
  <2>4. /\ filled \in CacheType
        /\ \A w \in Way : filled[w].valid = dcache[w].valid /\ filled[w].tag = dcache[w].tag
        /\ \A w \in Way : \A x \in Word : w /= d_way => filled[w].data[x] = dcache[w].data[x]
    BY <1>3, <2>2, <2>3, WriteWordIs
  <2>5. \A w \in Way : w /= d_way => filled[w] = dcache[w]
    BY <1>3, <2>3 DEF WriteWord, CacheType
  <2>6. CASE way = d_way /\ MissEnds
    BY <2>6, FilledWay
  <2>7. CASE way = d_way /\ MissFills
    <3>1. ~dcache'[way].valid
      BY <2>1, <2>3, <2>4, <2>7 DEF MissFills
    <3>2. QED BY <3>1 DEF RightWay
  <2>8. CASE way /= d_way
    <3>1. dcache'[way] = dcache[way]
      <4>1. CASE MissFills
        BY <2>3, <2>5, <2>8, <4>1 DEF MissFills
      <4>2. CASE MissEnds
        <5>1. dcache' = UpdateTag(filled, d_way, d_addr.line)
          BY <2>3, <4>2 DEF MissEnds
        <5>2. QED BY <1>3, <2>1, <2>4, <2>5, <2>8, <5>1, UpdateTagIs DEF Cacheable
      <4>3. QED BY <1>7, <4>1, <4>2
    <3>2. QED BY <1>1, <2>1, <3>1, SameWay
  <2>9. QED BY <1>7, <2>6, <2>7, <2>8
<1>8. QED
  BY <1>2, <1>4, <1>5, <1>6, <1>7 DEF TakesRequest, AsksNothing, AsksHit, AsksMiss, AsksUncached, StoresHit, StoresMiss,
     AsksInval, AsksSync, TakesTo, Idles, Accepted, ServesStore, StoreRefused, ServesMiss, MissSelects, MissFails, MissWaits,
     ServesUnc, UncFails, UncEnds, UncWaits, ServesXtn, InvalMisses, InvalHits, SyncEnds, SyncWaits, Stays, Same

(* What a read finds in memory.                                            *)
LEMMA MissReads ==
  ASSUME Controlled, MissClear, WritesRight, DmaRight, Place("DATA_MISS") = "net",
         d_addr.line \notin ErrorLine, NEW w \in Word
  PROVE  Good(d_addr.line, w, mem[d_addr.line][w])
<1>1. d_fsm \in Missing /\ d_addr.line \in CacheableLine /\ d_addr.line \in Line
  <2>1. d_fsm \in Missing
    BY DEF Controlled, Shapes, DataTraffic
  <2>2. Cacheable(d_addr)
    BY <2>1 DEF Controlled, Shapes, ServedData
  <2>3. QED BY <2>1, <2>2, StoresAssumption DEF Cacheable
<1>2. \A s \in Slot : Busy(wbuf, s) => wbuf[s].line /= d_addr.line
  BY DEF MissClear, WbufMiss
<1>3. ~InCache(d_addr.line, w) /\ ~InBuffer(d_addr.line, w)
  BY <1>1, <1>2 DEF InCache, Missing, Writing, InBuffer, InSlot, Gathers, Busy
<1>4. ~InNet(d_addr.line, w)
  <2>1. SUFFICES ASSUME NEW p \in InFlight, InPacket(p, d_addr.line, w) PROVE FALSE
    BY DEF InNet
  <2>2. /\ p.trdid.slot \in Slot /\ wbuf[p.trdid.slot].st = "SENT"
        /\ d_addr.line = wbuf[p.trdid.slot].line
    BY <1>1, <2>1, WritePacketIs DEF InPacket, Missing
  <2>3. QED BY <1>2, <2>2 DEF Busy
<1>5. d_addr.line \in OwnLine => mem[d_addr.line][w] = Latest(d_addr.line, w)
  BY <1>1, <1>3, <1>4 DEF WritesRight, WriteRight
<1>6. d_addr.line \in fresh \cap DmaLine => mem[d_addr.line][w] = "new"
  BY DEF DmaRight
<1>7. QED BY <1>5, <1>6 DEF Good

(* What an uncached read finds in memory.                                  *)
LEMMA UncReads ==
  ASSUME Controlled, DeviceRight, DmaRight, d_fsm = "UNC_WAIT", d_type \in {"READ", "LL"},
         d_addr.line \notin ErrorLine
  PROVE  d_addr.word \in Word /\ Good(d_addr.line, d_addr.word, mem[d_addr.line][d_addr.word])
<1>1. d_addr = dreq.addr /\ dreq.type \in {"READ", "LL"} /\ ~Cacheable(d_addr)
  BY DEF Controlled, Shapes, ServedData
<1>2. d_addr \in Addr
  BY <1>1, RequestIs DEF Controlled, Types
<1>3. PICK line \in Line, w \in Word : line = d_addr.line /\ w = d_addr.word
  BY <1>2 DEF Addr
<1>4. ~Pending(line, w)
  BY <1>1 DEF Pending, Stores
<1>5. line \in OwnLine => mem[line][w] = Latest(line, w)
  BY <1>1, <1>3, <1>4 DEF DeviceRight, Cacheable, Latest
<1>6. line \in fresh \cap DmaLine => mem[line][w] = "new"
  BY DEF DmaRight
<1>7. QED BY <1>3, <1>5, <1>6 DEF Good

(* Every word of the response to a miss is right.                          *)
LEMMA FillResponse ==
  ASSUME Controlled, FillRight, MissClear, WritesRight, DmaRight, d_fsm \in Missing, d_addr.line \notin ErrorLine,
         NEW locks, NEW ack, NEW served, NEW flit, Ticks(locks, ack, served, flit),
         Place("DATA_MISS")' = "rsp", NEW k \in DOMAIN rsp'
  PROVE  Good(d_addr.line, NbWords - Len(rsp') + k - 1, rsp'[k].rdata)
<1>1. Moves("DATA_MISS", served, ack, flit)
  BY DataFlow DEF Controlled, ReadType
<1>2. rsp \in Seq(FlitSet) /\ net \in Seq(PacketSet)
  BY DEF Controlled, Types, NetTypes
<1>3. ~Requested("DATA_MISS")
  BY DataHeld DEF Controlled, Types, Shapes, Ticks, Cycle
<1>4. CASE Remains("DATA_MISS", flit)
  BY <1>4 DEF Remains, FillRight
<1>5. CASE Gives("DATA_MISS", served, flit)
  <2>1. Place("DATA_MISS") = "rsp" /\ rsp' = Tail(rsp) /\ rsp /= <<>>
    BY <1>5 DEF Gives, RspTakes, AtRsp
  <2>2. /\ Tail(rsp) \in Seq(FlitSet) /\ Len(Tail(rsp)) = Len(rsp) - 1 /\ Len(rsp) \in Nat /\ Len(rsp) >= 1
        /\ \A n \in 1 .. Len(rsp) - 1 : Tail(rsp)[n] = rsp[n + 1]
    BY <1>2, <2>1, TailIs
  <2>3. DOMAIN rsp = 1 .. Len(rsp) /\ DOMAIN Tail(rsp) = 1 .. Len(rsp) - 1
    BY <1>2, <2>2, DomainIs
  <2>4. k \in 1 .. Len(rsp) - 1 /\ rsp'[k] = rsp[k + 1] /\ k + 1 \in DOMAIN rsp
    BY <2>1, <2>2, <2>3
  <2>5. NbWords - Len(rsp') + k - 1 = NbWords - Len(rsp) + (k + 1) - 1
    BY <2>1, <2>2, <2>4, StoresAssumption
  <2>6. Good(d_addr.line, NbWords - Len(rsp) + (k + 1) - 1, rsp[k + 1].rdata)
    BY <2>1, <2>4 DEF FillRight
  <2>7. QED BY <2>4, <2>5, <2>6
<1>6. CASE Reaches("DATA_MISS", served, flit)
  <2>1. /\ Place("DATA_MISS") = "net" /\ served \in DOMAIN net /\ net[served].trdid.type = "DATA_MISS"
        /\ rsp' = Flits(net[served]) /\ net[served] \in InFlight
    BY <1>6 DEF Reaches, Chosen, RspServed, InFlight
  <2>2. PICK p \in InFlight : p = net[served] /\ p \in PacketSet
    BY <2>1, InFlightIs DEF Controlled, Types
  <2>3. p.line = d_addr.line /\ ~p.write /\ p.words = Word
    BY <2>1, <2>2 DEF Controlled, Shapes, PacketsAsk, Asks
  <2>4. /\ Len(Flits(p)) = NbWords /\ Flits(p) \in Seq(FlitSet)
        /\ \A n \in 1 .. NbWords : Flits(p)[n].rdata = mem[p.line][n - 1]
    BY <2>2, <2>3, FlitsIs DEF Controlled, Types
  <2>5. k \in 1 .. NbWords /\ rsp'[k].rdata = mem[d_addr.line][k - 1] /\ k - 1 \in Word
        /\ NbWords - Len(rsp') + k - 1 = k - 1
    <3>1. DOMAIN Flits(p) = 1 .. NbWords
      BY <2>4, DomainIs
    <3>2. QED BY <2>1, <2>2, <2>3, <2>4, <3>1, StoresAssumption DEF Word
  <2>6. QED BY <2>1, <2>5, MissReads
<1>7. QED
  BY <1>1, <1>3, <1>4, <1>5, <1>6 DEF Moves, Rests, Arises, Starts, Leaves

(* The first word in the FIFO after the cycle.                             *)
LEMMA FillFifo ==
  ASSUME Controlled, FillRight, d_fsm \in Missing, d_addr.line \notin ErrorLine,
         NEW locks, NEW ack, NEW served, NEW flit, Ticks(locks, ack, served, flit), fifo_data' /= <<>>
  PROVE  Good(d_addr.line, IF DataGet THEN d_word + 1 ELSE d_word, fifo_data'[1])
<1>1. DataFlows("DATA_MISS", NbWords, d_word, served, flit)
  BY DataMissFlows DEF Controlled
<1>2. /\ fifo_data'[1] = IF DataPut(flit) THEN flit.rdata ELSE fifo_data[1]
      /\ ~DataPut(flit) => fifo_data' = fifo_data
      /\ DataPut(flit) <=> Put("DATA_MISS", served, flit)
  BY <1>1 DEF DataFlows, Flows
<1>3. /\ fifo_data' = Update(fifo_data, DataGet, DataPut(flit), flit.rdata)
      /\ DataGet \in BOOLEAN /\ DataPut(flit) \in BOOLEAN
  BY DataFlow DEF Controlled
<1>4. fifo_data \in Seq(Value \cup {None}) /\ Len(fifo_data) <= 1 /\ (DataGet => fifo_data /= <<>>)
  BY DEF Controlled, Types, RspTypes, DataGet
<1>5. DataGet => Len(fifo_data) = 1
  BY DataWord DEF Controlled, Types, Shapes
<1>6. CASE ~DataPut(flit)
  <2>1. ~DataGet
    <3>1. SUFFICES ASSUME DataGet PROVE FALSE
      OBVIOUS
    <3>2. fifo_data' = Tail(fifo_data)
      BY <1>3, <1>6, <3>1 DEF Update
    <3>3. QED BY <1>4, <1>5, <3>1, <3>2, TailIs
  <2>2. QED BY <1>2, <1>4, <1>6, <2>1 DEF FillRight
<1>7. CASE DataPut(flit)
  <2>1. Place("DATA_MISS") = "rsp" /\ flit = rsp[1] /\ rsp /= <<>>
    <3>1. Place("DATA_MISS") = "rsp" /\ flit = rsp[1]
      BY <1>2, <1>7, PutWhere DEF Controlled, Types, Shapes, ReadType
    <3>2. QED BY <1>2, <1>7, <3>1 DEF Put, RspTakes, AtRsp
  <2>2. Len(rsp) \in Nat /\ 1 \in DOMAIN rsp
    BY <2>1, FirstIs DEF Controlled, Types, NetTypes
  <2>3. Good(d_addr.line, NbWords - Len(rsp) + 1 - 1, flit.rdata)
    BY <2>1, <2>2 DEF FillRight
  <2>4. d_word + Len(fifo_data) + Len(rsp) = NbWords
    BY <2>1 DEF Controlled, Shapes, DataTraffic, Accounts, Coming
  <2>5. /\ DataGet => Len(fifo_data) = 1
        /\ ~DataGet => Len(fifo_data) = 0
    <3>1. ~DataGet => Len(fifo_data) = 0
      <4>1. SUFFICES ASSUME ~DataGet, fifo_data /= <<>> PROVE FALSE
        BY <1>4, EmptyIs
      <4>2. fifo_data' = Append(fifo_data, flit.rdata)
        BY <1>3, <1>7, <4>1 DEF Update
      <4>3. Len(fifo_data') <= 1
        BY DataFifoKept DEF Controlled
      <4>4. flit.rdata \in Value \cup {None}
        BY <1>2, <1>7, PutWhere DEF Controlled, Types, Shapes, ReadType
      <4>5. Len(fifo_data') = Len(fifo_data) + 1
        BY <1>4, <4>2, <4>4, AppendIs
      <4>6. Len(fifo_data) >= 1
        BY <1>4, <4>1, FirstIs
      <4>7. Len(fifo_data) \in Nat
        BY <1>4
      <4>8. QED BY <4>3, <4>5, <4>6, <4>7
    <3>2. QED BY <1>5, <3>1
  <2>6. d_word \in Int /\ Len(fifo_data) \in Int /\ NbWords \in Int /\ Len(rsp) \in Int
    BY <1>4, <2>2, StoresAssumption DEF Controlled, Types, DataTypes
  <2>7. (IF DataGet THEN d_word + 1 ELSE d_word) = NbWords - Len(rsp) + 1 - 1
    <3>1. PICK size \in Int, word \in Int, f \in Int, c \in Int :
            size = NbWords /\ word = d_word /\ f = Len(fifo_data) /\ c = Len(rsp)
      BY <2>6
    <3>2. word + f + c = size
      BY <2>4, <3>1
    <3>3. CASE DataGet
      <4>1. word + 1 = size - c + 1 - 1
        BY <2>5, <3>1, <3>2, <3>3
      <4>2. QED BY <3>1, <3>3, <4>1
    <3>4. CASE ~DataGet
      <4>1. word = size - c + 1 - 1
        BY <2>5, <3>1, <3>2, <3>4
      <4>2. QED BY <3>1, <3>4, <4>1
    <3>5. QED BY <3>3, <3>4
  <2>8. QED BY <1>2, <1>7, <2>3, <2>7
<1>8. QED BY <1>6, <1>7

(* Every word that a miss has written is right.                            *)
LEMMA FillWord ==
  ASSUME Controlled, FillRight, d_fsm \in Missing, d_fsm' \in Missing, d_addr.line \notin ErrorLine,
         NEW locks, NEW ack, NEW served, NEW flit, Ticks(locks, ack, served, flit)
  PROVE  /\ ~Drsp.valid /\ d_word' = IF DataGet THEN d_word + 1 ELSE d_word
         /\ \A w \in Word : w < d_word' => Good(d_addr.line, w, dcache'[d_way'].data[w])
<1>1. ServesMiss
  BY DataHeld DEF Controlled, Types, Shapes, Ticks, Cycle, ServesUnc, UncFails, UncEnds, UncWaits, Stays, Missing
<1>2. Accounts(d_addr.line, d_word, NbWords, fifo_data, data_error, "DATA_MISS")
  BY DEF Controlled, Shapes, DataTraffic
<1>3. d_word \in Nat /\ NbWords \in Nat \ {0}
  BY StoresAssumption DEF Controlled, Types, DataTypes
<1>4. CASE MissSelects \/ MissInvals
  <2>1. Place("DATA_MISS") \in {"req", "cmd"}
    BY <1>4 DEF MissSelects, MissInvals, Stays, Controlled, Shapes, DataTraffic
  <2>2. Coming("DATA_MISS", NbWords) = NbWords
    BY <2>1 DEF Coming
  <2>3. Len(fifo_data) \in Nat /\ d_word + Len(fifo_data) + NbWords = NbWords
    BY <1>2, <2>2 DEF Accounts, Controlled, Types, RspTypes
  <2>4. d_word = 0
    BY <1>3, <2>3
  <2>5. d_word' = 0 /\ ~DataGet /\ ~Drsp.valid
    BY <1>4, <2>4 DEF MissSelects, MissInvals, Quiet
  <2>6. QED BY <2>4, <2>5, StoresAssumption DEF Word
<1>5. CASE MissWaits
  BY <1>5 DEF MissWaits, Quiet, Same, FillRight
<1>6. CASE MissFills
  <2>1. /\ d_fsm = "MISS_WAIT" /\ DataGet /\ ~Drsp.valid /\ d_way' = d_way /\ d_way \in Way /\ dcache \in CacheType
        /\ d_word' = d_word + 1 /\ dcache' = WriteWord(dcache, d_way, d_word, Head(fifo_data))
    BY <1>6 DEF MissFills, Stays, Controlled, Types, DataTypes, StoreTypes
  <2>2. /\ Head(fifo_data) = fifo_data[1] /\ fifo_data[1] \in Value /\ d_word \in Word /\ fifo_data /= <<>>
    BY <2>1, DataWord DEF Controlled, Types, Shapes, DataGet
  <2>3. \A x \in Word : dcache'[d_way].data[x] = IF x = d_word THEN fifo_data[1] ELSE dcache[d_way].data[x]
    BY <2>1, <2>2, WriteWordIs
  <2>4. ASSUME NEW w \in Word, w < d_word + 1
        PROVE  Good(d_addr.line, w, dcache'[d_way].data[w])
    <3>1. CASE w = d_word
      BY <2>2, <2>3, <3>1 DEF FillRight
    <3>2. CASE w /= d_word
      <4>1. w < d_word
        BY <1>3, <2>4, <3>2, StoresAssumption DEF Word
      <4>2. QED BY <2>3, <3>2, <4>1 DEF FillRight
    <3>3. QED BY <3>1, <3>2
  <2>5. QED BY <2>1, <2>4
<1>7. QED
  BY <1>1, <1>4, <1>5, <1>6 DEF ServesMiss, MissFails, MissEnds, Stays, Missing

(* A cycle keeps every word of a miss right, wherever it is.               *)
LEMMA FillRightKept ==
  ASSUME Controlled, FillRight, MissClear, WritesRight, DmaRight,
         NEW locks, NEW ack, NEW served, NEW flit, Ticks(locks, ack, served, flit)
  PROVE  FillRight'
<1> SUFFICES ASSUME d_fsm' \in Missing, d_addr'.line \notin ErrorLine
             PROVE  /\ \A w \in Word : w < d_word' => Good(d_addr.line, w, dcache[d_way].data[w])'
                    /\ fifo_data' /= <<>> => Good(d_addr.line, d_word, fifo_data[1])'
                    /\ Place("DATA_MISS")' = "rsp" =>
                         \A k \in DOMAIN rsp' : Good(d_addr.line, NbWords - Len(rsp) + k - 1, rsp[k].rdata)'
  BY DEF FillRight
<1>1. CASE d_fsm \in Missing
  <2>1. d_addr' = d_addr
    BY <1>1, DataHeld DEF Controlled, Types, Shapes, Ticks, Cycle
  <2>2. ~Drsp.valid /\ d_word' = IF DataGet THEN d_word + 1 ELSE d_word
    BY <1>1, <2>1, FillWord
  <2>3. dreq' = dreq /\ expected' = expected /\ fresh' = fresh
    BY <1>1, <2>2, Waits
  <2>4. \A w \in Word : w < d_word' => Good(d_addr.line, w, dcache'[d_way'].data[w])
    BY <1>1, <2>1, FillWord
  <2>5. fifo_data' /= <<>> => Good(d_addr.line, d_word', fifo_data'[1])
    BY <1>1, <2>1, <2>2, FillFifo
  <2>6. Place("DATA_MISS")' = "rsp" =>
          \A k \in DOMAIN rsp' : Good(d_addr.line, NbWords - Len(rsp') + k - 1, rsp'[k].rdata)
    BY <1>1, <2>1, FillResponse
  <2>7. QED BY <2>1, <2>3, <2>4, <2>5, <2>6 DEF Good, Latest
<1>2. CASE d_fsm \notin Missing
  <2>1. TakesRequest \/ ServesStore \/ ServesMiss \/ ServesUnc \/ ServesXtn
    BY DataCases DEF Controlled, Types, Shapes, Ticks, Cycle
  <2>2. AsksMiss
    BY <1>2, <2>1 DEF TakesRequest, AsksNothing, AsksHit, AsksUncached, StoresHit, StoresMiss, AsksInval, AsksSync,
       TakesTo, ServesStore, StoreRefused, StoreUpdates, ServesMiss, MissSelects, MissInvals, MissFails, MissFills, MissEnds,
       MissWaits, ServesUnc, UncFails, UncEnds, UncWaits, ServesXtn, InvalMisses, InvalHits, InvalEnds, SyncEnds, SyncWaits,
       Stays, Missing
  <2>3. d_word' = 0 /\ ReadMiss /\ d_fsm /= "UNC_WAIT"
    BY <2>2 DEF AsksMiss, TakesTo, Idles, Accepted
  <2>4. fifo_data' = <<>> /\ Place("DATA_MISS")' = "req"
    BY <1>2, <2>3, DataRests DEF Controlled, DataQuiet
  <2>5. \A w \in Word : ~(w < d_word')
    BY <2>3, StoresAssumption DEF Word
  <2>6. QED BY <2>4, <2>5
<1>3. QED BY <1>1, <1>2

(* The response to an uncached read is right.                              *)
LEMMA UncResponse ==
  ASSUME Controlled, UncRight, DeviceRight, DmaRight, d_fsm = "UNC_WAIT", d_type \in {"READ", "LL"},
         d_addr.line \notin ErrorLine,
         NEW locks, NEW ack, NEW served, NEW flit, Ticks(locks, ack, served, flit),
         Place("DATA_UNC")' = "rsp"
  PROVE  Good(d_addr.line, d_addr.word, rsp'[1].rdata)
<1>1. Moves("DATA_UNC", served, ack, flit)
  BY DataFlow DEF Controlled, ReadType
<1>2. ~Requested("DATA_UNC")
  BY DataHeld DEF Controlled, Types, Shapes, Ticks, Cycle
<1>3. CASE Remains("DATA_UNC", flit)
  BY <1>3 DEF Remains, UncRight
<1>4. CASE Gives("DATA_UNC", served, flit)
  <2>1. AtRsp("DATA_UNC") /\ (Len(rsp) = 1 => Place("DATA_UNC")' = "none")
    BY <1>4 DEF Gives, RspTakes
  <2>2. Len(rsp) = 1
    BY <2>1 DEF Controlled, Shapes, RspShape, AtRsp, BurstState
  <2>3. QED BY <2>1, <2>2
<1>5. CASE Reaches("DATA_UNC", served, flit)
  <2>1. /\ served \in DOMAIN net /\ net[served].trdid.type = "DATA_UNC"
        /\ rsp' = Flits(net[served]) /\ net[served] \in InFlight
    BY <1>5 DEF Reaches, Chosen, RspServed, InFlight
  <2>2. PICK p \in InFlight : p = net[served] /\ p \in PacketSet
    BY <2>1, InFlightIs DEF Controlled, Types
  <2>3. p.line = d_addr.line /\ ~p.write /\ p.words = {d_addr.word}
    BY <2>1, <2>2 DEF Controlled, Shapes, PacketsAsk, Asks
  <2>4. d_addr.word \in Word /\ Good(d_addr.line, d_addr.word, mem[d_addr.line][d_addr.word])
    BY UncReads
  <2>5. Flits(p)[1].rdata = mem[p.line][d_addr.word]
    BY <2>2, <2>3, <2>4, FlitsIs DEF Controlled, Types
  <2>6. QED BY <2>1, <2>2, <2>3, <2>4, <2>5
<1>6. QED BY <1>1, <1>2, <1>3, <1>4, <1>5 DEF Moves, Rests, Arises, Starts, Leaves

(* A cycle keeps the answer to an uncached read right, wherever it is.     *)
LEMMA UncRightKept ==
  ASSUME Controlled, UncRight, DeviceRight, DmaRight,
         NEW locks, NEW ack, NEW served, NEW flit, Ticks(locks, ack, served, flit)
  PROVE  UncRight'
<1> SUFFICES ASSUME d_fsm' = "UNC_WAIT", d_type' \in {"READ", "LL"}, d_addr'.line \notin ErrorLine
             PROVE  /\ fifo_data' /= <<>> => Good(d_addr.line, d_addr.word, fifo_data[1])'
                    /\ Place("DATA_UNC")' = "rsp" => Good(d_addr.line, d_addr.word, rsp[1].rdata)'
  BY DEF UncRight
<1>1. CASE d_fsm = "UNC_WAIT"
  <2>1. d_addr' = d_addr /\ d_type' = d_type /\ (ServesMiss \/ ServesUnc)
    BY <1>1, DataHeld DEF Controlled, Types, Shapes, Ticks, Cycle
  <2>2. UncWaits
    BY <1>1, <2>1 DEF ServesMiss, MissSelects, MissInvals, MissFails, MissFills, MissEnds, MissWaits, ServesUnc,
       UncFails, UncEnds, Stays
  <2>3. ~Drsp.valid /\ ~DataGet
    BY <2>2 DEF UncWaits, Quiet
  <2>4. dreq' = dreq /\ expected' = expected /\ fresh' = fresh
    BY <1>1, <2>3, Waits
  <2>5. Place("DATA_UNC")' = "rsp" => Good(d_addr.line, d_addr.word, rsp'[1].rdata)
    BY <1>1, <2>1, UncResponse
  <2>6. DataFlows("DATA_UNC", 1, 0, served, flit)
    BY <1>1, DataUncFlows DEF Controlled
  <2>7. ASSUME fifo_data' /= <<>>
        PROVE  Good(d_addr.line, d_addr.word, fifo_data'[1])
    <3>1. /\ fifo_data'[1] = IF DataPut(flit) THEN flit.rdata ELSE fifo_data[1]
          /\ ~DataPut(flit) => fifo_data' = fifo_data
          /\ DataPut(flit) <=> Put("DATA_UNC", served, flit)
      BY <2>6, <2>7 DEF DataFlows, Flows
    <3>2. CASE DataPut(flit)
      <4>1. Place("DATA_UNC") = "rsp" /\ flit = rsp[1]
        BY <3>1, <3>2, PutWhere DEF Controlled, Types, Shapes, ReadType
      <4>2. QED BY <1>1, <2>1, <3>1, <3>2, <4>1 DEF UncRight
    <3>3. CASE ~DataPut(flit)
      BY <1>1, <2>1, <2>7, <3>1, <3>3 DEF UncRight
    <3>4. QED BY <3>2, <3>3
  <2>8. QED BY <2>1, <2>4, <2>5, <2>7 DEF Good, Latest
<1>2. CASE d_fsm /= "UNC_WAIT"
  <2>1. Place("DATA_UNC")' = "req"
    BY <1>2, UncWaitIs
  <2>2. d_fsm \notin Missing
    <3>1. SUFFICES ASSUME d_fsm \in Missing PROVE FALSE
      OBVIOUS
    <3>2. ServesMiss \/ ServesUnc
      BY <3>1, DataHeld DEF Controlled, Types, Shapes, Ticks, Cycle
    <3>3. QED BY <1>2, <3>2 DEF ServesMiss, MissSelects, MissInvals, MissFails, MissFills, MissEnds, MissWaits, ServesUnc,
       UncFails, UncEnds, UncWaits, Stays
  <2>3. fifo_data' = <<>>
    BY <1>2, <2>2, DataRests DEF Controlled, DataQuiet
  <2>4. QED BY <2>1, <2>3
<1>3. QED BY <1>1, <1>2

-----------------------------------------------------------------------------
(* THE INSTRUCTIONS.                                                       *)

(***************************************************************************)
(* The instructions, wherever they are.                                    *)
(***************************************************************************)
CodeRight == \A line \in FetchedLine : \A w \in Word : mem[line][w] = Contents[line][w]

InsCachedRight ==
  \A way \in Way : icache[way].valid =>
    \A w \in Word : icache[way].data[w] = Contents[icache[way].tag][w]

InsFillRight ==
  i_fsm \in Missing /\ i_addr.line \notin ErrorLine =>
    /\ \A w \in Word : w < i_word => icache[i_way].data[w] = Contents[i_addr.line][w]
    /\ fifo_ins /= <<>> => fifo_ins[1] = Contents[i_addr.line][i_word]
    /\ Place("INS_MISS") = "rsp" =>
         \A k \in DOMAIN rsp : rsp[k].rdata = Contents[i_addr.line][NbWords - Len(rsp) + k - 1]

InsUncRight ==
  i_fsm = "UNC_WAIT" /\ i_addr.line \notin ErrorLine =>
    /\ fifo_ins /= <<>> => fifo_ins[1] = Contents[i_addr.line][i_addr.word]
    /\ Place("INS_UNC") = "rsp" => rsp[1].rdata = Contents[i_addr.line][i_addr.word]

(* Nobody writes the lines that are fetched.                               *)
LEMMA FetchedIs ==
  ASSUME NEW line \in FetchedLine
  PROVE  line \in Line /\ line \notin DmaLine /\ line \notin StoredLine
BY TopAssumption DEF FetchedLine, Addr

(* A cycle keeps the code in memory.                                       *)
LEMMA CodeRightKept ==
  ASSUME Controlled, CodeRight,
         NEW locks, NEW ack, NEW served, NEW flit, Ticks(locks, ack, served, flit)
  PROVE  CodeRight'
<1> SUFFICES ASSUME NEW line \in FetchedLine, NEW w \in Word
             PROVE  mem'[line][w] = mem[line][w]
  BY DEF CodeRight
<1>1. line \in Line /\ line \notin DmaLine /\ line \notin StoredLine
  BY FetchedIs
<1>2. MemKept \/ MemWritten(served) \/ MemDma
  BY MemStep
<1>3. CASE MemWritten(served)
  <2>1. /\ net[served] \in InFlight /\ net[served].write
        /\ mem'[line][w] = IF line = net[served].line /\ net[served].words[w] /= Hole
                           THEN net[served].words[w] ELSE mem[line][w]
    BY <1>1, <1>3, MemIs DEF Controlled, Types, MemWritten
  <2>2. net[served].line \in StoredLine
    BY <2>1, WritePacketIs
  <2>3. QED BY <1>1, <2>1, <2>2
<1>4. CASE MemDma
  BY <1>1, <1>4, MemIs DEF Controlled, Types
<1>5. QED BY <1>2, <1>3, <1>4 DEF MemKept

InsRightWay(way) ==
  icache[way].valid => \A w \in Word : icache[way].data[w] = Contents[icache[way].tag][w]

(* The way that a miss has filled holds the code.                          *)
LEMMA InsFilledWay ==
  ASSUME Controlled, InsFillRight, InsEnds, NEW way \in Way, way = i_way,
         NEW locks, NEW ack, NEW served, NEW flit, Ticks(locks, ack, served, flit)
  PROVE  InsRightWay(way)'
<1>1. /\ i_fsm = "MISS_WAIT" /\ InsGet /\ icache \in CacheType
      /\ i_addr.line \in CacheableLine /\ i_word = NbWords - 1
  BY DEF InsEnds, InsStays, Controlled, Types, Shapes, ServedIns, Missing, StoreTypes, Cacheable
<1>2. /\ Head(fifo_ins) = fifo_ins[1] /\ fifo_ins[1] \in Value /\ i_word \in Word /\ i_addr.line \notin ErrorLine
      /\ fifo_ins /= <<>>
  BY <1>1, InsWord DEF Controlled, Types, Shapes, InsGet
<1> DEFINE filled == WriteWord(icache, way, i_word, fifo_ins[1])
<1>3. /\ filled \in CacheType
      /\ \A x \in Word : filled[way].data[x] = IF x = i_word THEN fifo_ins[1] ELSE icache[way].data[x]
  BY <1>1, <1>2, WriteWordIs
<1>4. icache' = UpdateTag(filled, way, i_addr.line)
  BY <1>2 DEF InsEnds
<1> HIDE DEF filled
<1>5. icache'[way].data = filled[way].data /\ icache'[way].tag = i_addr.line
  BY <1>1, <1>3, <1>4, UpdateTagIs
<1> SUFFICES ASSUME NEW w \in Word
             PROVE  icache'[way].data[w] = Contents[i_addr.line][w]
  BY <1>5 DEF InsRightWay
<1>6. CASE w = i_word
  BY <1>1, <1>2, <1>3, <1>5, <1>6 DEF InsFillRight, Missing
<1>7. CASE w /= i_word
  <2>1. w < i_word
    BY <1>1, <1>7, StoresAssumption DEF Word
  <2>2. QED BY <1>1, <1>2, <1>3, <1>5, <1>7, <2>1 DEF InsFillRight, Missing
<1>8. QED BY <1>6, <1>7

(* A cycle keeps every valid way of the instruction cache right.           *)
LEMMA InsCachedRightKept ==
  ASSUME Controlled, InsCachedRight, InsFillRight,
         NEW locks, NEW ack, NEW served, NEW flit, Ticks(locks, ack, served, flit)
  PROVE  InsCachedRight'
<1> SUFFICES ASSUME NEW way \in Way
             PROVE  InsRightWay(way)'
  BY DEF InsCachedRight, InsRightWay
<1>1. InsRightWay(way)
  BY DEF InsCachedRight, InsRightWay
<1>2. InsTakes \/ InsMisses \/ InsUnc
  BY InsCases DEF Controlled, Types, Shapes, Ticks, Cycle
<1>3. icache \in CacheType /\ i_way \in Way
  BY DEF Controlled, Types, StoreTypes, InsTypes
<1>4. CASE icache'[way] = icache[way]
  BY <1>1, <1>4 DEF InsRightWay
<1>5. CASE InsInvals
  <2>1. ~icache'[i_way].valid /\ \A w \in Way : w /= i_way => icache'[w] = icache[w]
    BY <1>3, <1>5, InvalidateIs DEF InsInvals
  <2>2. CASE way = i_way
    BY <2>1, <2>2 DEF InsRightWay
  <2>3. QED BY <1>4, <2>1, <2>2
<1>6. CASE InsFills \/ InsEnds
  <2>1. i_fsm = "MISS_WAIT" /\ InsGet /\ ~icache[i_way].valid /\ i_addr.line \in CacheableLine
    BY <1>6 DEF InsFills, InsEnds, InsStays, Controlled, Shapes, IcacheShape, ServedIns, Missing, Cacheable
  <2>2. Head(fifo_ins) \in Value /\ i_word \in Word
    BY <2>1, InsWord DEF Controlled, Types, Shapes
  <2>3. PICK filled : filled = WriteWord(icache, i_way, i_word, Head(fifo_ins))
    OBVIOUS
  <2>4. filled \in CacheType /\ \A w \in Way : filled[w].valid = icache[w].valid
    BY <1>3, <2>2, <2>3, WriteWordIs
  <2>5. \A w \in Way : w /= i_way => filled[w] = icache[w]
    BY <1>3, <2>3 DEF WriteWord, CacheType
  <2>6. CASE way = i_way /\ InsEnds
    BY <2>6, InsFilledWay
  <2>7. CASE way = i_way /\ InsFills
    <3>1. ~icache'[way].valid
      BY <2>1, <2>3, <2>4, <2>7 DEF InsFills
    <3>2. QED BY <3>1 DEF InsRightWay
  <2>8. CASE way /= i_way
    <3>1. CASE InsFills
      BY <1>4, <2>3, <2>5, <2>8, <3>1 DEF InsFills
    <3>2. CASE InsEnds
      <4>1. icache' = UpdateTag(filled, i_way, i_addr.line)
        BY <2>3, <3>2 DEF InsEnds
      <4>2. icache'[way] = icache[way]
        BY <1>3, <2>1, <2>4, <2>5, <2>8, <4>1, UpdateTagIs
      <4>3. QED BY <1>4, <4>2
    <3>3. QED BY <1>6, <3>1, <3>2
  <2>9. QED BY <1>6, <2>6, <2>7, <2>8
<1>7. QED
  BY <1>2, <1>4, <1>5, <1>6 DEF InsTakes, FetchesNothing, FetchesHit, FetchesMiss, FetchesUncached, InsMisses,
     InsSelects, InsFails, InsWaits, InsUnc, InsUncFails, InsUncEnds, InsUncWaits, InsSame

(* Every word of the response to a miss is the code.                       *)
LEMMA InsFillResponse ==
  ASSUME Controlled, InsFillRight, CodeRight, i_fsm \in Missing, i_addr.line \notin ErrorLine,
         NEW locks, NEW ack, NEW served, NEW flit, Ticks(locks, ack, served, flit),
         Place("INS_MISS")' = "rsp", NEW k \in DOMAIN rsp'
  PROVE  rsp'[k].rdata = Contents[i_addr.line][NbWords - Len(rsp') + k - 1]
<1>1. Moves("INS_MISS", served, ack, flit)
  BY InsFlow DEF Controlled, ReadType
<1>2. rsp \in Seq(FlitSet) /\ net \in Seq(PacketSet)
  BY DEF Controlled, Types, NetTypes
<1>3. ~Requested("INS_MISS")
  BY InsHeld DEF Controlled, Types, Shapes, Ticks, Cycle
<1>4. CASE Remains("INS_MISS", flit)
  BY <1>4 DEF Remains, InsFillRight
<1>5. CASE Gives("INS_MISS", served, flit)
  <2>1. Place("INS_MISS") = "rsp" /\ rsp' = Tail(rsp) /\ rsp /= <<>>
    BY <1>5 DEF Gives, RspTakes, AtRsp
  <2>2. /\ Tail(rsp) \in Seq(FlitSet) /\ Len(Tail(rsp)) = Len(rsp) - 1 /\ Len(rsp) \in Nat /\ Len(rsp) >= 1
        /\ \A n \in 1 .. Len(rsp) - 1 : Tail(rsp)[n] = rsp[n + 1]
    BY <1>2, <2>1, TailIs
  <2>3. DOMAIN rsp = 1 .. Len(rsp) /\ DOMAIN Tail(rsp) = 1 .. Len(rsp) - 1
    BY <1>2, <2>2, DomainIs
  <2>4. k \in 1 .. Len(rsp) - 1 /\ rsp'[k] = rsp[k + 1] /\ k + 1 \in DOMAIN rsp
    BY <2>1, <2>2, <2>3
  <2>5. NbWords - Len(rsp') + k - 1 = NbWords - Len(rsp) + (k + 1) - 1
    BY <2>1, <2>2, <2>4, StoresAssumption
  <2>6. rsp[k + 1].rdata = Contents[i_addr.line][NbWords - Len(rsp) + (k + 1) - 1]
    BY <2>1, <2>4 DEF InsFillRight
  <2>7. QED BY <2>4, <2>5, <2>6
<1>6. CASE Reaches("INS_MISS", served, flit)
  <2>1. /\ Place("INS_MISS") = "net" /\ served \in DOMAIN net /\ net[served].trdid.type = "INS_MISS"
        /\ rsp' = Flits(net[served]) /\ net[served] \in InFlight
    BY <1>6 DEF Reaches, Chosen, RspServed, InFlight
  <2>2. PICK p \in InFlight : p = net[served] /\ p \in PacketSet
    BY <2>1, InFlightIs DEF Controlled, Types
  <2>3. p.line = i_addr.line /\ ~p.write /\ p.words = Word
    BY <2>1, <2>2 DEF Controlled, Shapes, PacketsAsk, Asks
  <2>4. /\ Len(Flits(p)) = NbWords /\ Flits(p) \in Seq(FlitSet)
        /\ \A n \in 1 .. NbWords : Flits(p)[n].rdata = mem[p.line][n - 1]
    BY <2>2, <2>3, FlitsIs DEF Controlled, Types
  <2>5. k \in 1 .. NbWords /\ rsp'[k].rdata = mem[i_addr.line][k - 1] /\ k - 1 \in Word
        /\ NbWords - Len(rsp') + k - 1 = k - 1
    <3>1. DOMAIN Flits(p) = 1 .. NbWords
      BY <2>4, DomainIs
    <3>2. QED BY <2>1, <2>2, <2>3, <2>4, <3>1, StoresAssumption DEF Word
  <2>6. i_addr.line \in FetchedLine
    BY DEF Controlled, Shapes, ServedIns
  <2>7. QED BY <2>5, <2>6 DEF CodeRight
<1>7. QED
  BY <1>1, <1>3, <1>4, <1>5, <1>6 DEF Moves, Rests, Arises, Starts, Leaves

(* The word in the FIFO is the one the cache writes next.                  *)
LEMMA InsFillFifo ==
  ASSUME Controlled, InsFillRight, i_fsm \in Missing, i_addr.line \notin ErrorLine,
         NEW locks, NEW ack, NEW served, NEW flit, Ticks(locks, ack, served, flit), fifo_ins' /= <<>>
  PROVE  fifo_ins'[1] = Contents[i_addr.line][IF InsGet THEN i_word + 1 ELSE i_word]
<1>1. InsFlows("INS_MISS", NbWords, i_word, served, flit)
  BY InsMissFlows DEF Controlled
<1>2. /\ fifo_ins'[1] = IF InsPut(flit) THEN flit.rdata ELSE fifo_ins[1]
      /\ ~InsPut(flit) => fifo_ins' = fifo_ins
      /\ InsPut(flit) <=> Put("INS_MISS", served, flit)
  BY <1>1 DEF InsFlows, Flows
<1>3. /\ fifo_ins' = Update(fifo_ins, InsGet, InsPut(flit), flit.rdata)
      /\ InsGet \in BOOLEAN /\ InsPut(flit) \in BOOLEAN
  BY InsFlow DEF Controlled
<1>4. fifo_ins \in Seq(Value \cup {None}) /\ Len(fifo_ins) <= 1 /\ (InsGet => fifo_ins /= <<>>)
  BY DEF Controlled, Types, RspTypes, InsGet
<1>5. InsGet => Len(fifo_ins) = 1
  BY InsWord DEF Controlled, Types, Shapes
<1>6. CASE ~InsPut(flit)
  <2>1. ~InsGet
    <3>1. SUFFICES ASSUME InsGet PROVE FALSE
      OBVIOUS
    <3>2. fifo_ins' = Tail(fifo_ins)
      BY <1>3, <1>6, <3>1 DEF Update
    <3>3. QED BY <1>4, <1>5, <3>1, <3>2, TailIs
  <2>2. QED BY <1>2, <1>4, <1>6, <2>1 DEF InsFillRight
<1>7. CASE InsPut(flit)
  <2>1. Place("INS_MISS") = "rsp" /\ flit = rsp[1] /\ rsp /= <<>>
    <3>1. Place("INS_MISS") = "rsp" /\ flit = rsp[1]
      BY <1>2, <1>7, PutWhere DEF Controlled, Types, Shapes, ReadType
    <3>2. QED BY <1>2, <1>7, <3>1 DEF Put, RspTakes, AtRsp
  <2>2. Len(rsp) \in Nat /\ 1 \in DOMAIN rsp
    BY <2>1, FirstIs DEF Controlled, Types, NetTypes
  <2>3. flit.rdata = Contents[i_addr.line][NbWords - Len(rsp) + 1 - 1]
    BY <2>1, <2>2 DEF InsFillRight
  <2>4. i_word + Len(fifo_ins) + Len(rsp) = NbWords
    BY <2>1 DEF Controlled, Shapes, InsTraffic, Accounts, Coming
  <2>5. /\ InsGet => Len(fifo_ins) = 1
        /\ ~InsGet => Len(fifo_ins) = 0
    <3>1. ~InsGet => Len(fifo_ins) = 0
      <4>1. SUFFICES ASSUME ~InsGet, fifo_ins /= <<>> PROVE FALSE
        BY <1>4, EmptyIs
      <4>2. fifo_ins' = Append(fifo_ins, flit.rdata)
        BY <1>3, <1>7, <4>1 DEF Update
      <4>3. Len(fifo_ins') <= 1
        BY InsFifoKept DEF Controlled
      <4>4. flit.rdata \in Value \cup {None}
        BY <1>2, <1>7, PutWhere DEF Controlled, Types, Shapes, ReadType
      <4>5. Len(fifo_ins') = Len(fifo_ins) + 1
        BY <1>4, <4>2, <4>4, AppendIs
      <4>6. Len(fifo_ins) >= 1
        BY <1>4, <4>1, FirstIs
      <4>7. Len(fifo_ins) \in Nat
        BY <1>4
      <4>8. QED BY <4>3, <4>5, <4>6, <4>7
    <3>2. QED BY <1>5, <3>1
  <2>6. i_word \in Int /\ Len(fifo_ins) \in Int /\ NbWords \in Int /\ Len(rsp) \in Int
    BY <1>4, <2>2, StoresAssumption DEF Controlled, Types, InsTypes
  <2>7. (IF InsGet THEN i_word + 1 ELSE i_word) = NbWords - Len(rsp) + 1 - 1
    <3>1. PICK size \in Int, word \in Int, f \in Int, c \in Int :
            size = NbWords /\ word = i_word /\ f = Len(fifo_ins) /\ c = Len(rsp)
      BY <2>6
    <3>2. word + f + c = size
      BY <2>4, <3>1
    <3>3. CASE InsGet
      <4>1. word + 1 = size - c + 1 - 1
        BY <2>5, <3>1, <3>2, <3>3
      <4>2. QED BY <3>1, <3>3, <4>1
    <3>4. CASE ~InsGet
      <4>1. word = size - c + 1 - 1
        BY <2>5, <3>1, <3>2, <3>4
      <4>2. QED BY <3>1, <3>4, <4>1
    <3>5. QED BY <3>3, <3>4
  <2>8. QED BY <1>2, <1>7, <2>3, <2>7
<1>8. QED BY <1>6, <1>7

(* Every word that a miss has written is the code.                         *)
LEMMA InsFillWord ==
  ASSUME Controlled, InsFillRight, i_fsm \in Missing, i_fsm' \in Missing, i_addr.line \notin ErrorLine,
         NEW locks, NEW ack, NEW served, NEW flit, Ticks(locks, ack, served, flit)
  PROVE  /\ i_word' = IF InsGet THEN i_word + 1 ELSE i_word
         /\ \A w \in Word : w < i_word' => icache'[i_way'].data[w] = Contents[i_addr.line][w]
<1>1. InsMisses
  BY InsHeld DEF Controlled, Types, Shapes, Ticks, Cycle, InsUnc, InsUncFails, InsUncEnds, InsUncWaits, InsStays, Missing
<1>2. Accounts(i_addr.line, i_word, NbWords, fifo_ins, ins_error, "INS_MISS")
  BY DEF Controlled, Shapes, InsTraffic
<1>3. i_word \in Nat /\ NbWords \in Nat \ {0}
  BY StoresAssumption DEF Controlled, Types, InsTypes
<1>4. CASE InsSelects \/ InsInvals
  <2>1. Place("INS_MISS") \in {"req", "cmd"}
    BY <1>4 DEF InsSelects, InsInvals, InsStays, Controlled, Shapes, InsTraffic
  <2>2. Coming("INS_MISS", NbWords) = NbWords
    BY <2>1 DEF Coming
  <2>3. Len(fifo_ins) \in Nat /\ i_word + Len(fifo_ins) + NbWords = NbWords
    BY <1>2, <2>2 DEF Accounts, Controlled, Types, RspTypes
  <2>4. i_word = 0
    BY <1>3, <2>3
  <2>5. i_word' = 0 /\ ~InsGet
    BY <1>4, <2>4 DEF InsSelects, InsInvals, InsQuiet
  <2>6. QED BY <2>4, <2>5, StoresAssumption DEF Word
<1>5. CASE InsWaits
  BY <1>5 DEF InsWaits, InsQuiet, InsSame, InsFillRight
<1>6. CASE InsFills
  <2>1. /\ i_fsm = "MISS_WAIT" /\ InsGet /\ i_way' = i_way /\ i_way \in Way /\ icache \in CacheType
        /\ i_word' = i_word + 1 /\ icache' = WriteWord(icache, i_way, i_word, Head(fifo_ins))
    BY <1>6 DEF InsFills, InsStays, Controlled, Types, InsTypes, StoreTypes
  <2>2. /\ Head(fifo_ins) = fifo_ins[1] /\ fifo_ins[1] \in Value /\ i_word \in Word /\ fifo_ins /= <<>>
    BY <2>1, InsWord DEF Controlled, Types, Shapes, InsGet
  <2>3. \A x \in Word : icache'[i_way].data[x] = IF x = i_word THEN fifo_ins[1] ELSE icache[i_way].data[x]
    BY <2>1, <2>2, WriteWordIs
  <2>4. ASSUME NEW w \in Word, w < i_word + 1
        PROVE  icache'[i_way].data[w] = Contents[i_addr.line][w]
    <3>1. CASE w = i_word
      BY <2>2, <2>3, <3>1 DEF InsFillRight
    <3>2. CASE w /= i_word
      <4>1. w < i_word
        BY <1>3, <2>4, <3>2, StoresAssumption DEF Word
      <4>2. QED BY <2>3, <3>2, <4>1 DEF InsFillRight
    <3>3. QED BY <3>1, <3>2
  <2>5. QED BY <2>1, <2>4
<1>7. QED
  BY <1>1, <1>4, <1>5, <1>6 DEF InsMisses, InsFails, InsEnds, InsStays, Missing

(* A cycle keeps every word of a miss right, wherever it is.               *)
LEMMA InsFillRightKept ==
  ASSUME Controlled, InsFillRight, CodeRight,
         NEW locks, NEW ack, NEW served, NEW flit, Ticks(locks, ack, served, flit)
  PROVE  InsFillRight'
<1> SUFFICES ASSUME i_fsm' \in Missing, i_addr'.line \notin ErrorLine
             PROVE  /\ \A w \in Word : w < i_word' => icache'[i_way'].data[w] = Contents[i_addr'.line][w]
                    /\ fifo_ins' /= <<>> => fifo_ins'[1] = Contents[i_addr'.line][i_word']
                    /\ Place("INS_MISS")' = "rsp" =>
                         \A k \in DOMAIN rsp' : rsp'[k].rdata = Contents[i_addr'.line][NbWords - Len(rsp') + k - 1]
  BY DEF InsFillRight
<1>1. CASE i_fsm \in Missing
  <2>1. i_addr' = i_addr
    BY <1>1, InsHeld DEF Controlled, Types, Shapes, Ticks, Cycle
  <2>2. i_word' = IF InsGet THEN i_word + 1 ELSE i_word
    BY <1>1, <2>1, InsFillWord
  <2>3. \A w \in Word : w < i_word' => icache'[i_way'].data[w] = Contents[i_addr.line][w]
    BY <1>1, <2>1, InsFillWord
  <2>4. fifo_ins' /= <<>> => fifo_ins'[1] = Contents[i_addr.line][i_word']
    BY <1>1, <2>1, <2>2, InsFillFifo
  <2>5. Place("INS_MISS")' = "rsp" =>
          \A k \in DOMAIN rsp' : rsp'[k].rdata = Contents[i_addr.line][NbWords - Len(rsp') + k - 1]
    BY <1>1, <2>1, InsFillResponse
  <2>6. QED BY <2>1, <2>3, <2>4, <2>5
<1>2. CASE i_fsm \notin Missing
  <2>1. InsTakes \/ InsMisses \/ InsUnc
    BY InsCases DEF Controlled, Types, Shapes, Ticks, Cycle
  <2>2. FetchesMiss
    BY <1>2, <2>1 DEF InsTakes, FetchesNothing, FetchesHit, FetchesUncached, InsMisses, InsSelects, InsInvals, InsFails,
       InsFills, InsEnds, InsWaits, InsUnc, InsUncFails, InsUncEnds, InsUncWaits, InsStays, Missing
  <2>3. i_word' = 0 /\ IMiss /\ i_fsm /= "UNC_WAIT"
    BY <2>2 DEF FetchesMiss
  <2>4. fifo_ins' = <<>> /\ Place("INS_MISS")' = "req"
    BY <1>2, <2>3, InsRests DEF Controlled, InsNoFlow
  <2>5. \A w \in Word : ~(w < i_word')
    BY <2>3, StoresAssumption DEF Word
  <2>6. QED BY <2>4, <2>5
<1>3. QED BY <1>1, <1>2

(* The response to an uncached fetch is the code.                          *)
LEMMA InsUncResponse ==
  ASSUME Controlled, InsUncRight, CodeRight, i_fsm = "UNC_WAIT", i_addr.line \notin ErrorLine,
         NEW locks, NEW ack, NEW served, NEW flit, Ticks(locks, ack, served, flit),
         Place("INS_UNC")' = "rsp"
  PROVE  rsp'[1].rdata = Contents[i_addr.line][i_addr.word]
<1>1. Moves("INS_UNC", served, ack, flit)
  BY InsFlow DEF Controlled, ReadType
<1>2. ~Requested("INS_UNC")
  BY InsHeld DEF Controlled, Types, Shapes, Ticks, Cycle
<1>3. CASE Remains("INS_UNC", flit)
  BY <1>3 DEF Remains, InsUncRight
<1>4. CASE Gives("INS_UNC", served, flit)
  <2>1. AtRsp("INS_UNC") /\ (Len(rsp) = 1 => Place("INS_UNC")' = "none")
    BY <1>4 DEF Gives, RspTakes
  <2>2. Len(rsp) = 1
    BY <2>1 DEF Controlled, Shapes, RspShape, AtRsp, BurstState
  <2>3. QED BY <2>1, <2>2
<1>5. CASE Reaches("INS_UNC", served, flit)
  <2>1. /\ served \in DOMAIN net /\ net[served].trdid.type = "INS_UNC"
        /\ rsp' = Flits(net[served]) /\ net[served] \in InFlight
    BY <1>5 DEF Reaches, Chosen, RspServed, InFlight
  <2>2. PICK p \in InFlight : p = net[served] /\ p \in PacketSet
    BY <2>1, InFlightIs DEF Controlled, Types
  <2>3. p.line = i_addr.line /\ ~p.write /\ p.words = {i_addr.word}
    BY <2>1, <2>2 DEF Controlled, Shapes, PacketsAsk, Asks
  <2>4. i_addr.word \in Word /\ i_addr.line \in FetchedLine
    BY FetchIs DEF Controlled, Types, Shapes, ServedIns, Addr
  <2>5. Flits(p)[1].rdata = mem[p.line][i_addr.word]
    <3>1. MemTypes /\ p \in PacketSet
      BY <2>2 DEF Controlled, Types
    <3>2. p.line \notin ErrorLine /\ ~p.write =>
            \A w \in Word : p.words = {w} => Flits(p)[1].rdata = mem[p.line][w]
      BY <3>1, FlitsIs
    <3> QED BY <2>3, <2>4, <3>2
  <2>6. QED BY <2>1, <2>2, <2>3, <2>4, <2>5 DEF CodeRight
<1>6. QED BY <1>1, <1>2, <1>3, <1>4, <1>5 DEF Moves, Rests, Arises, Starts, Leaves

(* A cycle keeps the answer to an uncached fetch right, wherever it is.    *)
LEMMA InsUncRightKept ==
  ASSUME Controlled, InsUncRight, CodeRight,
         NEW locks, NEW ack, NEW served, NEW flit, Ticks(locks, ack, served, flit)
  PROVE  InsUncRight'
<1> SUFFICES ASSUME i_fsm' = "UNC_WAIT", i_addr'.line \notin ErrorLine
             PROVE  /\ fifo_ins' /= <<>> => fifo_ins'[1] = Contents[i_addr'.line][i_addr'.word]
                    /\ Place("INS_UNC")' = "rsp" => rsp'[1].rdata = Contents[i_addr'.line][i_addr'.word]
  BY DEF InsUncRight
<1>1. InsTakes \/ InsMisses \/ InsUnc
  BY InsCases DEF Controlled, Types, Shapes, Ticks, Cycle
<1>2. CASE i_fsm = "UNC_WAIT"
  <2>1. i_addr' = i_addr
    BY <1>2, InsHeld DEF Controlled, Types, Shapes, Ticks, Cycle
  <2>2. Place("INS_UNC")' = "rsp" => rsp'[1].rdata = Contents[i_addr.line][i_addr.word]
    BY <1>2, <2>1, InsUncResponse
  <2>3. InsFlows("INS_UNC", 1, 0, served, flit)
    BY <1>2, InsUncFlows DEF Controlled
  <2>4. ASSUME fifo_ins' /= <<>>
        PROVE  fifo_ins'[1] = Contents[i_addr.line][i_addr.word]
    <3>1. /\ fifo_ins'[1] = IF InsPut(flit) THEN flit.rdata ELSE fifo_ins[1]
          /\ ~InsPut(flit) => fifo_ins' = fifo_ins
          /\ InsPut(flit) <=> Put("INS_UNC", served, flit)
      BY <2>3, <2>4 DEF InsFlows, Flows
    <3>2. CASE InsPut(flit)
      <4>1. Place("INS_UNC") = "rsp" /\ flit = rsp[1]
        BY <3>1, <3>2, PutWhere DEF Controlled, Types, Shapes, ReadType
      <4>2. QED BY <1>2, <2>1, <3>1, <3>2, <4>1 DEF InsUncRight
    <3>3. CASE ~InsPut(flit)
      BY <1>2, <2>1, <2>4, <3>1, <3>3 DEF InsUncRight
    <3>4. QED BY <3>2, <3>3
  <2>5. QED BY <2>1, <2>2, <2>4
<1>3. CASE i_fsm /= "UNC_WAIT"
  <2>1. FetchesUncached
    BY <1>1, <1>3 DEF InsTakes, FetchesNothing, FetchesHit, FetchesMiss, InsMisses, InsSelects, InsInvals, InsFails,
       InsFills, InsEnds, InsWaits, InsUnc, InsUncFails, InsUncEnds, InsUncWaits, InsStays
  <2>2. i_fsm \notin Missing /\ IUnc
    BY <2>1 DEF FetchesUncached, Missing
  <2>3. fifo_ins' = <<>> /\ Place("INS_UNC")' = "req"
    BY <1>3, <2>2, InsRests DEF Controlled, InsNoFlow
  <2>4. QED BY <2>3
<1>4. QED BY <1>2, <1>3

-----------------------------------------------------------------------------
(* THE INDUCTIVE INVARIANT HOLDS.                                          *)

DataValues == CachedRight /\ FillRight /\ MissClear /\ UncRight /\ DmaRight /\ DeviceRight /\ WritesRight
InsValues  == CodeRight /\ InsCachedRight /\ InsFillRight /\ InsUncRight
IInv == Controlled /\ DataValues /\ InsValues

(* The reset state satisfies the inductive invariant.                      *)
LEMMA InitValues ==
  ASSUME Init
  PROVE  IInv
<1>1. Controlled
  BY InitShapes DEF Controlled
<1> USE DEF Init, DcacheInit, IcacheInit, VciInit
<1>2. \A way \in Way : ~dcache[way].valid /\ ~icache[way].valid
  BY DEF EmptyCache, InvalidWay
<1>3. \A s \in Slot : wbuf[s].st = "EMPTY"
  BY EmptySlotTyped DEF EmptyBuffer
<1>4. InFlight = {}
  BY DEF InFlight
<1>5. Place("DATA_MISS") = "none"
  BY <1>4 DEF Place, AtReq, AtCmd, AtNet, AtRsp
<1>6. CachedRight /\ FillRight /\ MissClear /\ UncRight
  BY <1>2, <1>5 DEF CachedRight, FillRight, MissClear, UncRight, Missing
<1>7. DmaRight /\ DeviceRight
  BY DEF DmaRight, DeviceRight
<1>8. WritesRight
  <2>1. \A line, w : ~InCache(line, w) /\ ~InBuffer(line, w) /\ ~InNet(line, w)
    BY <1>3, <1>4 DEF InCache, Writing, InBuffer, InSlot, Gathers, InNet
  <2>2. \A line, w : Latest(line, w) = mem[line][w]
    BY DEF Latest, NoData
  <2>3. QED BY <1>3, <1>4, <2>1, <2>2 DEF WritesRight, WriteRight, InSlot, Gathers
<1>9. InsValues
  BY <1>2 DEF InsValues, CodeRight, InsCachedRight, InsFillRight, InsUncRight, Missing
<1>10. QED BY <1>1, <1>6, <1>7, <1>8, <1>9 DEF IInv, DataValues

(* A step that changes nothing keeps the values.                           *)
LEMMA StutterKeepsValues ==
  ASSUME DataValues, InsValues, UNCHANGED vars
  PROVE  DataValues' /\ InsValues'
<1> USE DEF vars, externals, dcacheRegs, icacheRegs, cmdVars, cmdRegs, rspVars
<1>1. InFlight' = InFlight
  BY DEF InFlight
<1>2. \A type : Place(type)' = Place(type)
  BY <1>1 DEF Place, AtReq, AtCmd, AtNet, AtRsp
<1>3. \A line, word : Latest(line, word)' = Latest(line, word)
  BY DEF Latest
<1>4. \A line, word, value : Good(line, word, value)' <=> Good(line, word, value)
  BY <1>3 DEF Good
<1>5. CachedRight' /\ FillRight' /\ UncRight'
  BY <1>2, <1>3 DEF DataValues, CachedRight, FillRight, UncRight, Good
<1>6. MissClear' /\ DmaRight'
  BY <1>2 DEF DataValues, MissClear, WbufMiss, Busy, DmaRight
<1>7. DeviceRight'
  BY <1>2 DEF DataValues, DeviceRight, Pending, Stores
<1>8. WritesRight'
  <2>1. \A line, w : /\ InCache(line, w)' <=> InCache(line, w)
                     /\ InBuffer(line, w)' <=> InBuffer(line, w)
                     /\ InNet(line, w)' <=> InNet(line, w)
                     /\ \A s : InSlot(s, line, w)' <=> InSlot(s, line, w)
    BY <1>1 DEF InCache, InBuffer, InSlot, Gathers, InNet, InPacket
  <2>2. ASSUME NEW line \in OwnLine \cap CacheableLine, NEW w \in Word
        PROVE  WriteRight(line, w)'
    <3>1. WriteRight(line, w)
      BY DEF DataValues, WritesRight
    <3>2. QED BY <1>1, <1>3, <2>1, <3>1 DEF WriteRight, InPacket
  <2>3. QED BY <2>2 DEF WritesRight
<1>9. InsValues'
  BY <1>2 DEF InsValues, CodeRight, InsCachedRight, InsFillRight, InsUncRight
<1>10. QED BY <1>5, <1>6, <1>7, <1>8, <1>9 DEF DataValues

(* A cycle keeps the values.                                               *)
LEMMA ValuesKept ==
  ASSUME IInv, WbufShape',
         NEW locks, NEW ack, NEW served, NEW flit, Ticks(locks, ack, served, flit)
  PROVE  DataValues' /\ InsValues'
<1>1. CachedRight'
  BY CachedRightKept DEF IInv, DataValues
<1>2. FillRight'
  BY FillRightKept DEF IInv, DataValues
<1>3. UncRight'
  BY UncRightKept DEF IInv, DataValues
<1>4. MissClear' /\ DmaRight' /\ DeviceRight'
  BY MissClearKept, DmaRightKept, DeviceRightKept DEF IInv, DataValues
<1>5. WritesRight'
  BY WriteRightKept DEF IInv, DataValues, WritesRight
<1>6. InsValues'
  BY CodeRightKept, InsCachedRightKept, InsFillRightKept, InsUncRightKept DEF IInv, InsValues
<1>7. QED BY <1>1, <1>2, <1>3, <1>4, <1>5, <1>6 DEF DataValues

(* The inductive invariant of the cache: its control, and the value of     *)
(* every word wherever it is between memory, the network, the write        *)
(* buffer, the FIFOs and the caches of vci_xcache_wrapper_advanced.cpp.    *)
THEOREM AlwaysIInv == Spec => []IInv
<1>1. Init => IInv
  BY InitValues
<1>2. IInv /\ [Clock]_vars => IInv'
  <2>1. ASSUME IInv, UNCHANGED vars
        PROVE  IInv'
    BY <2>1, StutterKeeps, StutterKeepsValues DEF IInv, Controlled
  <2>2. ASSUME IInv, Clock
        PROVE  IInv'
    <3>1. PICK locks, ack, served, flit : Ticks(locks, ack, served, flit)
      BY <2>2, ClockTicks
    <3>2. Types' /\ Shapes'
      BY <2>2, <3>1, TypesKept, ShapesKept DEF IInv, Controlled
    <3>3. DataValues' /\ InsValues'
      BY <2>2, <3>1, <3>2, ValuesKept DEF Shapes
    <3>4. QED BY <3>2, <3>3 DEF IInv, Controlled
  <2>3. QED BY <2>1, <2>2
<1>3. QED BY <1>1, <1>2, PTL DEF Spec

(* The three ways a read is answered.                                      *)
LEMMA ReadAnswers ==
  ASSUME Controlled, Drsp.valid, dreq.type \in {"READ", "LL", "SC"}
  PROVE  \/ ReadHit /\ Drsp = Response(Lookup(dcache, dreq.addr))
         \/ DataError /\ Drsp = ErrorResponse
         \/ d_fsm = "UNC_WAIT" /\ DataGet /\ Drsp = Response(Head(fifo_data))
<1>1. ~WriteHit /\ ~WriteMiss
  BY DEF WriteHit, WriteMiss, Considered
<1>2. d_fsm \notin {"XTN_HIT", "XTN_INVAL", "XTN_SYNC"} /\ (d_fsm = "UNC_WAIT" => dreq.addr = d_addr)
  BY DEF Controlled, Shapes, ServedData
<1>3. ReadHit \/ DataError \/ (d_fsm = "UNC_WAIT" /\ DataGet)
  BY <1>1, <1>2, AnswerIs DEF SyncDone, Controlled, Types, Shapes
<1>4. CASE ReadHit
  BY <1>1, <1>2, <1>4 DEF Drsp, ReadHit, Considered, Accepted, DataError, Waiting, SyncDone
<1>5. CASE ~ReadHit /\ DataError
  BY <1>1, <1>2, <1>5 DEF Drsp, DataError, DataGet, Waiting, SyncDone
<1>6. CASE ~ReadHit /\ d_fsm = "UNC_WAIT" /\ DataGet
  BY <1>1, <1>2, <1>6 DEF Drsp, DataError, DataGet, SyncDone
<1>7. QED BY <1>3, <1>4, <1>5, <1>6

(* A read is answered with a right value, or an error.                     *)
LEMMA AnswerRight ==
  ASSUME IInv, Drsp.valid, dreq.type \in {"READ", "LL", "SC"}
  PROVE  /\ Drsp.error <=> dreq.addr.line \in ErrorLine
         /\ dreq.type \in {"READ", "LL"} /\ dreq.addr.line \notin ErrorLine =>
              Good(dreq.addr.line, dreq.addr.word, Drsp.rdata)
<1>1. Controlled /\ dreq.addr \in Addr
  BY RequestIs DEF IInv, Controlled, Types
<1>2. CASE ReadHit /\ Drsp = Response(Lookup(dcache, dreq.addr))
  <2>1. Hit(dcache, dreq.addr.line)
    BY <1>2 DEF ReadHit, DHit
  <2>2. PICK way \in Way : way = HitWay(dcache, dreq.addr.line) /\ Holds(dcache, dreq.addr.line, way)
    BY <2>1, HitWayHolds
  <2>3. dcache[way].valid /\ dcache[way].tag = dreq.addr.line /\ dreq.addr.line \notin ErrorLine
    BY <1>1, <2>2 DEF Holds, Controlled, Shapes, DcacheShape, CacheShape
  <2>4. d_fsm /= "WRITE_UPDT" /\ dreq.addr.word \in Word
    BY <1>1, <1>2 DEF ReadHit, Considered, Accepted, Addr
  <2>5. Good(dreq.addr.line, dreq.addr.word, dcache[way].data[dreq.addr.word])
    BY <2>3, <2>4 DEF IInv, DataValues, CachedRight
  <2>6. Drsp.error = FALSE /\ Drsp.rdata = dcache[way].data[dreq.addr.word]
    BY <1>2, <2>2 DEF Response, Lookup
  <2>7. QED BY <2>3, <2>5, <2>6
<1>3. CASE DataError /\ Drsp = ErrorResponse
  <2>1. d_fsm \in {"MISS_WAIT", "UNC_WAIT"} /\ data_error
    BY <1>3 DEF DataError, Waiting
  <2>2. d_addr = dreq.addr
    BY <1>1, <2>1 DEF Controlled, Shapes, ServedData, Missing
  <2>3. d_addr.line \in ErrorLine
    BY <1>1, <2>1 DEF Controlled, Shapes, DataTraffic, Accounts, Missing
  <2>4. QED BY <1>3, <2>2, <2>3 DEF ErrorResponse
<1>4. CASE d_fsm = "UNC_WAIT" /\ DataGet /\ Drsp = Response(Head(fifo_data))
  <2>1. d_addr = dreq.addr /\ d_type = dreq.type
    BY <1>1, <1>4 DEF Controlled, Shapes, ServedData
  <2>2. Head(fifo_data) = fifo_data[1] /\ d_addr.line \notin ErrorLine /\ fifo_data /= <<>>
    BY <1>1, <1>4, DataWord DEF Controlled, Types, Shapes, DataGet
  <2>3. d_type \in {"READ", "LL"} => Good(d_addr.line, d_addr.word, fifo_data[1])
    BY <1>4, <2>2 DEF IInv, DataValues, UncRight
  <2>4. QED BY <1>4, <2>1, <2>2, <2>3 DEF Response
<1>5. QED BY <1>1, <1>2, <1>3, <1>4, ReadAnswers

(* The invariant makes every answer to a read right.                       *)
LEMMA ReadsRight == IInv => ReadsOwnWrites
<1> SUFFICES ASSUME IInv, Drsp.valid, dreq.type \in {"READ", "LL", "SC"}
             PROVE  /\ Drsp.error <=> dreq.addr.line \in ErrorLine
                    /\ dreq.type \in {"READ", "LL"} /\ dreq.addr.line \in OwnLine =>
                         Drsp.rdata = expected[dreq.addr.line][dreq.addr.word]
  BY DEF ReadsOwnWrites
<1>1. /\ Drsp.error <=> dreq.addr.line \in ErrorLine
      /\ dreq.type \in {"READ", "LL"} /\ dreq.addr.line \notin ErrorLine =>
              Good(dreq.addr.line, dreq.addr.word, Drsp.rdata)
  BY AnswerRight
<1>2. QED BY <1>1, OwnLineIs DEF Good, Latest

(* Whatever the write buffer, a miss, a refill or an uncached access in    *)
(* flight does, the DCACHE machine answers a read with the last value the  *)
(* program has stored to the word, and with an error exactly when no       *)
(* target serves the line.                                                 *)
THEOREM AlwaysReadsOwnWrites == Spec => []ReadsOwnWrites
BY AlwaysIInv, ReadsRight, PTL

(* The invariant makes every read of an invalidated line fresh.            *)
LEMMA FreshRight == IInv => InvalidatedFresh
BY AnswerRight DEF InvalidatedFresh, Good

(* A line that the program has invalidated after a device wrote it         *)
(* (XTN_DCACHE_INVAL, states XTN_HIT and XTN_INVAL of the DCACHE machine)  *)
(* is read with the words the device wrote, never with those the cache     *)
(* held before.                                                            *)
THEOREM AlwaysInvalidatedFresh == Spec => []InvalidatedFresh
BY AlwaysIInv, FreshRight, PTL

(* The value of a word that reaches memory last is the latest.             *)
LEMMA LastIsLatest == IInv => NoWriteLost
<1> SUFFICES ASSUME IInv, NEW line \in OwnLine \cap CacheableLine, NEW w \in Word
             PROVE  LastWritten(line, w) = Latest(line, w)
  BY DEF NoWriteLost
<1>1. WriteRight(line, w)
  BY DEF IInv, DataValues, WritesRight
<1>2. \A s \in Slot : s \in Buffered(line, w) <=> InSlot(s, line, w)
  BY DEF Buffered, InSlot, Gathers
<1>3. \A k \in DOMAIN net : k \in Queued(line, w) <=> InPacket(net[k], line, w)
  BY DEF Queued, InPacket
<1>4. Buffered(line, w) \subseteq Slot /\ Queued(line, w) \subseteq DOMAIN net
  BY DEF Buffered, Queued
<1>5. CASE InCache(line, w)
  BY <1>1, <1>5 DEF LastWritten, WriteRight, InCache, Writing
<1>6. CASE ~InCache(line, w) /\ Buffered(line, w) /= {}
  <2>1. PICK s : s = CHOOSE r \in Buffered(line, w) : TRUE
    OBVIOUS
  <2>2. s \in Buffered(line, w)
    BY <1>6, <2>1
  <2>3. wbuf[s].data[w] = Latest(line, w)
    BY <1>1, <1>2, <1>4, <1>6, <2>2 DEF WriteRight
  <2>4. QED BY <1>6, <2>1, <2>3 DEF LastWritten, InCache, Writing
<1>7. CASE ~InCache(line, w) /\ Buffered(line, w) = {}
  <2>1. ~InBuffer(line, w)
    BY <1>2, <1>7 DEF InBuffer
  <2>2. CASE Queued(line, w) /= {}
    <3>1. PICK k : k = CHOOSE j \in Queued(line, w) : TRUE
      OBVIOUS
    <3>2. k \in Queued(line, w)
      BY <2>2, <3>1
    <3>3. net[k] \in InFlight /\ InPacket(net[k], line, w)
      BY <1>3, <1>4, <3>2 DEF InFlight
    <3>4. net[k].words[w] = Latest(line, w)
      BY <1>1, <1>7, <2>1, <3>3 DEF WriteRight
    <3>5. QED BY <1>7, <2>2, <3>1, <3>4 DEF LastWritten, InCache, Writing
  <2>3. CASE Queued(line, w) = {}
    <3>1. ~InNet(line, w)
      BY <1>3, <2>3 DEF InNet, InFlight
    <3>2. QED BY <1>1, <1>7, <2>1, <2>3, <3>1 DEF WriteRight, LastWritten, InCache, Writing
  <2>4. QED BY <2>2, <2>3
<1>8. QED BY <1>5, <1>6, <1>7

(* No write is lost or overtaken: the place of its way to memory (DCACHE   *)
(* registers, write buffer, network, memory) that holds a word and is the  *)
(* last to reach memory holds the latest value stored, whatever the order  *)
(* in which bursts are gathered, sent and acknowledged.                    *)
THEOREM AlwaysNoWriteLost == Spec => []NoWriteLost
BY AlwaysIInv, LastIsLatest, PTL

(* The answer to a SYNC finds the write buffer drained.                    *)
LEMMA SyncIsDrained == IInv => SyncDrains
<1> SUFFICES ASSUME IInv, d_fsm = "XTN_SYNC", Drsp.valid, NEW line \in OwnLine
             PROVE  mem[line] = expected[line]
  BY DEF SyncDrains
<1>1. Controlled /\ dreq.type = "SYNC"
  BY DEF IInv, Controlled, Shapes, ServedData
<1>2. SyncDone
  BY <1>1, AnswerIs DEF Controlled, Types, Shapes, ReadHit, WriteHit, WriteMiss, Considered, Accepted, DataError, Waiting
<1>3. \A s \in Slot : ~Busy(wbuf, s)
  BY <1>2 DEF SyncDone, WbufEmpty
<1>4. line \in Line /\ mem[line] \in [Word -> Value] /\ expected[line] \in [Word -> Value]
  BY <1>1, OwnLineIs DEF Controlled, Types, MemTypes
<1>5. ASSUME NEW w \in Word
      PROVE  mem[line][w] = expected[line][w]
  <2>1. CASE line \in CacheableLine
    <3>1. ~InCache(line, w) /\ ~InBuffer(line, w)
      BY <1>3 DEF InCache, Writing, InBuffer, InSlot, Gathers, Busy
    <3>2. ~InNet(line, w)
      <4>1. SUFFICES ASSUME NEW p \in InFlight, p.write PROVE FALSE
        BY DEF InNet, InPacket
      <4>2. QED BY <1>1, <1>3, <4>1, WritePacketIs DEF Busy
    <3>3. QED BY <1>1, <2>1, <3>1, <3>2 DEF IInv, DataValues, WritesRight, WriteRight, Latest
  <2>2. CASE line \notin CacheableLine
    <3>1. ~Pending(line, w)
      BY <1>1 DEF Pending, Stores
    <3>2. QED BY <2>2, <3>1 DEF IInv, DataValues, DeviceRight
  <2>3. QED BY <2>1, <2>2
<1>6. QED BY <1>4, <1>5

(* The XTN_SYNC state of the DCACHE machine answers only when every        *)
(* earlier write is in memory.                                             *)
THEOREM AlwaysSyncDrains == Spec => []SyncDrains
BY AlwaysIInv, SyncIsDrained, PTL

(* The three ways a fetch is answered.                                     *)
LEMMA FetchAnswers ==
  ASSUME Controlled, Irsp.valid
  PROVE  \/ IHit /\ ~Irsp.error /\ Irsp.instruction = Lookup(icache, ireq.addr)
         \/ InsError /\ Irsp.error
         \/ i_fsm = "UNC_WAIT" /\ InsGet /\ ~Irsp.error /\ Irsp.instruction = Head(fifo_ins)
<1>1. i_fsm = "UNC_WAIT" => ireq = [valid |-> TRUE, addr |-> i_addr]
  BY DEF Controlled, Shapes, ServedIns
<1>2. IHit \/ InsError \/ (i_fsm = "UNC_WAIT" /\ InsGet)
  BY InsAnswerIs DEF Controlled, Shapes
<1>3. CASE IHit
  BY <1>3 DEF Irsp, IHit, Fetched, InsError, IWaiting
<1>4. CASE ~IHit /\ InsError
  BY <1>4 DEF Irsp, InsError, InsGet
<1>5. CASE ~IHit /\ i_fsm = "UNC_WAIT" /\ InsGet
  BY <1>1, <1>5 DEF Irsp, InsError, InsGet
<1>6. QED BY <1>2, <1>3, <1>4, <1>5

(* The invariant makes every answer to a fetch right.                      *)
LEMMA FetchesAreRight == IInv => FetchesRight
<1> SUFFICES ASSUME IInv, Irsp.valid
             PROVE  /\ Irsp.error <=> ireq.addr.line \in ErrorLine
                    /\ ~Irsp.error => Irsp.instruction = Contents[ireq.addr.line][ireq.addr.word]
  BY DEF FetchesRight
<1>1. Controlled
  BY DEF IInv
<1>2. CASE IHit /\ ~Irsp.error /\ Irsp.instruction = Lookup(icache, ireq.addr)
  <2>1. PICK way \in Way : way = HitWay(icache, ireq.addr.line) /\ Holds(icache, ireq.addr.line, way)
    BY <1>2, HitWayHolds DEF IHit
  <2>2. icache[way].valid /\ icache[way].tag = ireq.addr.line /\ ireq.addr.line \notin ErrorLine
    BY <1>1, <2>1 DEF Holds, Controlled, Shapes, IcacheShape, CacheShape
  <2>3. ireq.addr.word \in Word
    BY <1>1, <1>2, FetchIs DEF IHit, Fetched, Controlled, Types, Addr
  <2>4. QED BY <1>2, <2>1, <2>2, <2>3 DEF Lookup, IInv, InsValues, InsCachedRight
<1>3. CASE InsError /\ Irsp.error
  <2>1. i_fsm \in {"MISS_WAIT", "UNC_WAIT"} /\ ins_error
    BY <1>3 DEF InsError, IWaiting
  <2>2. i_addr = ireq.addr
    BY <1>1, <2>1 DEF Controlled, Shapes, ServedIns, Missing
  <2>3. i_addr.line \in ErrorLine
    BY <1>1, <2>1 DEF Controlled, Shapes, InsTraffic, Accounts, Missing
  <2>4. QED BY <1>3, <2>2, <2>3
<1>4. CASE i_fsm = "UNC_WAIT" /\ InsGet /\ ~Irsp.error /\ Irsp.instruction = Head(fifo_ins)
  <2>1. i_addr = ireq.addr
    BY <1>1, <1>4 DEF Controlled, Shapes, ServedIns
  <2>2. Head(fifo_ins) = fifo_ins[1] /\ i_addr.line \notin ErrorLine /\ fifo_ins /= <<>>
    BY <1>1, <1>4, InsWord DEF Controlled, Types, Shapes, InsGet
  <2>3. fifo_ins[1] = Contents[i_addr.line][i_addr.word]
    BY <1>4, <2>2 DEF IInv, InsValues, InsUncRight
  <2>4. QED BY <1>4, <2>1, <2>2, <2>3
<1>5. QED BY <1>1, <1>2, <1>3, <1>4, FetchAnswers

(* The ICACHE machine answers every fetch, by a hit, a refill or an        *)
(* uncached access, with the instruction of its address, and with an error *)
(* exactly when no target serves the line.                                 *)
THEOREM AlwaysFetchesRight == Spec => []FetchesRight
BY AlwaysIInv, FetchesAreRight, PTL
=============================================================================
