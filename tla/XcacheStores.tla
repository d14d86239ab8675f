------------------------------ MODULE XcacheStores ------------------------------
(***************************************************************************)
(* The SocLib components inside the cache controller of TP6, which are not *)
(* in the repository and are modelled from the way the controller uses     *)
(* them: GenericCache, GenericFifo and MultiWriteBuffer.                   *)
(*                                                                         *)
(* An address is a line and a word of that line.  Accesses are to whole    *)
(* words.  The caches have one set: sets do not influence each other.      *)
(***************************************************************************)
EXTENDS Integers, Sequences, FiniteSets

CONSTANTS Line,         \* the lines of the address space
          CacheableLine,\* those m_cacheability_table marks as cacheable
          NbWords,      \* m_dcache_words and m_icache_words
          NbWays,       \* m_dcache_ways and m_icache_ways
          NbSlots,      \* the lines of the write buffer
          FifoDepth     \* of the two response FIFOs

ASSUME StoresAssumption ==
  /\ CacheableLine \subseteq Line /\ IsFiniteSet(Line)
  /\ NbWords \in Nat \ {0} /\ NbWays \in Nat \ {0}
  /\ NbSlots \in Nat \ {0} /\ FifoDepth \in Nat \ {0, 1}

Word == 0 .. NbWords - 1
Way  == 0 .. NbWays - 1
Slot == 0 .. NbSlots - 1

Addr == [line : Line, word : Word]

(* The address of an external access: a register of the processor.         *)
XtnAddr == [line |-> "xtn", word |-> 0]

Cacheable(addr) == addr.line \in CacheableLine

(* The value of a register that holds nothing of interest.                 *)
None == "none"

(* GenericCache.  Nothing can be said of the words of an invalid way.      *)
Junk == "junk"

InvalidWay == [valid |-> FALSE, tag |-> None, data |-> [w \in Word |-> Junk]]

EmptyCache == [way \in Way |-> InvalidWay]

Holds(cache, line, way) == cache[way].valid /\ cache[way].tag = line

Hit(cache, line) == \E way \in Way : Holds(cache, line, way)

HitWay(cache, line) == CHOOSE way \in Way : Holds(cache, line, way)

Lookup(cache, addr) == cache[HitWay(cache, addr.line)].data[addr.word]

(* A victim is taken among the valid ways only when there is no other.     *)
Victim(cache, way) == cache[way].valid => \A v \in Way : cache[v].valid

WriteWord(cache, way, word, value) == [cache EXCEPT ![way].data[word] = value]

UpdateTag(cache, way, line) == [cache EXCEPT ![way].valid = TRUE, ![way].tag = line]

(* GenericFifo: rok and wok are tested before the update of the cycle.     *)
Update(fifo, get, put, value) ==
  LET left == IF get THEN Tail(fifo) ELSE fifo
  IN  IF put THEN Append(left, value) ELSE left

-------------------------------------------------------------------------------
(* MultiWriteBuffer.  A slot gathers writes to one line while it is OPEN,  *)
(* is LOCKED some time later by update, and SENT until the response has    *)
(* come; a line has one slot at a time.                                    *)
Hole == "hole"

EmptySlot == [st |-> "EMPTY", line |-> None, data |-> [w \in Word |-> Hole]]

EmptyBuffer == [s \in Slot |-> EmptySlot]

Busy(wb, s) == wb[s].st /= "EMPTY"

WbufEmpty(wb) == \A s \in Slot : ~Busy(wb, s)

WbufMiss(wb, line) == \A s \in Slot : Busy(wb, s) => wb[s].line /= line

(* The slot that accepts a write to line, if there is one.                 *)
Accepts(wb, line, s) ==
  \/ wb[s].st = "OPEN" /\ wb[s].line = line
  \/ /\ WbufMiss(wb, line) /\ ~Busy(wb, s)
     /\ \A r \in Slot : r < s => Busy(wb, r)

Writable(wb, line) == \E s \in Slot : Accepts(wb, line, s)

WbufWrite(wb, addr, value) ==
  LET s == CHOOSE r \in Slot : Accepts(wb, addr.line, r)
  IN  [wb EXCEPT ![s] = [st |-> "OPEN", line |-> addr.line,
                         data |-> [wb[s].data EXCEPT ![addr.word] = value]]]

Open(wb) == {s \in Slot : wb[s].st = "OPEN"}

WbufUpdate(wb, locks) == [s \in Slot |-> IF s \in locks THEN [wb[s] EXCEPT !.st = "LOCKED"] ELSE wb[s]]

Ready(wb) == {s \in Slot : wb[s].st = "LOCKED"}

Written(wb, s) == {w \in Word : wb[s].data[w] /= Hole}

MinWord(wb, s) == CHOOSE w \in Written(wb, s) : \A v \in Written(wb, s) : w <= v
MaxWord(wb, s) == CHOOSE w \in Written(wb, s) : \A v \in Written(wb, s) : v <= w

WbufSent(wb, s) == [wb EXCEPT ![s].st = "SENT"]

WbufCompleted(wb, s) == [wb EXCEPT ![s] = EmptySlot]
===============================================================================
