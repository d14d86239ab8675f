-------------------------------- MODULE MCXcache --------------------------------
EXTENDS XcacheTop, TLC

At(line, word) == [line |-> line, word |-> word]

Req(type, addr) == [type |-> type, addr |-> addr, wdata |-> None]
Inval(line)     == [type |-> "INVAL", addr |-> XtnAddr, wdata |-> line]
Sync            == [type |-> "SYNC", addr |-> XtnAddr, wdata |-> None]

(* Five processors: one that fills both slots of the write buffer, one     *)
(* that gathers writes, one that reads, writes and evicts, one that        *)
(* accesses devices and lines that fail, and one that fetches beside       *)
(* buffered writes.  Lines e, f and g answer errors, b is written by the   *)
(* DMA, u, f and boot are not cacheable.  With one way, a and b evict each *)
(* other.                                                                  *)
SomePrograms ==
  { [fetches |-> {At("code", 0)},
     requests |-> {Req("WRITE", At("a", 0)), Req("WRITE", At("c", 0)), Sync}],
    [fetches |-> {At("code", 0)},
     requests |-> {Req("WRITE", At("a", 0)), Req("WRITE", At("a", 1))}],
    [fetches |-> {At("code", 0)},
     requests |-> {Req("WRITE", At("a", 0)), Req("READ", At("a", 0)), Req("READ", At("b", 0))}],
    [fetches |-> {At("code", 0)},
     requests |-> {Req("READ", At("b", 0)), Inval("b"), Req("READ", At("e", 0)),
                   Req("WRITE", At("u", 0)), Req("LL", At("u", 0)), Req("SC", At("f", 0))}],
    [fetches |-> {At("code", 1), At("boot", 0), At("g", 0)},
     requests |-> {Req("WRITE", At("a", 0)), Req("READ", At("a", 0))}] }

(* Instructions are all different.                                         *)
SomeContents ==
  [line \in Line |-> [w \in Word |->
     CASE line = "code" -> <<"i0", "i1", "i2">>[w + 1]
       [] line = "boot" -> <<"i3", "i4", "i5">>[w + 1]
       [] OTHER         -> "old"]]

Targets == [line \in Line |-> IF line \in {"u", "f", "boot"} THEN "dev" ELSE "ram"]
===============================================================================
