-------------------------- MODULE GietTransposeProofs --------------------------
(***************************************************************************)
(* Proofs about GietTranspose, for any number and any size of images, and  *)
(* whatever transfers fail: the two flags keep the tasks and the devices   *)
(* off each other's buffers, and what is displayed is right.               *)
(***************************************************************************)
EXTENDS GietTranspose, TLAPS

Statuses == Finished \cup {"IDLE", "BUSY"}

DevReg == [status : Statuses, BUFFER : Buffer \cup {"none"}, COUNT : {0, NbBlocks}, LBA : Nat,
           IRQ_ENABLE : {0, 1}, OP : {"READ", "WRITE", "NOOP"}, next : 0 .. NbBlocks]

IocPlaces == {"user", "lock_ll", "lock_sc", "config", "poll", "status", "reset", "unlock"}
FbPlaces  == {"user", "fb_poll", "fb_claim", "fb_start", "fb_wait"}

(* The disk is only read; the task in between calls no driver.             *)
Types ==
  /\ TypeOK
  /\ dev \in DevReg /\ isr \in {"none", "done"} /\ ioc_done \in {0, 1} /\ ioc_status \in Statuses
  /\ kpc \in [Task -> IocPlaces \cup FbPlaces] /\ step \in [Task -> 1 .. 5]
  /\ ret \in [Task -> {0, 1}] /\ DOMAIN req = Task /\ DOMAIN fbuf = Task
  /\ disk = [i \in 0 .. Len(Disk) - 1 |-> Disk[i + 1]]

Places ==
  /\ kpc["load"] \in IocPlaces /\ kpc["display"] \in FbPlaces /\ kpc["transpose"] = "user"
  /\ apc["transpose"] \in {"wait", "call", "called", "exit"}
  /\ \A t \in {"load", "transpose"} : dma[t].st = "IDLE"
  /\ \A t \in Task : apc[t] /= "exit" => image[t] < NImages

-------------------------------------------------------------------------------
(* buf_in holds image k, buf_out holds it transposed.                      *)
Line(k, i) == Disk[k * NSide + i + 1]

InHolds(k)  == \A i \in Side : memory["buf_in"][i] = Line(k, i)
OutHolds(k) == \A l, p \in Side : memory["buf_out"][l][p] = Source(k, p, l)

FrameIsOut == \A i \in Side : memory[FrameBuffer][i] = memory["buf_out"][i]

(* What the disk has done of its transfer.                                 *)
Rest     == dev.status = "IDLE" /\ isr = "none" /\ ioc_done = 0
Moving   == dev.status = "BUSY" /\ isr = "none" /\ ioc_done = 0
Raising  == dev.status \in Finished /\ isr = "none" /\ ioc_done = 0
              /\ (dev.status \in {"READ_SUCCESS", "WRITE_SUCCESS"} => dev.next = NSide)
Stored   == ioc_status \in {"READ_SUCCESS", "WRITE_SUCCESS"} => dev.next = NSide
Signaled == dev.status = "IDLE" /\ isr = "done" /\ ioc_done = 0 /\ Stored
Over     == dev.status = "IDLE" /\ isr = "none" /\ ioc_done = 1 /\ Stored

Told(n) ==
  /\ n > 1 => dev.BUFFER = "buf_in"
  /\ n > 2 => dev.COUNT = NbBlocks
  /\ n > 3 => dev.LBA = image["load"] * NSide
  /\ n > 4 => dev.IRQ_ENABLE = 1
  /\ n > 5 => dev.OP = "READ"

Given ==
  /\ Told(6)
  /\ \A i \in Side : i < dev.next => memory["buf_in"][i] = Line(image["load"], i)
  /\ Moving \/ Raising \/ Signaled \/ Over

Ordered == req["load"] = [op |-> "READ", lba |-> image["load"] * NbBlocks, buffer |-> "buf_in"]

Loaded == ret["load"] = 0 => InHolds(image["load"])

LoadCalled ==
  \/ kpc["load"] \in {"lock_ll", "lock_sc"} /\ Ordered /\ Rest
  \/ kpc["load"] = "config" /\ Ordered /\ Rest /\ Told(step["load"])
  \/ kpc["load"] = "user" /\ ret["load"] = 0 /\ Given

LoadCompletes ==
  \/ kpc["load"] = "poll" /\ Given
  \/ kpc["load"] = "status" /\ Given /\ Over
  \/ kpc["load"] = "reset" /\ Over /\ Loaded
  \/ kpc["load"] \in {"unlock", "user"} /\ Rest /\ Loaded

LoadPhase ==
  /\ apc["load"] \in {"wait", "call", "exit"} => kpc["load"] = "user" /\ Rest
  /\ apc["load"] = "called" => LoadCalled
  /\ apc["load"] = "completed" => LoadCompletes

-------------------------------------------------------------------------------
(* What the DMA has done of its transfer.                                  *)
Quiet == dma["display"].st = "IDLE" /\ dma_busy["display"] = 0

Copying ==
  \/ /\ dma["display"].st = "BUSY" /\ dma_busy["display"] = 1
     /\ dma["display"].SRC = "buf_out" /\ dma["display"].DST = FrameBuffer
     /\ \A i \in Side : i < dma["display"].next => memory[FrameBuffer][i] = memory["buf_out"][i]
  \/ /\ dma["display"].st = "END" /\ dma_busy["display"] = 1
     /\ dma["display"].status = 0 => FrameIsOut
  \/ Quiet /\ (dma_status["display"] = 0 => FrameIsOut)

Asked == fbuf["display"] = <<"buf_out", FrameBuffer>>

DisplayCalled ==
  \/ kpc["display"] \in {"fb_poll", "fb_claim"} /\ Asked /\ Quiet
  \/ /\ kpc["display"] = "fb_start" /\ Asked
     /\ dma["display"].st = "IDLE" /\ dma_busy["display"] = 1
  \/ kpc["display"] = "user" /\ ret["display"] = 0 /\ Copying

DisplayCompletes ==
  \/ kpc["display"] = "fb_wait" /\ Copying
  \/ kpc["display"] = "user" /\ Quiet /\ (ret["display"] = 0 => FrameIsOut)

DisplayPhase ==
  /\ apc["display"] \in {"wait", "call", "exit"} => kpc["display"] = "user" /\ Quiet
  /\ apc["display"] = "called" => DisplayCalled
  /\ apc["display"] = "completed" => DisplayCompletes

-------------------------------------------------------------------------------
Copied == \A l, p \in Side : l * NSide + p < pixel => memory["buf_out"][l][p] = memory["buf_in"][p][l]

TransposePhase ==
  /\ apc["transpose"] /= "call" => pixel = 0
  /\ apc["transpose"] = "call" => ~buf_in_empty /\ buf_out_empty /\ Copied
  /\ apc["transpose"] = "called" => buf_out_empty /\ OutHolds(image["transpose"])

(* How many images have left buf_in.                                       *)
Consumed == IF apc["transpose"] = "called" THEN image["transpose"] + 1 ELSE image["transpose"]

(* What the flags say.                                                     *)
Flags ==
  /\ apc["load"] \in {"call", "called", "completed"} => buf_in_empty
  /\ apc["display"] \in {"call", "called", "completed"} => ~buf_out_empty
  /\ buf_in_empty => image["load"] = Consumed
  /\ ~buf_in_empty => image["load"] = Consumed + 1 /\ InHolds(Consumed)
  /\ buf_out_empty => image["display"] = image["transpose"]
  /\ ~buf_out_empty => image["transpose"] = image["display"] + 1 /\ OutHolds(image["display"])

IInv == Types /\ Places /\ LoadPhase /\ DisplayPhase /\ TransposePhase /\ Flags

LEMMA Constants ==
  /\ Task = {"load", "transpose", "display"} /\ UserBuffer = {"buf_in", "buf_out"}
  /\ NSide \in Nat \ {0} /\ NbBlocks = NSide /\ Side = 0 .. NSide - 1
  /\ NImages \in Nat \ {0} /\ Len(Disk) = NImages * NSide
  /\ {"buf_in", "buf_out", FrameBuffer} \subseteq Buffer
  /\ FrameBuffer \notin {"buf_in", "buf_out"} /\ FrameBuffer \in KernelBuffer
  /\ "buf_in" \notin KernelBuffer /\ "buf_out" \notin KernelBuffer
  /\ Outcomes \subseteq {"SUCCESS", "ERROR"}
BY IocAssumption, FrameBufferAssumption, TransposeAssumption DEF Buffer, Side

(* A device writes one line of one buffer.                                 *)
LEMMA LineWritten ==
  ASSUME NEW m \in [Buffer -> [Side -> [Side -> Pixel]]], NEW b \in Buffer, NEW n \in Side,
         NEW x \in [Side -> Pixel], NEW m2, m2 = [m EXCEPT ![b][n] = x]
  PROVE  /\ m2 \in [Buffer -> [Side -> [Side -> Pixel]]]
         /\ m2[b][n] = x
         /\ \A i \in Side \ {n} : m2[b][i] = m[b][i]
         /\ \A c \in Buffer \ {b} : m2[c] = m[c]
<1>1. m2 = [m EXCEPT ![b] = [m[b] EXCEPT ![n] = x]]
  OBVIOUS
<1>2. [m[b] EXCEPT ![n] = x] \in [Side -> [Side -> Pixel]]
  OBVIOUS
<1> QED
  BY <1>1, <1>2

LEMMA LineOnDisk ==
  ASSUME Types, NEW k \in Nat, k < NImages, NEW n \in Side
  PROVE  Line(k, n) \in [Side -> Pixel] /\ disk[k * NSide + n] = Line(k, n)
<1> USE Constants
<1> DEFINE i == k * NSide + n
<1>1. k * NSide \in Nat /\ NImages * NSide \in Nat /\ k * NSide + NSide <= NImages * NSide
  <2>1. \A a \in Nat : \A b \in Nat : a + 1 <= b => a * NSide + NSide <= b * NSide
    OBVIOUS
  <2> QED
    BY <2>1
<1>2. i \in 0 .. Len(Disk) - 1
  BY <1>1
<1>3. disk[i] = Disk[i + 1]
  BY <1>2 DEF Types
<1>4. Disk[i + 1] \in [Side -> Pixel]
  BY <1>2, TransposeAssumption
<1> QED
  BY <1>3, <1>4 DEF Line

LEMMA InitIInv == Init => IInv
<1> SUFFICES ASSUME Init PROVE IInv
  OBVIOUS
<1> USE Constants
<1>1. Types
  <2>1. TypeOK
    <3>1. memory \in [Buffer -> [Side -> [Side -> Pixel]]]
      <4>1. BlankPixel \in Pixel
        BY Zenon DEF Pixel
      <4> QED
        BY <4>1 DEF Init, Blank
    <3>2. dma \in [Task -> DmaReg]
      BY DEF Init, FbInit, DmaReg
    <3>3. pixel \in 0 .. NSide * NSide
      <4>1. NSide * NSide \in Nat
        OBVIOUS
      <4> QED
        BY <4>1 DEF Init
    <3> QED
      BY <3>1, <3>2, <3>3, SMTT(30) DEF Init, FbInit, TypeOK
  <2>2. dev \in DevReg
    BY DEF Init, IocInit, DevReg, Statuses
  <2> QED
    BY <2>1, <2>2 DEF Init, IocInit, FbInit, Types, Statuses, IocPlaces
<1>2. Places
  BY DEF Init, IocInit, FbInit, Places, IocPlaces, FbPlaces
<1>3. LoadPhase /\ DisplayPhase
  BY DEF Init, IocInit, FbInit, LoadPhase, DisplayPhase, Rest, Quiet
<1>4. TransposePhase /\ Flags
  BY DEF Init, TransposePhase, Flags, Consumed
<1> QED
  BY <1>1, <1>2, <1>3, <1>4 DEF IInv

-------------------------------------------------------------------------------
(* What each part of the invariant looks at.                               *)
LoadView == <<kpc["load"], apc["load"], ret["load"], step["load"], req["load"], image["load"],
              dev, isr, ioc_done, ioc_status, memory["buf_in"]>>

DisplayView == <<kpc["display"], apc["display"], ret["display"], fbuf["display"], dma["display"],
                 dma_busy["display"], dma_status["display"], memory["buf_out"], memory[FrameBuffer]>>

TransposeView == <<apc["transpose"], pixel, image["transpose"], buf_in_empty, buf_out_empty,
                   memory["buf_in"], memory["buf_out"]>>

FlagsView == <<apc["load"], apc["transpose"], apc["display"], image["load"], image["transpose"],
               image["display"], buf_in_empty, buf_out_empty, memory["buf_in"], memory["buf_out"]>>

LEMMA LoadSame == LoadPhase /\ UNCHANGED LoadView => LoadPhase'
BY DEF LoadPhase, LoadView, LoadCalled, LoadCompletes, Given, Told, Ordered, Loaded, InHolds,
       Rest, Moving, Raising, Signaled, Over, Stored

LEMMA DisplaySame == DisplayPhase /\ UNCHANGED DisplayView => DisplayPhase'
BY DEF DisplayPhase, DisplayView, DisplayCalled, DisplayCompletes, Copying, Quiet, Asked, FrameIsOut

LEMMA TransposeSame == TransposePhase /\ UNCHANGED TransposeView => TransposePhase'
BY DEF TransposePhase, TransposeView, Copied, OutHolds, Source

LEMMA FlagsSame == Flags /\ UNCHANGED FlagsView => Flags'
BY DEF Flags, FlagsView, Consumed, InHolds, OutHolds, Source

(* The disk is busy, or its interrupt, only while the load task waits.     *)
Waits ==
  \/ apc["load"] = "called" /\ kpc["load"] = "user" /\ ret["load"] = 0 /\ Given
  \/ apc["load"] = "completed" /\ kpc["load"] = "poll" /\ Given
  \/ apc["load"] = "completed" /\ kpc["load"] = "status" /\ Given /\ Over
  \/ apc["load"] = "completed" /\ kpc["load"] = "reset" /\ Over /\ Loaded

LEMMA NotAtRest ==
  ASSUME IInv, ~Rest
  PROVE  buf_in_empty /\ Waits
<1>1. apc["load"] \in {"wait", "call", "called", "completed", "exit"}
  BY Constants DEF IInv, Types, TypeOK
<1>2. apc["load"] \in {"called", "completed"}
  BY <1>1 DEF IInv, LoadPhase
<1>3. CASE apc["load"] = "called"
  BY <1>3 DEF IInv, LoadPhase, LoadCalled, Flags, Waits
<1>4. CASE apc["load"] = "completed"
  BY <1>4 DEF IInv, LoadPhase, LoadCompletes, Flags, Waits
<1> QED
  BY <1>2, <1>3, <1>4

-------------------------------------------------------------------------------
(* The steps of the load task in the driver change what nobody else sees.  *)
LoadAlone == UNCHANGED <<fbVars, appVars, memory, disk, kpc["display"], kpc["transpose"], ret["display"]>>

LEMMA AloneKeeps ==
  ASSUME IInv, LoadAlone, Types', kpc'["load"] \in IocPlaces, LoadPhase'
  PROVE  IInv'
<1>1. Places'
  BY DEF IInv, Places, LoadAlone, fbVars, appVars
<1>2. DisplayPhase'
  BY DisplaySame DEF IInv, LoadAlone, fbVars, appVars, DisplayView
<1>3. TransposePhase'
  BY TransposeSame DEF IInv, LoadAlone, fbVars, appVars, TransposeView
<1>4. Flags'
  BY FlagsSame DEF IInv, LoadAlone, fbVars, appVars, FlagsView
<1> QED
  BY <1>1, <1>2, <1>3, <1>4 DEF IInv

LEMMA LoadDriver ==
  ASSUME IInv, Driver("load") /\ UNCHANGED <<fbVars, appVars>>
  PROVE  IInv'
<1> USE Constants
<1> DEFINE k == image["load"]
<1>1. Types /\ TypeOK /\ LoadPhase /\ kpc \in [Task -> IocPlaces \cup FbPlaces]
      /\ step \in [Task -> 1 .. 5] /\ ret \in [Task -> {0, 1}]
      /\ apc["load"] \in {"wait", "call", "called", "completed", "exit"}
  BY DEF IInv, Types, TypeOK
<1>2. LoadAlone
  BY <1>1 DEF Driver, LoadAlone, LockLL, LockSC, Configure, Poll, TestStatus, ResetDone, Unlock,
            Goto, Return
<1>3. SUFFICES Types' /\ kpc'["load"] \in IocPlaces /\ LoadPhase'
  BY <1>2, AloneKeeps
<1>4. TypeOK'
  BY <1>1, <1>2 DEF TypeOK, LoadAlone, fbVars, appVars
<1>5. CASE LockLL("load") \/ LockSC("load")
  <2>1. kpc'["load"] \in {"lock_ll", "lock_sc", "config"} /\ kpc["load"] \in {"lock_ll", "lock_sc"}
        /\ (kpc'["load"] = "config" => step'["load"] = 1)
    BY <1>1, <1>5 DEF LockLL, LockSC, At, Goto
  <2>2. apc["load"] = "called" /\ Ordered /\ Rest
    BY <1>1, <2>1 DEF LoadPhase, LoadCalled, LoadCompletes
  <2>3. Types'
    BY <1>1, <1>2, <1>4, <1>5 DEF Types, LockLL, LockSC, Goto, LoadAlone, fbVars, IocPlaces
  <2>4. UNCHANGED <<apc, image, dev, isr, ioc_done, req>>
    BY <1>2, <1>5 DEF LockLL, LockSC, LoadAlone, appVars
  <2>5. LoadPhase'
    BY <2>1, <2>2, <2>4 DEF LoadPhase, LoadCalled, Ordered, Rest, Told
  <2> QED
    BY <2>1, <2>3, <2>5 DEF IocPlaces
<1>6. CASE Configure("load")
  <2>1. kpc["load"] = "config" /\ apc["load"] = "called" /\ Ordered /\ Rest /\ Told(step["load"])
    BY <1>1, <1>6 DEF Configure, At, LoadPhase, LoadCalled, LoadCompletes
  <2>2. dev \in DevReg /\ k \in Nat
    BY <1>1 DEF Types, TypeOK
  <2>9. PICK n \in 1 .. 5 : n = step["load"]
    BY <1>1
  <2>3. /\ dev' = WriteRegister(req["load"], Config[n])
        /\ IF n < 5 THEN step' = [step EXCEPT !["load"] = n + 1] /\ UNCHANGED <<kpc, ret>>
           ELSE Return("load", 0) /\ UNCHANGED step
        /\ UNCHANGED <<isr, ioc_done, ioc_status, req, apc, image, memory, disk>>
    BY <1>2, <1>6, <2>9 DEF Configure, Config, LoadAlone, appVars
  <2>4. /\ n = 1 => dev' = [dev EXCEPT !.BUFFER = "buf_in"]
        /\ n = 2 => dev' = [dev EXCEPT !.COUNT = NbBlocks]
        /\ n = 3 => dev' = [dev EXCEPT !.LBA = k * NSide]
        /\ n = 4 => dev' = [dev EXCEPT !.IRQ_ENABLE = 1]
        /\ n = 5 => dev' = [dev EXCEPT !.OP = "READ", !.status = "BUSY", !.next = 0]
    BY <2>1, <2>3, <2>9 DEF Config, WriteRegister, Ordered, Rest
  <2>5. dev' \in DevReg /\ Told(n + 1)'
    <3>1. k * NSide \in Nat /\ k' = k
      BY <2>2, <2>3
    <3>2. CASE n = 1
      BY <2>1, <2>2, <2>4, <2>9, <3>2 DEF DevReg, Told
    <3>3. CASE n = 2
      <4>1. dev' \in DevReg
        BY <2>2, <2>4, <2>9, <3>3, ZenonT(30) DEF DevReg
      <4>2. dev'.BUFFER = "buf_in" /\ dev'.COUNT = NbBlocks
        BY <2>1, <2>2, <2>4, <2>9, <3>3 DEF DevReg, Told
      <4> QED
        BY <3>3, <4>1, <4>2 DEF Told
    <3>4. CASE n = 3
      BY <2>1, <2>2, <2>4, <2>9, <3>1, <3>4, SMTT(30) DEF DevReg, Told
    <3>5. CASE n = 4
      BY <2>1, <2>2, <2>4, <2>9, <3>1, <3>5, SMTT(30) DEF DevReg, Told
    <3>6. CASE n = 5
      <4>1. dev' \in DevReg
        <5>1. "BUSY" \in Statuses /\ 0 \in 0 .. NbBlocks
          BY DEF Statuses
        <5>2. dev' = [dev EXCEPT !.OP = "READ", !.status = "BUSY", !.next = 0]
          BY <2>4, <3>6
        <5> QED
          BY <2>2, <5>1, <5>2 DEF DevReg
      <4>2. Told(5)' /\ dev'.OP = "READ"
        BY <2>1, <2>2, <2>4, <2>9, <3>1, <3>6, ZenonT(30) DEF DevReg, Told
      <4> QED
        BY <3>6, <4>1, <4>2 DEF Told
    <3> QED
      BY <3>2, <3>3, <3>4, <3>5, <3>6
  <2>6. Types'
    BY <1>1, <1>2, <1>4, <2>3, <2>5 DEF Types, Return, Goto, LoadAlone, fbVars, IocPlaces
  <2>7. CASE n < 5
    <3>1. Told(step["load"])'
      BY <1>1, <2>3, <2>5, <2>7, <2>9
    <3>2. Rest' /\ Ordered'
      BY <2>1, <2>2, <2>3, <2>4, <2>7 DEF Rest, Ordered, DevReg
    <3>3. kpc' = kpc
      BY <2>3, <2>7
    <3> QED
      BY <2>1, <2>3, <2>6, <3>1, <3>2, <3>3 DEF LoadPhase, LoadCalled, IocPlaces
  <2>8. CASE n = 5
    <3>1. Told(6)' /\ dev'.next = 0
      <4>1. dev'.next = 0
        BY <2>2, <2>4, <2>8 DEF DevReg
      <4> QED
        BY <2>5, <2>8, <4>1
    <3>2. Moving'
      BY <2>1, <2>2, <2>3, <2>4, <2>8, ZenonT(30) DEF Rest, Moving, DevReg
    <3>3. Given'
      BY <3>1, <3>2 DEF Given
    <3>4. kpc'["load"] = "user" /\ ret'["load"] = 0
      BY <1>1, <2>3, <2>8 DEF Return, Goto
    <3> QED
      BY <2>1, <2>3, <2>6, <3>3, <3>4 DEF LoadPhase, LoadCalled, IocPlaces
  <2> QED
    BY <2>7, <2>8
<1>7. CASE Poll("load") \/ TestStatus("load")
  <2>1. kpc["load"] \in {"poll", "status"} /\ kpc'["load"] \in {"poll", "status", "reset"}
    BY <1>1, <1>7 DEF Poll, TestStatus, At, Goto
  <2>2. apc["load"] = "completed" /\ Given
    BY <1>1, <2>1 DEF LoadPhase, LoadCalled, LoadCompletes
  <2>3. Types'
    BY <1>1, <1>2, <1>4, <1>7 DEF Types, Poll, TestStatus, Goto, LoadAlone, fbVars, IocPlaces
  <2>4. UNCHANGED <<apc, image, dev, isr, ioc_done, ioc_status, memory>>
    BY <1>2, <1>7 DEF Poll, TestStatus, LoadAlone, appVars
  <2>5. Given'
    BY <2>2, <2>4 DEF Given, Told, Moving, Raising, Signaled, Over, Stored
  <2>6. kpc'["load"] /= "poll" => Over'
    BY <1>1, <1>7, <2>2, <2>4
       DEF Given, Moving, Raising, Signaled, Over, Stored, Poll, TestStatus, At, Goto, LoadPhase,
           LoadCompletes
  <2>7. kpc'["load"] = "reset" => Loaded'
    <3> SUFFICES ASSUME kpc'["load"] = "reset", ret'["load"] = 0 PROVE InHolds(k)'
      BY DEF Loaded
    <3>1. TestStatus("load")
      BY <1>1, <1>7 DEF Poll, At, Goto
    <3>2. ioc_status \in {"READ_SUCCESS", "WRITE_SUCCESS"}
      BY <1>1, <3>1 DEF TestStatus
    <3>3. dev'.next = NSide
      BY <3>2, <2>4, <2>6 DEF Over, Stored
    <3> QED
      BY <2>5, <2>4, <3>3 DEF Given, InHolds
  <2> QED
    BY <2>1, <2>2, <2>3, <2>4, <2>5, <2>6, <2>7 DEF LoadPhase, LoadCompletes, IocPlaces
<1>8. CASE ResetDone("load") \/ Unlock("load")
  <2>1. kpc["load"] \in {"reset", "unlock"} /\ kpc'["load"] \in {"unlock", "user"}
        /\ apc["load"] = "completed" /\ UNCHANGED ret
    BY <1>1, <1>8 DEF ResetDone, Unlock, At, Goto, Return, LoadPhase, LoadCalled, LoadCompletes
  <2>2. Types'
    BY <1>1, <1>2, <1>4, <1>8, <2>1 DEF Types, ResetDone, Unlock, Goto, Return, LoadAlone, fbVars, IocPlaces
  <2>3. UNCHANGED <<apc, image, dev, isr, ioc_status, memory>>
    BY <1>2, <1>8 DEF ResetDone, Unlock, LoadAlone, appVars
  <2>4. Rest' /\ Loaded
    BY <1>1, <1>8, <2>1, <2>3 DEF LoadPhase, LoadCompletes, Over, Rest, ResetDone, Unlock, At
  <2>5. Loaded'
    BY <2>1, <2>3, <2>4 DEF Loaded, InHolds
  <2> QED
    BY <2>1, <2>2, <2>3, <2>4, <2>5 DEF LoadPhase, LoadCompletes, IocPlaces
<1> QED
  BY <1>5, <1>6, <1>7, <1>8 DEF Driver

(* The steps of the interrupt routine and of the disk: LoadPhase moves on. *)
IocAlone == UNCHANGED <<fbVars, appVars, kpc, step, ret, req, disk>>

LEMMA DiskMoves ==
  ASSUME IInv, ~Rest, IocAlone, Types', Waits',
         \A b \in Buffer \ {"buf_in"} : memory'[b] = memory[b]
  PROVE  IInv'
<1> USE Constants
<1>1. buf_in_empty /\ Waits
  BY NotAtRest
<1>2. Places'
  BY DEF IInv, Places, IocAlone, fbVars, appVars
<1>3. DisplayPhase'
  BY DisplaySame DEF IInv, IocAlone, fbVars, appVars, DisplayView
<1>4. TransposePhase'
  BY <1>1 DEF IInv, IocAlone, appVars, TransposePhase, OutHolds
<1>5. Flags'
  BY <1>1 DEF IInv, IocAlone, appVars, Flags, Consumed, OutHolds
<1>6. LoadPhase'
  BY DEF Waits, LoadPhase, LoadCalled, LoadCompletes
<1> QED
  BY <1>2, <1>3, <1>4, <1>5, <1>6 DEF IInv

LEMMA IocMoves ==
  ASSUME IInv, (IsrStatus \/ IsrDone \/ Device) /\ UNCHANGED <<fbVars, appVars>>
  PROVE  IInv'
<1> USE Constants
<1> DEFINE k == image["load"]
<1>1. Types /\ dev \in DevReg /\ k \in Nat
  BY DEF IInv, Types, TypeOK
<1>2. ~Rest
  BY DEF Rest, Finished, IsrStatus, IsrDone, Device, Transfer, Finish
<1>3. buf_in_empty /\ Waits /\ (Over \/ Given)
  BY <1>2, NotAtRest DEF Waits
<1>4. ~Over /\ Given /\ Told(6)
  BY <1>3 DEF Over, Finished, IsrStatus, IsrDone, Device, Transfer, Finish, Given
<1>5. \/ apc["load"] = "called" /\ kpc["load"] = "user" /\ ret["load"] = 0
      \/ apc["load"] = "completed" /\ kpc["load"] = "poll"
  BY <1>3, <1>4 DEF Waits
<1>6. dev.COUNT = NSide /\ dev.BUFFER = "buf_in" /\ dev.LBA = k * NSide /\ dev.OP = "READ"
  BY <1>4 DEF Told
<1>7. IocAlone
  <2>1. CASE Transfer
    BY <1>6, <2>1 DEF IocAlone, Transfer
  <2> QED
    BY <2>1 DEF IocAlone, IsrStatus, IsrDone, Device, Finish
<1>8. TypeOK' <=> memory' \in [Buffer -> [Side -> [Side -> Pixel]]]
  BY <1>1, <1>7 DEF Types, TypeOK, IocAlone, fbVars, appVars
<1>9. Given' => Waits'
  BY <1>5, <1>7 DEF Waits, IocAlone, appVars
<1>10. CASE IsrStatus
  <2>1. dev' = [dev EXCEPT !.status = "IDLE"] /\ isr' = "done" /\ ioc_status' = dev.status
        /\ UNCHANGED <<ioc_done, memory>> /\ dev.status \in Finished
    BY <1>10 DEF IsrStatus
  <2>2. Raising
    BY <1>4, <2>1, <1>10 DEF Given, Moving, Raising, Signaled, Over, Finished, IsrStatus
  <2>3. Signaled' /\ Told(6)' /\ dev'.next = dev.next
    BY <1>1, <1>4, <1>7, <2>1, <2>2 DEF DevReg, Raising, Signaled, Stored, Told, IocAlone, appVars
  <2>4. Given'
    BY <1>4, <1>7, <2>1, <2>3 DEF Given, IocAlone, appVars
  <2>5. Types'
    BY <1>1, <1>7, <1>8, <2>1 DEF Types, TypeOK, DevReg, Statuses, IocAlone, fbVars, appVars
  <2> QED
    BY <1>2, <1>7, <1>9, <2>1, <2>4, <2>5, DiskMoves
<1>11. CASE IsrDone
  <2>1. isr' = "none" /\ ioc_done' = 1 /\ UNCHANGED <<dev, ioc_status, memory>> /\ isr = "done"
    BY <1>11 DEF IsrDone
  <2>2. Signaled
    BY <1>4, <2>1 DEF Given, Moving, Raising, Over
  <2>3. Over'
    BY <2>1, <2>2 DEF Signaled, Over, Stored
  <2>4. Given'
    BY <1>4, <1>7, <2>1, <2>3 DEF Given, Told, IocAlone, appVars
  <2>5. Types'
    BY <1>1, <1>7, <1>8, <2>1 DEF Types, TypeOK, IocAlone, fbVars, appVars
  <2> QED
    BY <1>2, <1>7, <1>9, <2>1, <2>4, <2>5, DiskMoves
<1>12. CASE Finish
  <2>1. PICK outcome \in Outcomes :
          /\ outcome = "SUCCESS" => dev.next = dev.COUNT
          /\ dev' = [dev EXCEPT !.status = StatusOf(dev.OP, outcome)]
    BY <1>12 DEF Finish
  <2>2. dev.status = "BUSY" /\ UNCHANGED <<isr, ioc_done, ioc_status, memory>>
    BY <1>12 DEF Finish
  <2>3. StatusOf(dev.OP, outcome) = IF outcome = "SUCCESS" THEN "READ_SUCCESS" ELSE "READ_ERROR"
    BY <1>6 DEF StatusOf
  <2>4. Moving
    BY <1>4, <2>2 DEF Given, Raising, Signaled, Over, Finished
  <2>5. Raising'
    BY <1>1, <1>6, <2>1, <2>2, <2>3, <2>4 DEF DevReg, Moving, Raising, Finished
  <2>6. Told(6)' /\ dev'.next = dev.next
    BY <1>1, <1>4, <1>7, <2>1 DEF DevReg, Told, IocAlone, appVars
  <2>7. Given'
    BY <1>4, <1>7, <2>2, <2>5, <2>6 DEF Given, IocAlone, appVars
  <2>8. dev' \in DevReg
    BY <1>1, <2>1, <2>3 DEF DevReg, Statuses, Finished
  <2>9. Types'
    BY <1>1, <1>7, <1>8, <2>2, <2>8 DEF Types, TypeOK, IocAlone, fbVars, appVars
  <2> QED
    BY <1>2, <1>7, <1>9, <2>2, <2>7, <2>9, DiskMoves
<1>13. CASE Transfer
  <2> DEFINE n == dev.next
  <2>1. n \in Side /\ n \in Nat
    BY <1>1, <1>6, <1>13 DEF DevReg, Transfer
  <2>2. /\ dev.status = "BUSY" /\ dev' = [dev EXCEPT !.next = n + 1]
        /\ memory' = [memory EXCEPT !["buf_in"][n] = disk[k * NSide + n]]
        /\ UNCHANGED <<isr, ioc_done, ioc_status>>
    BY <1>6, <1>13 DEF Transfer
  <2>11. k < NImages
    BY <1>5 DEF IInv, Places
  <2>3. Line(k, n) \in [Side -> Pixel] /\ disk[k * NSide + n] = Line(k, n)
    BY <1>1, <2>1, <2>11, LineOnDisk
  <2>4. /\ memory' \in [Buffer -> [Side -> [Side -> Pixel]]]
        /\ memory'["buf_in"][n] = Line(k, n)
        /\ \A i \in Side \ {n} : memory'["buf_in"][i] = memory["buf_in"][i]
        /\ \A b \in Buffer \ {"buf_in"} : memory'[b] = memory[b]
    <3>1. memory \in [Buffer -> [Side -> [Side -> Pixel]]]
      BY <1>1 DEF Types, TypeOK
    <3> QED
      BY <2>1, <2>2, <2>3, <3>1, LineWritten
  <2>5. dev' \in DevReg
    BY <1>1, <2>1, <2>2 DEF DevReg
  <2>6. Moving'
    BY <1>1, <1>4, <2>2 DEF Given, Raising, Signaled, Over, Finished, Moving, DevReg
  <2>7. Told(6)' /\ dev'.next = n + 1
    BY <1>1, <1>4, <1>7, <2>2 DEF DevReg, Told, IocAlone, appVars
  <2>8. ASSUME NEW i \in Side, i < dev'.next PROVE memory'["buf_in"][i] = Line(k, i)
    <3>1. i = n \/ i < n
      BY <2>1, <2>7, <2>8
    <3>2. i < n => memory["buf_in"][i] = Line(k, i)
      BY <1>4 DEF Given
    <3> QED
      BY <2>1, <2>4, <3>1, <3>2
  <2>9. Given'
    BY <1>7, <2>6, <2>7, <2>8 DEF Given, Line, IocAlone, appVars
  <2>10. Types'
    BY <1>1, <1>7, <1>8, <2>2, <2>4, <2>5 DEF Types, TypeOK, IocAlone, fbVars, appVars
  <2> QED
    BY <1>2, <1>7, <1>9, <2>4, <2>9, <2>10, DiskMoves
<1> QED
  BY <1>10, <1>11, <1>12, <1>13 DEF Device

-------------------------------------------------------------------------------
(* The display task in its driver and its DMA channel.                     *)
DisplayAlone ==
  /\ UNCHANGED <<appVars, isr, dev, ioc_done, ioc_status, req, step, disk>>
  /\ \A t \in {"load", "transpose"} : kpc'[t] = kpc[t] /\ ret'[t] = ret[t] /\ dma'[t] = dma[t]
  /\ \A b \in Buffer \ {FrameBuffer} : memory'[b] = memory[b]

LEMMA DisplayKeeps ==
  ASSUME IInv, DisplayAlone, Types', kpc'["display"] \in FbPlaces, DisplayPhase'
  PROVE  IInv'
<1>1. memory'["buf_in"] = memory["buf_in"] /\ memory'["buf_out"] = memory["buf_out"]
  BY Constants DEF DisplayAlone
<1>2. Places'
  BY DEF IInv, Places, DisplayAlone, appVars
<1>3. LoadPhase'
  BY <1>1, LoadSame DEF IInv, DisplayAlone, appVars, LoadView
<1>4. TransposePhase'
  BY <1>1, TransposeSame DEF IInv, DisplayAlone, appVars, TransposeView
<1>5. Flags'
  BY <1>1, FlagsSame DEF IInv, DisplayAlone, appVars, FlagsView
<1> QED
  BY <1>2, <1>3, <1>4, <1>5 DEF IInv

LEMMA DisplayDriver ==
  ASSUME IInv, FbDriver("display"), UNCHANGED appVars
  PROVE  IInv'
<1> USE Constants
<1>1. /\ Types /\ TypeOK /\ DisplayPhase /\ kpc \in [Task -> IocPlaces \cup FbPlaces]
      /\ ret \in [Task -> {0, 1}] /\ dma \in [Task -> DmaReg] /\ dma_busy \in [Task -> {0, 1}]
      /\ apc["display"] \in {"wait", "call", "called", "completed", "exit"}
  BY DEF IInv, Types, TypeOK
<1>2. DisplayAlone /\ UNCHANGED <<memory, dma_status, fbuf>>
  BY <1>1 DEF FbDriver, FbPoll, FbClaim, FbStart, FbWait, Goto, Return, Others, fbVars, DisplayAlone
<1>3. ASSUME dma' \in [Task -> DmaReg], dma_busy' \in [Task -> {0, 1}],
             ret' \in [Task -> {0, 1}], kpc' \in [Task -> IocPlaces \cup FbPlaces]
      PROVE  Types'
  BY <1>1, <1>2, <1>3 DEF Types, TypeOK, DisplayAlone, appVars
<1>4. CASE FbPoll("display") \/ FbClaim("display")
  <2>1. /\ kpc["display"] \in {"fb_poll", "fb_claim"}
        /\ kpc'["display"] \in {"fb_poll", "fb_claim", "fb_start"}
        /\ kpc' \in [Task -> IocPlaces \cup FbPlaces]
        /\ UNCHANGED <<ret, dma>>
    BY <1>1, <1>4 DEF FbPoll, FbClaim, At, Goto, fbVars, FbPlaces
  <2>2. apc["display"] = "called" /\ Asked /\ Quiet
    BY <1>1, <2>1 DEF DisplayPhase, DisplayCalled, DisplayCompletes
  <2>3. /\ dma_busy' \in [Task -> {0, 1}]
        /\ IF kpc'["display"] = "fb_start" THEN dma_busy'["display"] = 1 ELSE UNCHANGED dma_busy
    BY <1>1, <1>4 DEF FbPoll, FbClaim, At, Goto, fbVars
  <2>4. DisplayPhase'
    BY <1>2, <2>1, <2>2, <2>3 DEF DisplayPhase, DisplayCalled, DisplayAlone, appVars, Asked, Quiet
  <2>5. Types'
    BY <1>1, <1>3, <2>1, <2>3
  <2> QED
    BY <1>2, <2>1, <2>4, <2>5, DisplayKeeps DEF FbPlaces
<1>5. CASE FbStart("display")
  <2> DEFINE d == [st |-> "BUSY", SRC |-> "buf_out", DST |-> FrameBuffer, next |-> 0, status |-> 0]
  <2>1. apc["display"] = "called" /\ Asked /\ dma_busy["display"] = 1
    BY <1>1, <1>5 DEF FbStart, At, DisplayPhase, DisplayCalled, DisplayCompletes
  <2>2. dma' = [dma EXCEPT !["display"] = d]
    BY <1>5, <2>1 DEF FbStart, Asked
  <2>3. d \in DmaReg
    BY DEF DmaReg
  <2>4. dma'["display"] = d /\ dma' \in [Task -> DmaReg]
    BY <1>1, <2>2, <2>3
  <2>5. /\ kpc'["display"] = "user" /\ ret'["display"] = 0
        /\ kpc' \in [Task -> IocPlaces \cup FbPlaces] /\ ret' \in [Task -> {0, 1}]
        /\ UNCHANGED dma_busy
    BY <1>1, <1>5 DEF FbStart, Return, Goto, FbPlaces
  <2>6. Copying'
    BY <1>2, <2>1, <2>4, <2>5 DEF Copying
  <2>7. DisplayPhase'
    BY <1>2, <2>1, <2>5, <2>6 DEF DisplayPhase, DisplayCalled, DisplayAlone, appVars
  <2>8. Types'
    BY <1>1, <1>3, <2>4, <2>5
  <2> QED
    BY <1>2, <2>5, <2>7, <2>8, DisplayKeeps DEF FbPlaces
<1>6. CASE FbWait("display")
  <2>1. /\ kpc["display"] = "fb_wait" /\ UNCHANGED <<dma, dma_busy>>
        /\ IF dma_busy["display"] /= 0 THEN UNCHANGED <<kpc, ret>>
           ELSE kpc' = [kpc EXCEPT !["display"] = "user"]
                /\ ret' = [ret EXCEPT !["display"] = IF dma_status["display"] /= 0 THEN 1 ELSE 0]
    BY <1>6 DEF FbWait, At, fbVars, Return, Goto
  <2>2. apc["display"] = "completed" /\ Copying
    BY <1>1, <2>1 DEF DisplayPhase, DisplayCalled, DisplayCompletes
  <2>3. /\ kpc' \in [Task -> IocPlaces \cup FbPlaces] /\ ret' \in [Task -> {0, 1}]
        /\ kpc'["display"] \in {"fb_wait", "user"}
    BY <1>1, <2>1 DEF FbPlaces
  <2>4. Copying'
    BY <1>2, <2>1, <2>2 DEF Copying, Quiet, FrameIsOut
  <2>5. kpc'["display"] = "user" => Quiet' /\ (ret'["display"] = 0 => FrameIsOut')
    BY <1>1, <1>2, <2>1, <2>2 DEF Copying, Quiet, FrameIsOut
  <2>6. DisplayPhase'
    BY <1>2, <2>2, <2>3, <2>4, <2>5 DEF DisplayPhase, DisplayCompletes, DisplayAlone, appVars
  <2>7. Types'
    BY <1>1, <1>3, <2>1, <2>3
  <2> QED
    BY <1>2, <2>3, <2>6, <2>7, DisplayKeeps DEF FbPlaces
<1> QED
  BY <1>4, <1>5, <1>6 DEF FbDriver

LEMMA DmaMoves ==
  ASSUME IInv, IsrDma("display") \/ DmaStep("display"), UNCHANGED appVars
  PROVE  IInv'
<1> USE Constants
<1> DEFINE d == dma["display"]
<1>1. /\ Types /\ TypeOK /\ DisplayPhase /\ kpc["display"] \in FbPlaces
      /\ dma \in [Task -> DmaReg] /\ d \in DmaReg
      /\ dma_busy \in [Task -> {0, 1}] /\ dma_status \in [Task -> {0, 1}]
      /\ memory \in [Buffer -> [Side -> [Side -> Pixel]]]
      /\ apc["display"] \in {"wait", "call", "called", "completed", "exit"}
  BY DEF IInv, Types, TypeOK, Places
<1>2. d.st \in {"BUSY", "END"} /\ UNCHANGED <<kpc, ret, fbuf>>
  BY DEF IsrDma, DmaStep, DmaMove, DmaEnd
<1>3. /\ Copying
      /\ \/ apc["display"] = "called" /\ kpc["display"] = "user" /\ ret["display"] = 0
         \/ apc["display"] = "completed" /\ kpc["display"] = "fb_wait"
  BY <1>1, <1>2 DEF DisplayPhase, DisplayCalled, DisplayCompletes, Quiet
<1>4. d.st = "BUSY" => d.SRC = "buf_out" /\ d.DST = FrameBuffer
  BY <1>3 DEF Copying, Quiet
<1>5. ASSUME memory' \in [Buffer -> [Side -> [Side -> Pixel]]],
             \A b \in Buffer \ {FrameBuffer} : memory'[b] = memory[b],
             NEW e \in DmaReg, dma' = [dma EXCEPT !["display"] = e],
             dma_busy' \in [Task -> {0, 1}], dma_status' \in [Task -> {0, 1}], Copying'
      PROVE  IInv'
  <2>1. dma' \in [Task -> DmaReg]
    BY <1>1, <1>5
  <2>2. DisplayAlone
    BY <1>1, <1>2, <1>5 DEF DisplayAlone, IsrDma, DmaStep, DmaMove, DmaEnd, Others
  <2>3. Types'
    BY <1>1, <1>2, <1>5, <2>1, <2>2 DEF Types, TypeOK, DisplayAlone, appVars
  <2>4. DisplayPhase'
    BY <1>2, <1>3, <1>5 DEF DisplayPhase, DisplayCalled, DisplayCompletes, appVars
  <2> QED
    BY <1>1, <1>2, <2>2, <2>3, <2>4, DisplayKeeps
<1>6. CASE IsrDma("display")
  <2> DEFINE e == [d EXCEPT !.st = "IDLE"]
  <2>1. /\ dma' = [dma EXCEPT !["display"] = e]
        /\ dma_status' = [dma_status EXCEPT !["display"] = d.status]
        /\ dma_busy' = [dma_busy EXCEPT !["display"] = 0]
        /\ UNCHANGED memory /\ d.st = "END"
    BY <1>6 DEF IsrDma
  <2>2. e \in DmaReg /\ e.st = "IDLE"
    BY <1>1 DEF DmaReg
  <2>3. d.status \in {0, 1}
    BY <1>1 DEF DmaReg
  <2>4. /\ dma'["display"] = e /\ dma_busy'["display"] = 0 /\ dma_status'["display"] = d.status
        /\ dma_busy' \in [Task -> {0, 1}] /\ dma_status' \in [Task -> {0, 1}]
    BY <1>1, <2>1, <2>3
  <2>5. d.status = 0 => FrameIsOut
    BY <1>3, <2>1 DEF Copying, Quiet
  <2>6. Copying'
    BY <2>1, <2>2, <2>4, <2>5 DEF Copying, Quiet, FrameIsOut
  <2> HIDE DEF e
  <2> QED
    BY <1>1, <1>5, <2>1, <2>2, <2>4, <2>6
<1>7. CASE DmaMove("display")
  <2> DEFINE n == d.next
             e == [d EXCEPT !.next = n + 1]
             x == memory["buf_out"][n]
  <2>1. n \in Side /\ n + 1 \in 0 .. NbBlocks /\ d.st = "BUSY"
    BY <1>1, <1>7 DEF DmaReg, DmaMove
  <2>2. /\ dma' = [dma EXCEPT !["display"] = e]
        /\ memory' = [memory EXCEPT ![FrameBuffer][n] = x]
        /\ UNCHANGED <<dma_busy, dma_status>>
    BY <1>4, <1>7, <2>1 DEF DmaMove
  <2>3. e \in DmaReg /\ e.st = "BUSY" /\ e.SRC = "buf_out" /\ e.DST = FrameBuffer /\ e.next = n + 1
    BY <1>1, <1>4, <2>1 DEF DmaReg
  <2>4. x \in [Side -> Pixel]
    BY <1>1, <2>1
  <2> HIDE DEF e, x
  <2>5. /\ memory' \in [Buffer -> [Side -> [Side -> Pixel]]]
        /\ memory'[FrameBuffer][n] = x
        /\ \A i \in Side \ {n} : memory'[FrameBuffer][i] = memory[FrameBuffer][i]
        /\ \A b \in Buffer \ {FrameBuffer} : memory'[b] = memory[b]
    BY <1>1, <2>1, <2>2, <2>4, LineWritten
  <2>6. dma'["display"] = e /\ dma_busy["display"] = 1
    BY <1>1, <1>3, <2>1, <2>2 DEF Copying, Quiet
  <2>7. ASSUME NEW i \in Side, i < n + 1
        PROVE  memory'[FrameBuffer][i] = memory'["buf_out"][i]
    <3>1. memory'["buf_out"] = memory["buf_out"]
      BY <2>5
    <3>2. i = n \/ i < n
      BY <2>1, <2>7
    <3>3. i < n => memory[FrameBuffer][i] = memory["buf_out"][i]
      BY <1>3, <2>1 DEF Copying, Quiet
    <3> QED
      BY <2>5, <3>1, <3>2, <3>3 DEF x
  <2>8. Copying'
    BY <2>2, <2>3, <2>6, <2>7 DEF Copying
  <2> QED
    BY <1>1, <1>5, <2>2, <2>3, <2>5, <2>8
<1>8. CASE DmaEnd("display")
  <2>1. PICK outcome \in Outcomes :
          /\ outcome = "SUCCESS" => d.next = NbBlocks
          /\ dma' = [dma EXCEPT !["display"].st = "END",
                                !["display"].status = IF outcome = "SUCCESS" THEN 0 ELSE 1]
    BY <1>8 DEF DmaEnd
  <2> DEFINE z == IF outcome = "SUCCESS" THEN 0 ELSE 1
             e == [d EXCEPT !.st = "END", !.status = z]
  <2>2. d.st = "BUSY" /\ UNCHANGED <<dma_busy, dma_status, memory>>
    BY <1>8 DEF DmaEnd
  <2>3. dma' = [dma EXCEPT !["display"] = e]
    BY <1>1, <2>1
  <2>4. e \in DmaReg /\ e.st = "END" /\ e.status = z
    BY <1>1 DEF DmaReg
  <2>5. dma'["display"] = e
    BY <1>1, <2>3
  <2>6. dma_busy["display"] = 1 /\ \A i \in Side : i < d.next => memory[FrameBuffer][i] = memory["buf_out"][i]
    BY <1>3, <2>2 DEF Copying, Quiet
  <2>7. z = 0 => FrameIsOut
    BY <2>1, <2>6 DEF FrameIsOut
  <2>8. Copying'
    BY <2>2, <2>4, <2>5, <2>6, <2>7 DEF Copying, FrameIsOut
  <2> HIDE DEF e
  <2> QED
    BY <1>1, <1>5, <2>2, <2>3, <2>4, <2>8
<1> QED
  BY <1>6, <1>7, <1>8 DEF DmaStep

-------------------------------------------------------------------------------
(* The program of the tasks.  A step of it changes the place of one task,  *)
(* a flag, the image of the task, or a pixel.                              *)
Ready == {"wait", "call", "called", "completed", "exit"}

LEMMA ProgramTypes ==
  ASSUME IInv, UNCHANGED <<isr, dev, ioc_done, ioc_status, step, disk, dma, dma_busy, dma_status>>,
         NEW t \in Task, NEW l \in Ready, apc' = [apc EXCEPT ![t] = l],
         t = "transpose" => l /= "completed",
         NEW i \in 0 .. NImages, image' = [image EXCEPT ![t] = i], l /= "exit" => i < NImages,
         kpc' \in [Task -> IocPlaces \cup FbPlaces], kpc'["load"] \in IocPlaces,
         kpc'["display"] \in FbPlaces, kpc'["transpose"] = "user",
         UNCHANGED ret, DOMAIN req' = Task, DOMAIN fbuf' = Task,
         buf_in_empty' \in BOOLEAN, buf_out_empty' \in BOOLEAN,
         pixel' \in 0 .. NSide * NSide, memory' = memory
  PROVE  /\ Types' /\ Places'
         /\ apc'[t] = l /\ image'[t] = i
         /\ \A u \in Task \ {t} : apc'[u] = apc[u] /\ image'[u] = image[u]
<1>1. /\ apc \in [Task -> Ready] /\ image \in [Task -> 0 .. NImages] /\ ret \in [Task -> {0, 1}]
      /\ apc["transpose"] \in {"wait", "call", "called", "exit"}
  BY DEF IInv, Types, TypeOK, Places, Ready
<1>2. /\ apc'[t] = l /\ image'[t] = i
      /\ \A u \in Task \ {t} : apc'[u] = apc[u] /\ image'[u] = image[u]
      /\ apc' \in [Task -> Ready] /\ image' \in [Task -> 0 .. NImages]
  BY <1>1
<1>3. Types'
  BY <1>2 DEF IInv, Types, TypeOK, Ready
<1>4. Places'
  BY <1>1, <1>2, Constants DEF IInv, Places, Ready
<1> QED
  BY <1>2, <1>3, <1>4

LEMMA Pixels ==
  ASSUME NEW x \in Nat, x < NSide * NSide
  PROVE  /\ x \div NSide \in Side /\ x % NSide \in Side
         /\ \A l, p \in Side : l * NSide + p = x => l = x \div NSide /\ p = x % NSide
<1> USE Constants
<1> DEFINE q == x \div NSide
           r == x % NSide
<1>1. q \in Int /\ r \in 0 .. NSide - 1 /\ x = NSide * q + r
  OBVIOUS
<1>2. ASSUME NEW a \in Int, NEW b \in Int, NEW c \in Side, NEW d \in Side,
             NSide * a + c = NSide * b + d
      PROVE  ~(a < b)
  <2>1. a + 1 <= b => NSide * a + NSide <= NSide * b
    OBVIOUS
  <2> QED
    BY <1>2, <2>1
<1>3. q < NSide /\ q >= 0
  <2>1. q >= NSide => NSide * q >= NSide * NSide
    BY <1>1
  <2>2. q <= -1 => NSide * q <= -NSide
    BY <1>1
  <2> QED
    BY <1>1, <2>1, <2>2
<1>4. ASSUME NEW l \in Side, NEW p \in Side, l * NSide + p = x
      PROVE  l = q /\ p = r
  <2>1. l \in Int /\ NSide * l + p = NSide * q + r
    BY <1>1, <1>4
  <2>2. ~(l < q) /\ ~(q < l)
    BY <1>1, <1>2, <2>1
  <2> QED
    BY <1>1, <2>1, <2>2
<1> QED
  BY <1>1, <1>3, <1>4

(* Pixels are numbered from 0 to the size of an image.                     *)
LEMMA PixelNumbers ==
  \A l, p \in Side : l * NSide + p \in Nat /\ l * NSide + p < NSide * NSide
<1> SUFFICES ASSUME NEW l \in Side, NEW p \in Side
             PROVE  l * NSide + p \in Nat /\ l * NSide + p < NSide * NSide
  OBVIOUS
<1> USE Constants
<1>1. l * NSide \in Nat /\ NSide * NSide \in Nat /\ l * NSide + NSide <= NSide * NSide
  <2>1. \A a \in Nat : \A b \in Nat : a + 1 <= b => a * NSide + NSide <= b * NSide
    OBVIOUS
  <2> QED
    BY <2>1
<1> QED
  BY <1>1

LEMMA Stutter == IInv /\ UNCHANGED vars => IInv'
<1> SUFFICES ASSUME IInv, UNCHANGED vars PROVE IInv'
  OBVIOUS
<1> USE DEF vars, iocVars, fbVars, appVars
<1>1. Types' /\ Places'
  BY DEF IInv, Types, TypeOK, Places
<1>2. LoadPhase' /\ DisplayPhase' /\ TransposePhase' /\ Flags'
  BY LoadSame, DisplaySame, TransposeSame, FlagsSame
     DEF IInv, LoadView, DisplayView, TransposeView, FlagsView
<1> QED
  BY <1>1, <1>2 DEF IInv

LEMMA LoadProgram ==
  ASSUME IInv, Synchro("load") \/ LoadRead \/ LoadCompleted \/ LoadEnd
               \/ \E l \in {"called", "completed"} : Failed("load", l)
  PROVE  IInv'
<1> USE Constants
<1> DEFINE k == image["load"]
<1>1. /\ LoadPhase /\ Places /\ kpc["load"] = "user"
      /\ apc \in [Task -> Ready] /\ image \in [Task -> 0 .. NImages]
      /\ kpc \in [Task -> IocPlaces \cup FbPlaces] /\ ret \in [Task -> {0, 1}]
  BY DEF IInv, Types, TypeOK, Ready, Synchro, LoadRead, LoadCompleted, LoadEnd, Failed, App
<1>2. UNCHANGED <<isr, dev, ioc_done, ioc_status, step, disk, fbVars, ret, memory, pixel, buf_out_empty>>
  BY DEF Synchro, LoadRead, LoadCompleted, LoadEnd, Failed, Kernel, iocVars, Submit, Complete
<1>3. ASSUME NEW l \in Ready, apc' = [apc EXCEPT !["load"] = l],
             NEW i \in 0 .. NImages, image' = [image EXCEPT !["load"] = i], l /= "exit" => i < NImages,
             NEW g \in IocPlaces, kpc' = [kpc EXCEPT !["load"] = g], DOMAIN req' = Task,
             buf_in_empty' \in BOOLEAN,
             LoadPhase', TransposePhase', Flags'
      PROVE  IInv'
  <2>1. /\ kpc' \in [Task -> IocPlaces \cup FbPlaces] /\ kpc'["load"] \in IocPlaces
        /\ kpc'["display"] = kpc["display"] /\ kpc'["transpose"] = kpc["transpose"]
    BY <1>1, <1>3
  <2>2. /\ Types' /\ Places'
        /\ \A u \in Task \ {"load"} : apc'[u] = apc[u] /\ image'[u] = image[u]
    BY <1>1, <1>2, <1>3, <2>1, ProgramTypes, ZenonT(30) DEF IInv, Places, Types, TypeOK, fbVars
  <2>3. DisplayPhase'
    BY <1>2, <2>1, <2>2, DisplaySame DEF IInv, DisplayView, fbVars
  <2> QED
    BY <1>3, <2>2, <2>3 DEF IInv
<1>4. /\ kpc = [kpc EXCEPT !["load"] = "user"] /\ image = [image EXCEPT !["load"] = k]
      /\ DOMAIN req = Task /\ buf_in_empty \in BOOLEAN /\ k \in 0 .. NImages
      /\ apc["load"] /= "exit" => k < NImages
      /\ apc["load"] \in {"wait", "call", "exit"} => Rest
      /\ apc["load"] = "called" => ret["load"] = 0 /\ Given
      /\ apc["load"] = "completed" => Rest /\ Loaded
  BY <1>1 DEF IInv, Types, TypeOK, Places, LoadPhase, LoadCalled, LoadCompletes
<1>5. ASSUME \A u \in Task \ {"load"} : apc'[u] = apc[u] /\ image'[u] = image[u]
      PROVE  /\ UNCHANGED <<apc["transpose"], apc["display"], image["transpose"], image["display"]>>
             /\ UNCHANGED Consumed
             /\ UNCHANGED buf_in_empty => TransposePhase'
             /\ image' = image /\ UNCHANGED buf_in_empty /\ buf_in_empty => Flags'
  <2>1. UNCHANGED <<apc["transpose"], apc["display"], image["transpose"], image["display"]>>
    BY <1>5
  <2>2. UNCHANGED Consumed
    BY <2>1 DEF Consumed
  <2>3. UNCHANGED buf_in_empty => TransposePhase'
    BY <1>2, <2>1, TransposeSame DEF IInv, TransposeView
  <2>4. image' = image /\ UNCHANGED buf_in_empty /\ buf_in_empty => Flags'
    BY <1>2, <2>1, <2>2 DEF IInv, Flags, OutHolds, Source
  <2> QED
    BY <2>1, <2>2, <2>3, <2>4
<1>6. CASE Synchro("load")
  <2>1. CASE ~buf_in_empty
    BY <1>6, <2>1, Stutter DEF Synchro, MayGo, vars, appVars, Kernel
  <2>2. CASE buf_in_empty
    <3>1. /\ apc["load"] = "wait" /\ apc' = [apc EXCEPT !["load"] = "call"]
          /\ UNCHANGED <<image, kpc, req, buf_in_empty>>
      BY <1>6, <2>2 DEF Synchro, MayGo, AppGoto, App, Kernel, iocVars
    <3>2. apc'["load"] = "call" /\ \A u \in Task \ {"load"} : apc'[u] = apc[u] /\ image'[u] = image[u]
      BY <1>1, <3>1
    <3>3. LoadPhase'
      BY <1>1, <1>2, <1>4, <3>1, <3>2 DEF LoadPhase, Rest
    <3>4. TransposePhase' /\ Flags'
      BY <1>5, <2>2, <3>1, <3>2
    <3> QED
      BY <1>3, <1>4, <3>1, <3>3, <3>4 DEF Ready, IocPlaces
  <2> QED
    BY <2>1, <2>2
<1>7. CASE LoadRead
  <2>1. /\ apc["load"] = "call" /\ apc' = [apc EXCEPT !["load"] = "called"]
        /\ kpc' = [kpc EXCEPT !["load"] = "lock_ll"] /\ UNCHANGED <<image, buf_in_empty>>
        /\ req' = [req EXCEPT !["load"] = [op |-> "READ", lba |-> k * NbBlocks, buffer |-> "buf_in"]]
    BY <1>7 DEF LoadRead, AppGoto, App, Submit, Goto
  <2>2. /\ apc'["load"] = "called" /\ kpc'["load"] = "lock_ll" /\ DOMAIN req' = Task
        /\ \A u \in Task \ {"load"} : apc'[u] = apc[u] /\ image'[u] = image[u]
    BY <1>1, <1>4, <2>1
  <2>3. Ordered' /\ Rest'
    BY <1>2, <1>4, <2>1 DEF Ordered, Rest
  <2>4. LoadPhase'
    BY <2>2, <2>3 DEF LoadPhase, LoadCalled
  <2>5. TransposePhase' /\ Flags'
    BY <1>5, <2>1, <2>2 DEF IInv, Flags
  <2> QED
    BY <1>3, <1>4, <2>1, <2>2, <2>4, <2>5 DEF Ready, IocPlaces
<1>8. CASE LoadCompleted
  <2>1. /\ apc["load"] = "called" /\ apc' = [apc EXCEPT !["load"] = "completed"]
        /\ kpc' = [kpc EXCEPT !["load"] = "poll"] /\ UNCHANGED <<image, buf_in_empty, req>>
    BY <1>8 DEF LoadCompleted, AppGoto, App, Complete, Goto
  <2>2. /\ apc'["load"] = "completed" /\ kpc'["load"] = "poll"
        /\ \A u \in Task \ {"load"} : apc'[u] = apc[u] /\ image'[u] = image[u]
    BY <1>1, <2>1
  <2>3. Given'
    BY <1>2, <1>4, <2>1 DEF Given, Told, Moving, Raising, Signaled, Over, Stored
  <2>4. LoadPhase'
    BY <2>2, <2>3 DEF LoadPhase, LoadCompletes
  <2>5. TransposePhase' /\ Flags'
    BY <1>5, <2>1, <2>2 DEF IInv, Flags
  <2> QED
    BY <1>3, <1>4, <2>1, <2>4, <2>5 DEF Ready, IocPlaces
<1>9. CASE LoadEnd
  <2> DEFINE l == IF k + 1 < NImages THEN "wait" ELSE "exit"
  <2>1. /\ apc["load"] = "completed" /\ ret["load"] = 0 /\ buf_in_empty' = FALSE
        /\ image' = [image EXCEPT !["load"] = k + 1]
        /\ UNCHANGED <<kpc, req>>
        /\ apc' = [apc EXCEPT !["load"] = IF image'["load"] < NImages THEN "wait" ELSE "exit"]
    BY <1>9 DEF LoadEnd, NextImage, App, Kernel, iocVars
  <2>2. image'["load"] = k + 1 /\ k + 1 \in 0 .. NImages
    BY <1>1, <1>4, <2>1
  <2>3. apc' = [apc EXCEPT !["load"] = l] /\ l \in {"wait", "exit"} /\ (l /= "exit" => k + 1 < NImages)
    BY <2>1, <2>2
  <2> HIDE DEF l
  <2>4. apc'["load"] = l /\ \A u \in Task \ {"load"} : apc'[u] = apc[u] /\ image'[u] = image[u]
    BY <1>1, <2>1, <2>3
  <2>5. LoadPhase'
    BY <1>1, <1>2, <1>4, <2>1, <2>3, <2>4 DEF LoadPhase, Rest
  <2>6. buf_in_empty /\ k = Consumed /\ InHolds(Consumed)
    BY <1>4, <2>1 DEF IInv, Flags, Loaded
  <2>7. apc["transpose"] /= "call"
    BY <2>6 DEF IInv, TransposePhase
  <2>8. TransposePhase'
    BY <1>2, <1>5, <2>4, <2>7 DEF IInv, TransposePhase, OutHolds, Source
  <2>9. InHolds(Consumed)' /\ image'["load"] = Consumed' + 1
    BY <1>2, <1>5, <2>2, <2>4, <2>6 DEF InHolds
  <2>10. Flags'
    BY <1>2, <1>5, <2>1, <2>3, <2>4, <2>9 DEF IInv, Flags, OutHolds, Source
  <2> QED
    BY <1>3, <1>4, <2>1, <2>2, <2>3, <2>5, <2>8, <2>10 DEF Ready, IocPlaces
<1>10. ASSUME NEW l \in {"called", "completed"}, Failed("load", l)
       PROVE  IInv'
  <2>1. /\ apc["load"] = l /\ ret["load"] /= 0 /\ apc' = [apc EXCEPT !["load"] = "exit"]
        /\ UNCHANGED <<image, kpc, req, buf_in_empty>>
    BY <1>10 DEF Failed, App, AppGoto, Kernel, iocVars
  <2>2. apc["load"] = "completed" /\ Rest
    BY <1>4, <2>1
  <2>3. apc'["load"] = "exit" /\ \A u \in Task \ {"load"} : apc'[u] = apc[u] /\ image'[u] = image[u]
    BY <1>1, <2>1
  <2>4. LoadPhase'
    BY <1>1, <1>2, <2>1, <2>2, <2>3 DEF LoadPhase, Rest
  <2>5. TransposePhase' /\ Flags'
    BY <1>5, <2>1, <2>2, <2>3 DEF IInv, Flags
  <2> QED
    BY <1>3, <1>4, <2>1, <2>4, <2>5 DEF Ready, IocPlaces
<1> QED
  BY <1>6, <1>7, <1>8, <1>9, <1>10

LEMMA DisplayProgram ==
  ASSUME IInv, Synchro("display") \/ DisplayWrite \/ DisplayCompleted \/ DisplayEnd
               \/ \E l \in {"called", "completed"} : Failed("display", l)
  PROVE  IInv'
<1> USE Constants
<1> DEFINE k == image["display"]
<1>1. /\ DisplayPhase /\ Places /\ kpc["display"] = "user"
      /\ apc \in [Task -> Ready] /\ image \in [Task -> 0 .. NImages]
      /\ kpc \in [Task -> IocPlaces \cup FbPlaces] /\ ret \in [Task -> {0, 1}]
  BY DEF IInv, Types, TypeOK, Ready, Synchro, DisplayWrite, DisplayCompleted, DisplayEnd, Failed, App,
         FbSubmit, FbComplete, At, Places
<1>2. UNCHANGED <<isr, dev, ioc_done, ioc_status, step, disk, req, dma, dma_busy, dma_status, ret,
                  memory, pixel, buf_in_empty>>
  BY DEF Synchro, DisplayWrite, DisplayCompleted, DisplayEnd, Failed, Kernel, iocVars, fbVars,
         FbSubmit, FbComplete, Others
<1>3. ASSUME NEW l \in Ready, apc' = [apc EXCEPT !["display"] = l],
             NEW i \in 0 .. NImages, image' = [image EXCEPT !["display"] = i], l /= "exit" => i < NImages,
             NEW g \in FbPlaces, kpc' = [kpc EXCEPT !["display"] = g], DOMAIN fbuf' = Task,
             buf_out_empty' \in BOOLEAN,
             DisplayPhase', TransposePhase', Flags'
      PROVE  IInv'
  <2>1. /\ kpc' \in [Task -> IocPlaces \cup FbPlaces] /\ kpc'["display"] \in FbPlaces
        /\ kpc'["load"] = kpc["load"] /\ kpc'["transpose"] = kpc["transpose"]
    BY <1>1, <1>3
  <2>2. /\ Types' /\ Places'
        /\ \A u \in Task \ {"display"} : apc'[u] = apc[u] /\ image'[u] = image[u]
    BY <1>1, <1>2, <1>3, <2>1, ProgramTypes, ZenonT(30) DEF IInv, Places, Types, TypeOK
  <2>3. LoadPhase'
    BY <1>2, <2>1, <2>2, LoadSame DEF IInv, LoadView
  <2> QED
    BY <1>3, <2>2, <2>3 DEF IInv
<1>4. /\ kpc = [kpc EXCEPT !["display"] = "user"] /\ image = [image EXCEPT !["display"] = k]
      /\ DOMAIN fbuf = Task /\ buf_out_empty \in BOOLEAN /\ k \in 0 .. NImages
      /\ apc["display"] /= "exit" => k < NImages
      /\ apc["display"] \in {"wait", "call", "exit"} => Quiet
      /\ apc["display"] = "called" => ret["display"] = 0 /\ Copying
      /\ apc["display"] = "completed" => Quiet
  BY <1>1 DEF IInv, Types, TypeOK, Places, DisplayPhase, DisplayCalled, DisplayCompletes
<1>5. ASSUME \A u \in Task \ {"display"} : apc'[u] = apc[u] /\ image'[u] = image[u]
      PROVE  /\ UNCHANGED <<apc["load"], apc["transpose"], image["load"], image["transpose"]>>
             /\ UNCHANGED Consumed
             /\ UNCHANGED buf_out_empty => TransposePhase'
             /\ image' = image /\ UNCHANGED buf_out_empty /\ ~buf_out_empty => Flags'
  <2>1. UNCHANGED <<apc["load"], apc["transpose"], image["load"], image["transpose"]>>
    BY <1>5
  <2>2. UNCHANGED Consumed
    BY <2>1 DEF Consumed
  <2>3. UNCHANGED buf_out_empty => TransposePhase'
    BY <1>2, <2>1, TransposeSame DEF IInv, TransposeView
  <2>4. image' = image /\ UNCHANGED buf_out_empty /\ ~buf_out_empty => Flags'
    BY <1>2, <2>1, <2>2 DEF IInv, Flags, InHolds, OutHolds, Source
  <2> QED
    BY <2>1, <2>2, <2>3, <2>4
<1>6. CASE Synchro("display")
  <2>1. CASE buf_out_empty
    BY <1>6, <2>1, Stutter DEF Synchro, MayGo, vars, appVars, Kernel
  <2>2. CASE ~buf_out_empty
    <3>1. /\ apc["display"] = "wait" /\ apc' = [apc EXCEPT !["display"] = "call"]
          /\ UNCHANGED <<image, kpc, fbuf, buf_out_empty>>
      BY <1>6, <2>2 DEF Synchro, MayGo, AppGoto, App, Kernel, iocVars, fbVars
    <3>2. apc'["display"] = "call"
          /\ \A u \in Task \ {"display"} : apc'[u] = apc[u] /\ image'[u] = image[u]
      BY <1>1, <3>1
    <3>3. DisplayPhase'
      BY <1>1, <1>2, <1>4, <3>1, <3>2 DEF DisplayPhase, Quiet
    <3>4. TransposePhase' /\ Flags'
      BY <1>5, <2>2, <3>1, <3>2
    <3> QED
      BY <1>3, <1>4, <3>1, <3>3, <3>4 DEF Ready, FbPlaces
  <2> QED
    BY <2>1, <2>2
<1>7. CASE DisplayWrite
  <2>1. /\ apc["display"] = "call" /\ apc' = [apc EXCEPT !["display"] = "called"]
        /\ kpc' = [kpc EXCEPT !["display"] = "fb_poll"] /\ UNCHANGED <<image, buf_out_empty>>
        /\ fbuf' = [fbuf EXCEPT !["display"] = <<"buf_out", FrameBuffer>>]
    BY <1>7 DEF DisplayWrite, AppGoto, App, FbSubmit, Goto
  <2>2. /\ apc'["display"] = "called" /\ kpc'["display"] = "fb_poll" /\ DOMAIN fbuf' = Task
        /\ \A u \in Task \ {"display"} : apc'[u] = apc[u] /\ image'[u] = image[u]
    BY <1>1, <1>4, <2>1
  <2>3. Asked' /\ Quiet'
    BY <1>2, <1>4, <2>1 DEF Asked, Quiet
  <2>4. DisplayPhase'
    BY <2>2, <2>3 DEF DisplayPhase, DisplayCalled
  <2>5. TransposePhase' /\ Flags'
    BY <1>5, <2>1, <2>2 DEF IInv, Flags
  <2> QED
    BY <1>3, <1>4, <2>1, <2>2, <2>4, <2>5 DEF Ready, FbPlaces
<1>8. CASE DisplayCompleted
  <2>1. /\ apc["display"] = "called" /\ apc' = [apc EXCEPT !["display"] = "completed"]
        /\ kpc' = [kpc EXCEPT !["display"] = "fb_wait"] /\ UNCHANGED <<image, buf_out_empty, fbuf>>
    BY <1>8 DEF DisplayCompleted, AppGoto, App, FbComplete, Goto, fbVars
  <2>2. /\ apc'["display"] = "completed" /\ kpc'["display"] = "fb_wait"
        /\ \A u \in Task \ {"display"} : apc'[u] = apc[u] /\ image'[u] = image[u]
    BY <1>1, <2>1
  <2>3. Copying'
    BY <1>2, <1>4, <2>1 DEF Copying, Quiet, FrameIsOut
  <2>4. DisplayPhase'
    BY <2>2, <2>3 DEF DisplayPhase, DisplayCompletes
  <2>5. TransposePhase' /\ Flags'
    BY <1>5, <2>1, <2>2 DEF IInv, Flags
  <2> QED
    BY <1>3, <1>4, <2>1, <2>4, <2>5 DEF Ready, FbPlaces
<1>9. CASE DisplayEnd
  <2> DEFINE l == IF k + 1 < NImages THEN "wait" ELSE "exit"
  <2>1. /\ apc["display"] = "completed" /\ buf_out_empty' = TRUE
        /\ image' = [image EXCEPT !["display"] = k + 1]
        /\ UNCHANGED <<kpc, fbuf>>
        /\ apc' = [apc EXCEPT !["display"] = IF image'["display"] < NImages THEN "wait" ELSE "exit"]
    BY <1>9 DEF DisplayEnd, NextImage, App, Kernel, iocVars, fbVars
  <2>2. image'["display"] = k + 1 /\ k + 1 \in 0 .. NImages
    BY <1>1, <1>4, <2>1
  <2>3. apc' = [apc EXCEPT !["display"] = l] /\ l \in {"wait", "exit"} /\ (l /= "exit" => k + 1 < NImages)
    BY <2>1, <2>2
  <2> HIDE DEF l
  <2>4. apc'["display"] = l /\ \A u \in Task \ {"display"} : apc'[u] = apc[u] /\ image'[u] = image[u]
    BY <1>1, <2>1, <2>3
  <2>5. DisplayPhase'
    BY <1>1, <1>2, <1>4, <2>1, <2>3, <2>4 DEF DisplayPhase, Quiet
  <2>6. ~buf_out_empty /\ image["transpose"] = k + 1
    BY <1>4, <2>1 DEF IInv, Flags
  <2>7. TransposePhase'
    BY <1>2, <1>5, <2>1, <2>4 DEF IInv, TransposePhase, Copied, OutHolds, Source
  <2>8. Flags'
    BY <1>2, <1>5, <2>1, <2>2, <2>3, <2>4, <2>6 DEF IInv, Flags, InHolds
  <2> QED
    BY <1>3, <1>4, <2>1, <2>2, <2>3, <2>5, <2>7, <2>8 DEF Ready, FbPlaces
<1>10. ASSUME NEW l \in {"called", "completed"}, Failed("display", l)
       PROVE  IInv'
  <2>1. /\ apc["display"] = l /\ ret["display"] /= 0 /\ apc' = [apc EXCEPT !["display"] = "exit"]
        /\ UNCHANGED <<image, kpc, fbuf, buf_out_empty>>
    BY <1>10 DEF Failed, App, AppGoto, Kernel, iocVars, fbVars
  <2>2. apc["display"] = "completed" /\ Quiet
    BY <1>4, <2>1
  <2>3. apc'["display"] = "exit" /\ \A u \in Task \ {"display"} : apc'[u] = apc[u] /\ image'[u] = image[u]
    BY <1>1, <2>1
  <2>4. DisplayPhase'
    BY <1>1, <1>2, <2>1, <2>2, <2>3 DEF DisplayPhase, Quiet
  <2>5. TransposePhase' /\ Flags'
    BY <1>5, <2>1, <2>2, <2>3 DEF IInv, Flags
  <2> QED
    BY <1>3, <1>4, <2>1, <2>4, <2>5 DEF Ready, FbPlaces
<1> QED
  BY <1>6, <1>7, <1>8, <1>9, <1>10

LEMMA PixelStep ==
  ASSUME IInv, CopyPixel
  PROVE  IInv'
<1> USE Constants
<1> DEFINE l == pixel \div NSide
           p == pixel % NSide
           x == memory["buf_in"][p][l]
<1>1. /\ memory \in [Buffer -> [Side -> [Side -> Pixel]]] /\ pixel \in Nat
      /\ pixel < NSide * NSide /\ apc["transpose"] = "call" /\ pixel' = pixel + 1
      /\ memory' = [memory EXCEPT !["buf_out"][l][p] = x]
      /\ UNCHANGED <<buf_in_empty, buf_out_empty, apc, image, Kernel>>
  <2>1. NSide * NSide \in Nat
    OBVIOUS
  <2> QED
    BY <2>1 DEF IInv, Types, TypeOK, CopyPixel, App
<1>2. l \in Side /\ p \in Side /\ \A a, b \in Side : a * NSide + b = pixel => a = l /\ b = p
  BY <1>1, Pixels
<1> HIDE DEF l, p
<1>3. ~buf_in_empty /\ buf_out_empty /\ Copied
  BY <1>1 DEF IInv, TransposePhase
<1>4. x \in Pixel
  BY <1>1, <1>2
<1> HIDE DEF x
<1>5. /\ memory' \in [Buffer -> [Side -> [Side -> Pixel]]]
      /\ \A b \in Buffer \ {"buf_out"} : memory'[b] = memory[b]
      /\ memory'["buf_out"][l][p] = x
      /\ \A a, b \in Side : a /= l \/ b /= p => memory'["buf_out"][a][b] = memory["buf_out"][a][b]
  <2> DEFINE line == [memory["buf_out"][l] EXCEPT ![p] = x]
  <2>1. line \in [Side -> Pixel] /\ line[p] = x
        /\ \A b \in Side \ {p} : line[b] = memory["buf_out"][l][b]
    BY <1>1, <1>2, <1>4
  <2>2. memory' = [memory EXCEPT !["buf_out"][l] = line]
    BY <1>1
  <2> HIDE DEF line
  <2>3. /\ memory' \in [Buffer -> [Side -> [Side -> Pixel]]]
        /\ memory'["buf_out"][l] = line
        /\ \A a \in Side \ {l} : memory'["buf_out"][a] = memory["buf_out"][a]
        /\ \A b \in Buffer \ {"buf_out"} : memory'[b] = memory[b]
    BY <1>1, <1>2, <2>1, <2>2, LineWritten
  <2> QED
    BY <1>2, <2>1, <2>3
<1>6. Types' /\ Places'
  <2>1. pixel' \in 0 .. NSide * NSide
    <3>1. NSide * NSide \in Nat
      OBVIOUS
    <3> QED
      BY <1>1, <3>1
  <2> QED
    BY <1>1, <1>5, <2>1 DEF IInv, Types, TypeOK, Places, Kernel, iocVars, fbVars
<1>7. LoadPhase'
  BY <1>1, <1>5, LoadSame DEF IInv, LoadView, Kernel, iocVars
<1>8. DisplayPhase'
  <2>1. apc["display"] \in {"wait", "exit"}
    BY <1>3 DEF IInv, Types, TypeOK, Flags
  <2> QED
    BY <1>1, <2>1 DEF IInv, DisplayPhase, Quiet, Kernel, iocVars, fbVars
<1>9. TransposePhase'
  <2>1. ASSUME NEW a \in Side, NEW b \in Side, a * NSide + b < pixel'
        PROVE  memory'["buf_out"][a][b] = memory'["buf_in"][b][a]
    <3>1. memory'["buf_in"] = memory["buf_in"]
      BY <1>5
    <3>2. a * NSide + b = pixel \/ a * NSide + b < pixel
      BY <1>1, <2>1, PixelNumbers
    <3>3. CASE a = l /\ b = p
      BY <1>5, <3>1, <3>3 DEF x
    <3>4. CASE ~(a = l /\ b = p)
      <4>1. a * NSide + b < pixel
        BY <1>2, <3>2, <3>4
      <4>2. memory["buf_out"][a][b] = memory["buf_in"][b][a]
        BY <1>3, <4>1 DEF Copied
      <4>3. memory'["buf_out"][a][b] = memory["buf_out"][a][b]
        BY <1>5, <3>4
      <4> QED
        BY <3>1, <4>2, <4>3
    <3> QED
      BY <3>3, <3>4
  <2>2. Copied'
    BY <2>1 DEF Copied
  <2> QED
    BY <1>1, <1>3, <2>2 DEF TransposePhase
<1>10. Flags'
  BY <1>1, <1>3, <1>5 DEF IInv, Flags, Consumed, InHolds
<1> QED
  BY <1>6, <1>7, <1>8, <1>9, <1>10 DEF IInv

LEMMA TransposeProgram ==
  ASSUME IInv, Synchro("transpose") \/ TransposeInDone \/ TransposeOutDone
  PROVE  IInv'
<1> USE Constants
<1> DEFINE k == image["transpose"]
<1>1. /\ Places /\ TransposePhase /\ apc \in [Task -> Ready] /\ image \in [Task -> 0 .. NImages]
      /\ k \in 0 .. NImages /\ (apc["transpose"] /= "exit" => k < NImages)
      /\ image = [image EXCEPT !["transpose"] = k]
  BY DEF IInv, Types, TypeOK, Ready, Places
<1>2. UNCHANGED <<iocVars, disk, fbVars, memory>>
  BY DEF Synchro, TransposeInDone, TransposeOutDone, Kernel
<1>3. ASSUME NEW l \in Ready \ {"completed"}, apc' = [apc EXCEPT !["transpose"] = l],
             NEW i \in 0 .. NImages, image' = [image EXCEPT !["transpose"] = i], l /= "exit" => i < NImages,
             pixel' \in 0 .. NSide * NSide, buf_in_empty' \in BOOLEAN, buf_out_empty' \in BOOLEAN,
             TransposePhase', Flags'
      PROVE  IInv'
  <2>1. /\ Types' /\ Places'
        /\ \A u \in Task \ {"transpose"} : apc'[u] = apc[u] /\ image'[u] = image[u]
    BY <1>1, <1>2, <1>3, ProgramTypes DEF IInv, Places, Types, TypeOK, iocVars, fbVars
  <2>2. LoadPhase'
    BY <1>2, <2>1, LoadSame DEF IInv, LoadView, iocVars
  <2>3. DisplayPhase'
    BY <1>2, <2>1, DisplaySame DEF IInv, DisplayView, iocVars, fbVars
  <2> QED
    BY <1>3, <2>1, <2>2, <2>3 DEF IInv
<1>4. buf_in_empty \in BOOLEAN /\ buf_out_empty \in BOOLEAN /\ pixel \in 0 .. NSide * NSide
      /\ 0 \in 0 .. NSide * NSide
  <2>1. NSide * NSide \in Nat
    OBVIOUS
  <2> QED
    BY <2>1 DEF IInv, Types, TypeOK
<1>5. CASE Synchro("transpose")
  <2>1. CASE ~MayTranspose
    BY <1>5, <2>1, Stutter DEF Synchro, MayGo, vars, appVars, Kernel
  <2>2. CASE MayTranspose
    <3>1. /\ apc["transpose"] = "wait" /\ apc' = [apc EXCEPT !["transpose"] = "call"]
          /\ UNCHANGED <<image, buf_in_empty, buf_out_empty, pixel>>
      BY <1>5, <2>2 DEF Synchro, MayGo, AppGoto, App
    <3>2. apc'["transpose"] = "call" /\ \A u \in Task \ {"transpose"} : apc'[u] = apc[u]
      BY <1>1, <3>1
    <3>3. Copied'
      BY <1>1, <3>1, PixelNumbers, SMTT(30) DEF TransposePhase, Copied
    <3>4. TransposePhase'
      BY <2>2, <3>1, <3>2, <3>3 DEF TransposePhase, MayTranspose
    <3>5. Flags'
      BY <1>2, <3>1, <3>2 DEF IInv, Flags, Consumed, InHolds, OutHolds, Source
    <3> QED
      BY <1>1, <1>3, <1>4, <3>1, <3>4, <3>5 DEF Ready
  <2> QED
    BY <2>1, <2>2
<1>6. CASE TransposeInDone
  <2>1. /\ apc["transpose"] = "call" /\ pixel = NSide * NSide /\ buf_in_empty' = TRUE /\ pixel' = 0
        /\ apc' = [apc EXCEPT !["transpose"] = "called"] /\ UNCHANGED <<image, buf_out_empty>>
    BY <1>6 DEF TransposeInDone, App, AppGoto
  <2>2. apc'["transpose"] = "called" /\ \A u \in Task \ {"transpose"} : apc'[u] = apc[u]
    BY <1>1, <2>1
  <2>3. ~buf_in_empty /\ buf_out_empty /\ Copied
    BY <1>1, <2>1 DEF TransposePhase
  <2>4. InHolds(k) /\ image["load"] = k + 1
    BY <2>1, <2>3 DEF IInv, Flags, Consumed
  <2>5. OutHolds(k)
    <3>1. ASSUME NEW l \in Side, NEW p \in Side
          PROVE  memory["buf_out"][l][p] = Source(k, p, l)
      <4>1. memory["buf_out"][l][p] = memory["buf_in"][p][l]
        BY <2>1, <2>3, PixelNumbers DEF Copied
      <4> QED
        BY <2>4, <4>1 DEF InHolds, Line, Source
    <3> QED
      BY <3>1 DEF OutHolds
  <2>6. TransposePhase'
    BY <1>2, <2>1, <2>2, <2>3, <2>5 DEF TransposePhase, OutHolds, Source
  <2>7. Flags'
    BY <1>2, <2>1, <2>2, <2>3, <2>4 DEF IInv, Flags, Consumed
  <2> QED
    BY <1>1, <1>3, <1>4, <2>1, <2>6, <2>7 DEF Ready
<1>7. CASE TransposeOutDone
  <2> DEFINE l == IF k + 1 < NImages THEN "wait" ELSE "exit"
  <2>1. /\ apc["transpose"] = "called" /\ buf_out_empty' = FALSE
        /\ image' = [image EXCEPT !["transpose"] = k + 1] /\ UNCHANGED <<buf_in_empty, pixel>>
        /\ apc' = [apc EXCEPT !["transpose"] = IF image'["transpose"] < NImages THEN "wait" ELSE "exit"]
    BY <1>7 DEF TransposeOutDone, NextImage, App
  <2>2. image'["transpose"] = k + 1 /\ k + 1 \in 0 .. NImages
        /\ \A u \in Task \ {"transpose"} : image'[u] = image[u]
    BY <1>1, <2>1
  <2>3. apc' = [apc EXCEPT !["transpose"] = l] /\ l \in {"wait", "exit"} /\ (l /= "exit" => k + 1 < NImages)
    BY <2>1, <2>2
  <2> HIDE DEF l
  <2>4. apc'["transpose"] = l /\ \A u \in Task \ {"transpose"} : apc'[u] = apc[u]
    BY <1>1, <2>3
  <2>5. pixel = 0 /\ buf_out_empty /\ OutHolds(k)
    BY <1>1, <2>1 DEF TransposePhase
  <2>6. TransposePhase'
    BY <2>1, <2>3, <2>4, <2>5 DEF TransposePhase
  <2>7. Consumed' = Consumed
    BY <2>1, <2>2, <2>3, <2>4 DEF Consumed
  <2>8. image["display"] = k
    BY <2>5 DEF IInv, Flags
  <2>9. OutHolds(image["display"])'
    BY <1>2, <2>2, <2>5, <2>8 DEF OutHolds, Source
  <2>10. Flags'
    BY <1>2, <2>1, <2>2, <2>3, <2>4, <2>5, <2>7, <2>8, <2>9 DEF IInv, Flags, InHolds
  <2> QED
    BY <1>1, <1>3, <1>4, <2>1, <2>2, <2>3, <2>6, <2>10 DEF Ready
<1> QED
  BY <1>5, <1>6, <1>7

-------------------------------------------------------------------------------
LEMMA StepIInv == IInv /\ [Next]_vars => IInv'
<1> SUFFICES ASSUME IInv, [Next]_vars PROVE IInv'
  OBVIOUS
<1> USE Constants
<1>1. /\ kpc["load"] \in IocPlaces /\ kpc["display"] \in FbPlaces /\ kpc["transpose"] = "user"
      /\ \A t \in {"load", "transpose"} : dma[t].st = "IDLE"
  BY DEF IInv, Places
<1>2. ASSUME NEW t \in Task, Program(t) PROVE IInv'
  <2>1. CASE t = "load"
    BY <1>2, <2>1, LoadProgram DEF Program
  <2>2. CASE t = "display"
    BY <1>2, <2>2, DisplayProgram DEF Program
  <2>3. CASE t = "transpose"
    BY <1>2, <2>3, TransposeProgram, PixelStep DEF Program
  <2> QED
    BY <2>1, <2>2, <2>3
<1>3. ASSUME NEW t \in Task, Driver(t), UNCHANGED <<fbVars, appVars>> PROVE IInv'
  <2>1. t = "load"
    BY <1>1, <1>3 DEF Driver, LockLL, LockSC, Configure, Poll, TestStatus, ResetDone, Unlock, At, FbPlaces
  <2> QED
    BY <1>3, <2>1, LoadDriver
<1>4. ASSUME NEW t \in Task, FbDriver(t), UNCHANGED appVars PROVE IInv'
  <2>1. t = "display"
    BY <1>1, <1>4 DEF FbDriver, FbPoll, FbClaim, FbStart, FbWait, At, IocPlaces
  <2> QED
    BY <1>4, <2>1, DisplayDriver
<1>5. ASSUME NEW t \in Task, IsrDma(t) \/ DmaStep(t), UNCHANGED appVars PROVE IInv'
  <2>1. t = "display"
    BY <1>1, <1>5 DEF IsrDma, DmaStep, DmaMove, DmaEnd
  <2> QED
    BY <1>5, <2>1, DmaMoves
<1>6. CASE UNCHANGED vars
  BY <1>6, Stutter
<1> QED
  BY <1>2, <1>3, <1>4, <1>5, <1>6, IocMoves DEF Next, TaskStep, Isr, Devices, AllExited

LEMMA Invariance == Spec => []IInv
BY InitIInv, StepIInv, PTL DEF Spec

(***************************************************************************)
(* The flags, the places of the tasks, the DMA channels and the buffers    *)
(* stay in their ranges, for any number and size of images.                *)
(***************************************************************************)
THEOREM PipelineTypeAlwaysOK == Spec => []TypeOK
<1>1. IInv => TypeOK
  BY DEF IInv, Types
<1> QED
  BY <1>1, Invariance, PTL

(***************************************************************************)
(* The flags of soft_transpose keep the disk out of buf_in while it is     *)
(* full, the DMA out of buf_out while it is empty, and the transposition   *)
(* between the two, for any number and size of images.                     *)
(***************************************************************************)
THEOREM BuffersAlwaysHeld == Spec => []BuffersHeld
<1>1. ASSUME IInv PROVE BuffersHeld
  <2>1. dev.status = "BUSY" => buf_in_empty
    <3>1. dev.status = "BUSY" => ~Rest
      BY DEF Rest
    <3> QED
      BY <1>1, <3>1, NotAtRest
  <2>2. dma["display"].st = "BUSY" => ~buf_out_empty
    <3>1. apc["display"] \in {"wait", "call", "called", "completed", "exit"}
      BY <1>1, Constants DEF IInv, Types, TypeOK
    <3> QED
      BY <1>1, <3>1 DEF IInv, DisplayPhase, Quiet, Flags
  <2>3. pixel > 0 => ~buf_in_empty /\ buf_out_empty
    BY <1>1 DEF IInv, TransposePhase
  <2> QED
    BY <2>1, <2>2, <2>3 DEF BuffersHeld
<1> QED
  BY <1>1, Invariance, PTL

(***************************************************************************)
(* What the display task has seen completed is the transposed image of its *)
(* own number: none is lost, repeated or torn, for any number and size of  *)
(* images, whatever transfers fail.                                        *)
(***************************************************************************)
THEOREM FramesAlwaysInOrder == Spec => []FramesInOrder
<1>1. ASSUME IInv PROVE FramesInOrder
  <2> SUFFICES ASSUME App("display", "completed"), ret["display"] = 0, NEW l \in Side, NEW p \in Side
               PROVE  memory[FrameBuffer][l][p] = Source(image["display"], p, l)
    BY DEF FramesInOrder
  <2>1. FrameIsOut
    BY <1>1 DEF App, IInv, DisplayPhase, DisplayCompletes
  <2>2. OutHolds(image["display"])
    BY <1>1 DEF App, IInv, Flags
  <2> QED
    BY <2>1, <2>2 DEF FrameIsOut, OutHolds
<1> QED
  BY <1>1, Invariance, PTL
===============================================================================
