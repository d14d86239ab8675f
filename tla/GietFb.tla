-------------------------------- MODULE GietFb --------------------------------
(***************************************************************************)
(* The DMA half of the frame buffer driver of the GIET: _fb_write,         *)
(* _fb_read and _fb_completed (sys/drivers.c) and _isr_dma                 *)
(* (sys/irq_handler.c), with the VciMultiDma they drive (external).        *)
(*                                                                         *)
(* Each processor has a DMA channel of its own, whose interrupt it takes   *)
(* itself: dma[t], dma_busy[t] and dma_status[t] are those of the          *)
(* processor of task t.  Nobody but that processor and its channel sees    *)
(* them, so the whole interrupt routine, which cannot be interrupted, is   *)
(* one step, and so are the writes to the four registers, of which the     *)
(* last one starts the transfer.                                           *)
(***************************************************************************)
EXTENDS GietIoc

CONSTANT FrameBuffer    \* the frame buffer, among the kernel's buffers

ASSUME FrameBufferAssumption == FrameBuffer \in KernelBuffer

VARIABLES dma_busy, dma_status, \* the globals of drivers.c
          fbuf,                 \* the arguments: source and destination
          dma                   \* the DMA channels

fbVars == <<dma_busy, dma_status, fbuf, dma>>

FbInit ==
  /\ dma_busy = [t \in Task |-> 0] /\ dma_status = [t \in Task |-> 0]
  /\ fbuf = [t \in Task |-> <<"none", "none">>]
  /\ dma = [t \in Task |-> [st |-> "IDLE", SRC |-> "none", DST |-> "none",
                            next |-> 0, status |-> 0]]

Others == UNCHANGED <<ioc_lock, ioc_done, ioc_status, link, step, req, isr, dev, disk>>

(* _fb_write: entry and check of the buffer (_fb_read swaps the couple).   *)
FbSubmit(t, src, dst) ==
  /\ At(t, "user")
  /\ IF {src, dst} \subseteq KernelBuffer
     THEN Return(t, 1) /\ UNCHANGED fbuf
     ELSE Goto(t, "fb_poll") /\ fbuf' = [fbuf EXCEPT ![t] = <<src, dst>>] /\ ret' = ret
  /\ UNCHANGED <<dma_busy, dma_status, dma, memory>> /\ Others

FbPoll(t) ==
  /\ At(t, "fb_poll")
  /\ IF dma_busy[t] /= 0 THEN UNCHANGED kpc ELSE Goto(t, "fb_claim")
  /\ UNCHANGED <<ret, fbVars, memory>> /\ Others

FbClaim(t) ==
  /\ At(t, "fb_claim")
  /\ dma_busy' = [dma_busy EXCEPT ![t] = 1]
  /\ Goto(t, "fb_start")
  /\ UNCHANGED <<ret, dma_status, fbuf, dma, memory>> /\ Others

FbStart(t) ==
  /\ At(t, "fb_start")
  /\ dma' = [dma EXCEPT ![t] = [st |-> "BUSY", SRC |-> fbuf[t][1], DST |-> fbuf[t][2],
                                next |-> 0, status |-> 0]]
  /\ Return(t, 0)
  /\ UNCHANGED <<dma_busy, dma_status, fbuf, memory>> /\ Others

(* _fb_completed.                                                          *)
FbComplete(t) ==
  /\ At(t, "user")
  /\ Goto(t, "fb_wait")
  /\ UNCHANGED <<ret, fbVars, memory>> /\ Others

(* A completion that does not wait.                                        *)
FbWaitNot(t) ==
  /\ At(t, "fb_wait")
  /\ Return(t, IF dma_status[t] /= 0 THEN 1 ELSE 0)
  /\ UNCHANGED <<fbVars, memory>> /\ Others

FbWait(t) ==
  /\ At(t, "fb_wait")
  /\ IF dma_busy[t] /= 0 THEN UNCHANGED <<kpc, ret>>
                         ELSE Return(t, IF dma_status[t] /= 0 THEN 1 ELSE 0)
  /\ UNCHANGED <<fbVars, memory>> /\ Others

FbDriver(t) == FbPoll(t) \/ FbClaim(t) \/ FbStart(t) \/ FbWait(t)

(* _isr_dma with the release left out.                                     *)
IsrDmaKeepsBusy(t) ==
  /\ Running(t) /\ dma[t].st = "END"
  /\ dma_status' = [dma_status EXCEPT ![t] = dma[t].status]
  /\ dma' = [dma EXCEPT ![t].st = "IDLE"]
  /\ UNCHANGED <<dma_busy, fbuf, kpc, ret, memory>> /\ Others

(* _isr_dma that saves the register as a length, not as a status.          *)
IsrDmaSavesLength(t) ==
  /\ Running(t) /\ dma[t].st = "END"
  /\ dma_status' = [dma_status EXCEPT ![t] = dma[t].next]
  /\ dma_busy' = [dma_busy EXCEPT ![t] = 0]
  /\ dma' = [dma EXCEPT ![t].st = "IDLE"]
  /\ UNCHANGED <<fbuf, kpc, ret, memory>> /\ Others

(* _isr_dma: save the status, release the channel, reset the interrupt.    *)
IsrDma(t) ==
  /\ Running(t) /\ dma[t].st = "END"
  /\ dma_status' = [dma_status EXCEPT ![t] = dma[t].status]
  /\ dma_busy' = [dma_busy EXCEPT ![t] = 0]
  /\ dma' = [dma EXCEPT ![t].st = "IDLE"]
  /\ UNCHANGED <<fbuf, kpc, ret, memory>> /\ Others

(* The channel moves one line at a time, or fails and raises its interrupt. *)
DmaMove(t) ==
  /\ dma[t].st = "BUSY" /\ dma[t].next < NbBlocks
  /\ memory' = [memory EXCEPT ![dma[t].DST][dma[t].next] = memory[dma[t].SRC][dma[t].next]]
  /\ dma' = [dma EXCEPT ![t].next = @ + 1]
  /\ UNCHANGED <<dma_busy, dma_status, fbuf, kpc, ret>> /\ Others

DmaEnd(t) ==
  /\ dma[t].st = "BUSY"
  /\ \E outcome \in Outcomes :
        /\ outcome = "SUCCESS" => dma[t].next = NbBlocks
        /\ dma' = [dma EXCEPT ![t].st = "END",
                              ![t].status = IF outcome = "SUCCESS" THEN 0 ELSE 1]
  /\ UNCHANGED <<dma_busy, dma_status, fbuf, kpc, ret, memory>> /\ Others

DmaStep(t) == DmaMove(t) \/ DmaEnd(t)

DmaReg == [st : {"IDLE", "BUSY", "END"}, SRC : Buffer \cup {"none"},
           DST : Buffer \cup {"none"}, next : 0 .. NbBlocks, status : {0, 1}]
===============================================================================
