------------------------------ MODULE GietDisplay ------------------------------
(***************************************************************************)
(* The image viewer of TP4 (soft/main_display.c), one task on the only     *)
(* processor: at each key it loads the next image into tab and has the DMA *)
(* copy tab to the frame buffer.  Errors of the system calls are printed   *)
(* and otherwise ignored.                                                  *)
(***************************************************************************)
EXTENDS GietFb

CONSTANT NImages        \* 21 in the code

VARIABLES apc, index_img

vars == <<iocVars, memory, disk, fbVars, apc, index_img>>

Init ==
  /\ IocInit /\ FbInit
  /\ memory = [b \in Buffer |-> [i \in 0 .. NbBlocks - 1 |-> "blank"]]
  /\ apc = "key" /\ index_img = 0

App(l) == Running("main") /\ kpc["main"] = "user" /\ apc = l

(* tty_getc_irq returns a character; the loop skips those that are not     *)
(* positive, but goes on to the next image all the same.                   *)
Key ==
  /\ App("key")
  /\ apc' \in {"load", "next"}
  /\ UNCHANGED <<index_img, iocVars, memory, disk, fbVars>>

Load ==
  /\ App("load")
  /\ Submit("main", [op |-> "READ", lba |-> index_img * NbBlocks, buffer |-> "tab"])
  /\ apc' = "completed"
  /\ UNCHANGED <<index_img, fbVars>>

Completed ==
  /\ App("completed")
  /\ Complete("main")
  /\ apc' = "show"
  /\ UNCHANGED <<index_img, fbVars>>

Show ==
  /\ App("show")
  /\ FbSubmit("main", "tab", FrameBuffer)
  /\ apc' = "next"
  /\ UNCHANGED index_img

NextImage ==
  /\ App("next")
  /\ index_img' = (index_img + 1) % NImages
  /\ apc' = "key"
  /\ UNCHANGED <<iocVars, memory, disk, fbVars>>

TaskStep ==
  \/ Key \/ Load \/ Completed \/ Show \/ NextImage
  \/ Driver("main") /\ UNCHANGED <<fbVars, apc, index_img>>
  \/ FbDriver("main") /\ UNCHANGED <<apc, index_img>>

Isr ==
  \/ (IsrStatus \/ IsrDone) /\ UNCHANGED <<fbVars, apc, index_img>>
  \/ IsrDma("main") /\ UNCHANGED <<apc, index_img>>

Devices ==
  \/ Device /\ UNCHANGED <<fbVars, apc, index_img>>
  \/ DmaStep("main") /\ UNCHANGED <<apc, index_img>>

Next == TaskStep \/ Isr \/ Devices

Spec == Init /\ [][Next]_vars

-------------------------------------------------------------------------------
(***************************************************************************)
(* "The transfer completion is signaled by an IRQ, and must be tested by   *)
(* the fb_completed() function" (stdio.c:754): the buffer of a transfer to *)
(* the frame buffer is not loaded again before the transfer is complete.   *)
(***************************************************************************)
BufferFree ==
  dma["main"].st = "BUSY" =>
    ~ (dev.status = "BUSY" /\ dev.OP = "READ" /\ dev.BUFFER = dma["main"].SRC)
===============================================================================
