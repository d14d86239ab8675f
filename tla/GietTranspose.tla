----------------------------- MODULE GietTranspose -----------------------------
(***************************************************************************)
(* The pipeline of TP5 (soft_transpose/main.c): three tasks on three       *)
(* processors load images from the disk, transpose them and display them,  *)
(* through two buffers in memory and two flags.  It runs on the drivers of *)
(* GietIoc and GietFb, their interrupt routines and devices.               *)
(***************************************************************************)
EXTENDS GietFb

CONSTANTS NImages,      \* NIMAGES
          NSide,        \* NLINES = NPIXELS: a block is a line of an image
          BlankPixel    \* what the buffers hold at the start

Side == 0 .. NSide - 1

Pixel == {BlankPixel} \cup UNION { {Disk[i][p] : p \in Side} : i \in 1 .. Len(Disk) }

ASSUME TransposeAssumption ==
  /\ Task = {"load", "transpose", "display"}
  /\ UserBuffer = {"buf_in", "buf_out"}
  /\ NImages \in Nat \ {0} /\ NSide = NbBlocks /\ Len(Disk) = NImages * NSide
  /\ Disk \in Seq([Side -> Pixel])

VARIABLES buf_in_empty, buf_out_empty,
          apc,          \* where each task is in its loop
          image,        \* the local variable image of each task
          pixel         \* l * NSide + p, the progress of the transposition

appVars == <<buf_in_empty, buf_out_empty, apc, image, pixel>>
vars    == <<iocVars, memory, disk, fbVars, appVars>>

Blank == [p \in Side |-> BlankPixel]

Init ==
  /\ IocInit /\ FbInit
  /\ memory = [b \in Buffer |-> [l \in Side |-> Blank]]
  /\ buf_in_empty = TRUE /\ buf_out_empty = TRUE
  /\ apc = [t \in Task |-> "wait"] /\ image = [t \in Task |-> 0]
  /\ pixel = 0

App(t, l) == Running(t) /\ kpc[t] = "user" /\ apc[t] = l

AppGoto(t, l) == apc' = [apc EXCEPT ![t] = l] /\ image' = image

(* The end of the loop's body.                                             *)
NextImage(t) ==
  /\ image' = [image EXCEPT ![t] = @ + 1]
  /\ apc' = [apc EXCEPT ![t] = IF image'[t] < NImages THEN "wait" ELSE "exit"]

Kernel == <<iocVars, disk, fbVars>>

-------------------------------------------------------------------------------
(* The conditions of the synchronisation loops.                            *)
MayTransposeEarly == ~buf_in_empty

MayTranspose == ~buf_in_empty /\ buf_out_empty

MayGo(t) ==
  CASE t = "load"      -> buf_in_empty
    [] t = "transpose" -> MayTranspose
    [] t = "display"   -> ~buf_out_empty

Synchro(t) ==
  /\ App(t, "wait")
  /\ IF MayGo(t) THEN AppGoto(t, "call") ELSE UNCHANGED <<apc, image>>
  /\ UNCHANGED <<buf_in_empty, buf_out_empty, pixel, memory, Kernel>>

LoadRead ==
  /\ App("load", "call")
  /\ Submit("load", [op |-> "READ", lba |-> image["load"] * NbBlocks, buffer |-> "buf_in"])
  /\ AppGoto("load", "called")
  /\ UNCHANGED <<buf_in_empty, buf_out_empty, pixel, fbVars>>

DisplayWrite ==
  /\ App("display", "call")
  /\ FbSubmit("display", "buf_out", FrameBuffer)
  /\ AppGoto("display", "called")
  /\ UNCHANGED <<buf_in_empty, buf_out_empty, pixel>>

(* An error is reported by the task, which then exits.                     *)
Failed(t, l) ==
  /\ App(t, l) /\ ret[t] /= 0
  /\ AppGoto(t, "exit")
  /\ UNCHANGED <<buf_in_empty, buf_out_empty, pixel, memory, Kernel>>

LoadCompleted ==
  /\ App("load", "called") /\ ret["load"] = 0
  /\ Complete("load")
  /\ AppGoto("load", "completed")
  /\ UNCHANGED <<buf_in_empty, buf_out_empty, pixel, fbVars>>

DisplayCompleted ==
  /\ App("display", "called") /\ ret["display"] = 0
  /\ FbComplete("display")
  /\ AppGoto("display", "completed")
  /\ UNCHANGED <<buf_in_empty, buf_out_empty, pixel>>

LoadEnd ==
  /\ App("load", "completed") /\ ret["load"] = 0
  /\ buf_in_empty' = FALSE
  /\ NextImage("load")
  /\ UNCHANGED <<buf_out_empty, pixel, memory, Kernel>>

DisplayEnd ==
  /\ App("display", "completed") /\ ret["display"] = 0
  /\ buf_out_empty' = TRUE
  /\ NextImage("display")
  /\ UNCHANGED <<buf_in_empty, pixel, memory, Kernel>>

(* buf_out[l][p] = buf_in[p][l], pixel after pixel.                        *)
CopyPixel ==
  LET l == pixel \div NSide
      p == pixel % NSide
  IN  /\ App("transpose", "call") /\ pixel < NSide * NSide
      /\ memory' = [memory EXCEPT !["buf_out"][l][p] = memory["buf_in"][p][l]]
      /\ pixel' = pixel + 1
      /\ UNCHANGED <<buf_in_empty, buf_out_empty, apc, image, Kernel>>

TransposeInDone ==
  /\ App("transpose", "call") /\ pixel = NSide * NSide
  /\ buf_in_empty' = TRUE /\ pixel' = 0
  /\ AppGoto("transpose", "called")
  /\ UNCHANGED <<buf_out_empty, memory, Kernel>>

TransposeOutDone ==
  /\ App("transpose", "called")
  /\ buf_out_empty' = FALSE
  /\ NextImage("transpose")
  /\ UNCHANGED <<buf_in_empty, pixel, memory, Kernel>>

Program(t) ==
  \/ Synchro(t)
  \/ t = "load" /\ (LoadRead \/ LoadCompleted \/ LoadEnd)
  \/ t = "display" /\ (DisplayWrite \/ DisplayCompleted \/ DisplayEnd)
  \/ t = "transpose" /\ (CopyPixel \/ TransposeInDone \/ TransposeOutDone)
  \/ t \in {"load", "display"} /\ \E l \in {"called", "completed"} : Failed(t, l)

TaskStep(t) ==
  \/ Program(t)
  \/ Driver(t) /\ UNCHANGED <<fbVars, appVars>>
  \/ FbDriver(t) /\ UNCHANGED appVars

Isr ==
  \/ (IsrStatus \/ IsrDone) /\ UNCHANGED <<fbVars, appVars>>
  \/ \E t \in Task : IsrDma(t) /\ UNCHANGED appVars

Devices ==
  \/ Device /\ UNCHANGED <<fbVars, appVars>>
  \/ \E t \in Task : DmaStep(t) /\ UNCHANGED appVars

(* The tasks that have exited loop for ever in _exit.                      *)
AllExited == (\A t \in Task : apc[t] = "exit") /\ UNCHANGED vars

Next == (\E t \in Task : TaskStep(t)) \/ Isr \/ Devices \/ AllExited

Spec ==
  /\ Init /\ [][Next]_vars
  /\ \A t \in Task : WF_vars(TaskStep(t))
  /\ WF_vars(Isr) /\ WF_vars(Devices)

-------------------------------------------------------------------------------
TypeOK ==
  /\ buf_in_empty \in BOOLEAN /\ buf_out_empty \in BOOLEAN
  /\ apc \in [Task -> {"wait", "call", "called", "completed", "exit"}]
  /\ image \in [Task -> 0 .. NImages] /\ pixel \in 0 .. NSide * NSide
  /\ dma \in [Task -> DmaReg]
  /\ dma_busy \in [Task -> {0, 1}] /\ dma_status \in [Task -> {0, 1}]
  /\ memory \in [Buffer -> [Side -> [Side -> Pixel]]]

(* Pixel p of line l of the k-th image of the disk.                        *)
Source(k, l, p) == Disk[k * NSide + l + 1][p]

(***************************************************************************)
(* A device never moves a buffer that a task or another device is using:   *)
(* the disk fills buf_in only while it is empty, and the DMA reads buf_out *)
(* only while it is full, so that nobody writes what somebody reads.       *)
(***************************************************************************)
BuffersHeld ==
  /\ dev.status = "BUSY" => buf_in_empty
  /\ dma["display"].st = "BUSY" => ~buf_out_empty
  /\ pixel > 0 => ~buf_in_empty /\ buf_out_empty

(***************************************************************************)
(* The images go through the pipeline in order, none is lost, repeated or  *)
(* torn: what the display task has just seen completed is the transposed   *)
(* image of its own number.                                                *)
(***************************************************************************)
FramesInOrder ==
  App("display", "completed") /\ ret["display"] = 0 =>
    \A l, p \in Side : memory[FrameBuffer][l][p] = Source(image["display"], p, l)

(***************************************************************************)
(* Every image is displayed, unless a device reports an error and the task *)
(* that finds it exits.                                                    *)
(***************************************************************************)
AllDisplayed ==
  <>( \/ image["display"] = NImages
      \/ \E t \in {"load", "display"} : apc[t] = "exit" /\ image[t] < NImages )
===============================================================================
