-------------------------------- MODULE GietIoc --------------------------------
(***************************************************************************)
(* The block device driver of the GIET: _ioc_read, _ioc_write and          *)
(* _ioc_completed (sys/drivers.c), the interrupt routine _isr_ioc          *)
(* (sys/irq_handler.c), and the VciBlockDevice they drive, which is not in *)
(* the repository and is modelled from the way the driver uses it.         *)
(*                                                                         *)
(* Each processor runs one task (NB_MAXTASKS is 1 in every config.h).  The *)
(* variables shared with the interrupt routine are uncached, so every load *)
(* or store of one, or of a device register, is a step.  The interrupt is  *)
(* routed to processor 0: its routine takes the place of IocTask, and runs *)
(* beside the tasks of the other processors.  Data caches are left out:    *)
(* memory is taken as coherent.                                            *)
(***************************************************************************)
EXTENDS Integers, Sequences

CONSTANTS Task,
          IocTask,      \* the task of processor 0
          UserBuffer,   \* the buffers that lie in user space
          KernelBuffer, \* and those that do not
          NbBlocks,     \* how many blocks a buffer holds
          Block,        \* the contents of a block
          Disk,         \* the contents of the disk at the start
          Outcomes      \* how a transfer may end: "SUCCESS", "ERROR"

Buffer == UserBuffer \cup KernelBuffer
Lba    == { b \in 0 .. Len(Disk) - 1 : b + NbBlocks <= Len(Disk) }

ASSUME IocAssumption ==
  /\ IocTask \in Task /\ UserBuffer \cap KernelBuffer = {}
  /\ NbBlocks \in Nat \ {0} /\ Disk \in Seq(Block)
  /\ Outcomes \subseteq {"SUCCESS", "ERROR"}

VARIABLES ioc_lock, ioc_done, ioc_status,       \* the globals of drivers.c
          link,         \* the tasks whose ll reservation on ioc_lock holds
          kpc,          \* where each task is in the driver, "user" if outside
          step,         \* the next register to write, in state "config"
          req, ret,     \* the arguments and the returned value
          isr,          \* where the interrupt routine is
          dev,          \* the registers of the device
          memory, disk  \* the user buffers and the disk, block by block

iocVars == <<ioc_lock, ioc_done, ioc_status, link, kpc, step, req, ret, isr, dev>>

Request == [op : {"READ", "WRITE"}, lba : Lba, buffer : Buffer]

NoRequest == [op |-> "NOOP", lba |-> 0, buffer |-> "none"]

IocInit ==
  /\ ioc_lock = 0 /\ ioc_done = 0 /\ ioc_status = "IDLE"
  /\ link = {}
  /\ kpc = [t \in Task |-> "user"] /\ step = [t \in Task |-> 1]
  /\ req = [t \in Task |-> NoRequest] /\ ret = [t \in Task |-> 0]
  /\ isr = "none"
  /\ dev = [status |-> "IDLE", BUFFER |-> "none", COUNT |-> 0, LBA |-> 0,
            IRQ_ENABLE |-> 0, OP |-> "NOOP", next |-> 0]
  /\ disk = [i \in 0 .. Len(Disk) - 1 |-> Disk[i + 1]]

(* A processor that handles the interrupt does not execute its task.       *)
Running(t) == t = IocTask => isr = "none"

At(t, l) == Running(t) /\ kpc[t] = l

Goto(t, l) == kpc' = [kpc EXCEPT ![t] = l]

Return(t, value) == Goto(t, "user") /\ ret' = [ret EXCEPT ![t] = value]

-------------------------------------------------------------------------------
(* _ioc_read and _ioc_write: entry and check of the buffer.                *)
Submit(t, r) ==
  /\ At(t, "user")
  /\ IF r.buffer \in KernelBuffer
     THEN Return(t, 1) /\ UNCHANGED req
     ELSE Goto(t, "lock_ll") /\ req' = [req EXCEPT ![t] = r] /\ ret' = ret
  /\ UNCHANGED <<ioc_lock, ioc_done, ioc_status, link, step, isr, dev, memory, disk>>

(* _ioc_get_lock.                                                          *)
LockLL(t) ==
  /\ At(t, "lock_ll")
  /\ link' = link \cup {t}
  /\ IF ioc_lock = 0 THEN Goto(t, "lock_sc") ELSE UNCHANGED kpc
  /\ UNCHANGED <<ioc_lock, ioc_done, ioc_status, step, req, ret, isr, dev, memory, disk>>

(* A store-conditional that is but a store.                                *)
LinkedAlways(t) == TRUE

(* The reservation has survived: nobody has stored to ioc_lock since ll.   *)
Linked(t) == t \in link

LockSC(t) ==
  /\ At(t, "lock_sc")
  /\ IF Linked(t)
     THEN /\ ioc_lock' = 1 /\ link' = {}
          /\ Goto(t, "config") /\ step' = [step EXCEPT ![t] = 1]
     ELSE Goto(t, "lock_ll") /\ UNCHANGED <<ioc_lock, link, step>>
  /\ UNCHANGED <<ioc_done, ioc_status, req, ret, isr, dev, memory, disk>>

(* A configuration that starts the device before it has told it what to do. *)
ConfigOpFirst == <<"OP", "BUFFER", "COUNT", "LBA", "IRQ_ENABLE">>

(* The configuration, register by register.  A start written to a device   *)
(* that is not idle is ignored.                                            *)
Config == <<"BUFFER", "COUNT", "LBA", "IRQ_ENABLE", "OP">>

(* The number of blocks is one short.                                      *)
WriteRegisterShort(r, reg) ==
  CASE reg = "BUFFER"     -> [dev EXCEPT !.BUFFER = r.buffer]
    [] reg = "COUNT"      -> [dev EXCEPT !.COUNT = NbBlocks - 1]
    [] reg = "LBA"        -> [dev EXCEPT !.LBA = r.lba]
    [] reg = "IRQ_ENABLE" -> [dev EXCEPT !.IRQ_ENABLE = 1]
    [] reg = "OP"         -> [dev EXCEPT !.OP = r.op, !.status = "BUSY", !.next = 0]

WriteRegister(r, reg) ==
  CASE reg = "BUFFER"     -> [dev EXCEPT !.BUFFER = r.buffer]
    [] reg = "COUNT"      -> [dev EXCEPT !.COUNT = NbBlocks]
    [] reg = "LBA"        -> [dev EXCEPT !.LBA = r.lba]
    [] reg = "IRQ_ENABLE" -> [dev EXCEPT !.IRQ_ENABLE = 1]
    [] reg = "OP"         -> IF dev.status = "IDLE"
                             THEN [dev EXCEPT !.OP = r.op, !.status = "BUSY", !.next = 0]
                             ELSE dev

Configure(t) ==
  /\ At(t, "config")
  /\ dev' = WriteRegister(req[t], Config[step[t]])
  /\ IF step[t] < Len(Config)
     THEN step' = [step EXCEPT ![t] = @ + 1] /\ UNCHANGED <<kpc, ret>>
     ELSE Return(t, 0) /\ UNCHANGED step
  /\ UNCHANGED <<ioc_lock, ioc_done, ioc_status, link, req, isr, memory, disk>>

-------------------------------------------------------------------------------
(* _ioc_completed.                                                         *)
Complete(t) ==
  /\ At(t, "user")
  /\ Goto(t, "poll")
  /\ UNCHANGED <<ioc_lock, ioc_done, ioc_status, link, step, req, ret, isr, dev, memory, disk>>

Poll(t) ==
  /\ At(t, "poll")
  /\ IF ioc_done = 0 THEN UNCHANGED kpc ELSE Goto(t, "status")
  /\ UNCHANGED <<ioc_lock, ioc_done, ioc_status, link, step, req, ret, isr, dev, memory, disk>>

TestStatus(t) ==
  /\ At(t, "status")
  /\ ret' = [ret EXCEPT ![t] = IF ioc_status \in {"READ_SUCCESS", "WRITE_SUCCESS"} THEN 0 ELSE 1]
  /\ Goto(t, "reset")
  /\ UNCHANGED <<ioc_lock, ioc_done, ioc_status, link, step, req, isr, dev, memory, disk>>

(* A completion that leaves the flag set for the next one.                 *)
ResetDoneForgotten(t) ==
  /\ At(t, "reset")
  /\ Goto(t, "unlock")
  /\ UNCHANGED <<ioc_lock, ioc_done, ioc_status, link, step, req, ret, isr, dev, memory, disk>>

ResetDone(t) ==
  /\ At(t, "reset")
  /\ ioc_done' = 0
  /\ Goto(t, "unlock")
  /\ UNCHANGED <<ioc_lock, ioc_status, link, step, req, ret, isr, dev, memory, disk>>

(* A completion that keeps the lock.                                       *)
UnlockForgotten(t) ==
  /\ At(t, "unlock")
  /\ Return(t, ret[t])
  /\ UNCHANGED <<ioc_lock, ioc_done, ioc_status, link, step, req, isr, dev, memory, disk>>

Unlock(t) ==
  /\ At(t, "unlock")
  /\ ioc_lock' = 0 /\ link' = {}
  /\ Return(t, ret[t])
  /\ UNCHANGED <<ioc_done, ioc_status, step, req, isr, dev, memory, disk>>

(* One step of task t in the driver.                                       *)
Driver(t) ==
  \/ LockLL(t) \/ LockSC(t) \/ Configure(t)
  \/ Poll(t) \/ TestStatus(t) \/ ResetDone(t) \/ Unlock(t)

-------------------------------------------------------------------------------
(* _isr_ioc: reading the status returns the device to idle and drops its   *)
(* interrupt.                                                              *)
Finished == {"READ_SUCCESS", "WRITE_SUCCESS", "READ_ERROR", "WRITE_ERROR"}

StatusOf(op, outcome) ==
  CASE op = "READ"  /\ outcome = "SUCCESS" -> "READ_SUCCESS"
    [] op = "READ"  /\ outcome = "ERROR"   -> "READ_ERROR"
    [] op = "WRITE" /\ outcome = "SUCCESS" -> "WRITE_SUCCESS"
    [] op = "WRITE" /\ outcome = "ERROR"   -> "WRITE_ERROR"

IsrStatus ==
  /\ isr = "none" /\ dev.status \in Finished /\ dev.IRQ_ENABLE = 1
  /\ ioc_status' = dev.status
  /\ dev' = [dev EXCEPT !.status = "IDLE"]
  /\ isr' = "done"
  /\ UNCHANGED <<ioc_lock, ioc_done, link, kpc, step, req, ret, memory, disk>>

IsrDone ==
  /\ isr = "done"
  /\ ioc_done' = 1
  /\ isr' = "none"
  /\ UNCHANGED <<ioc_lock, ioc_status, link, kpc, step, req, ret, dev, memory, disk>>

(* The device moves one block at a time, and may fail at any of them.      *)
Transfer ==
  /\ dev.status = "BUSY" /\ dev.next < dev.COUNT
  /\ IF dev.OP = "READ"
     THEN /\ memory' = [memory EXCEPT ![dev.BUFFER][dev.next] = disk[dev.LBA + dev.next]]
          /\ disk' = disk
     ELSE /\ disk' = [disk EXCEPT ![dev.LBA + dev.next] = memory[dev.BUFFER][dev.next]]
          /\ memory' = memory
  /\ dev' = [dev EXCEPT !.next = @ + 1]
  /\ UNCHANGED <<ioc_lock, ioc_done, ioc_status, link, kpc, step, req, ret, isr>>

Finish ==
  /\ dev.status = "BUSY"
  /\ \E outcome \in Outcomes :
        /\ outcome = "SUCCESS" => dev.next = dev.COUNT
        /\ dev' = [dev EXCEPT !.status = StatusOf(dev.OP, outcome)]
  /\ UNCHANGED <<ioc_lock, ioc_done, ioc_status, link, kpc, step, req, ret, isr, memory, disk>>

Device == Transfer \/ Finish
===============================================================================
