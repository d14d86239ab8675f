---------------------------- MODULE GietIocClients ----------------------------
(***************************************************************************)
(* Several tasks share the block device.  Each submits its requests one    *)
(* after the other and, as the programs of TP5 and TP6 do, calls           *)
(* ioc_completed after each request the driver has accepted.               *)
(***************************************************************************)
EXTENDS GietIoc, FiniteSets

CONSTANT Requests       \* Requests[t]: what task t asks for, in order

ASSUME RequestsAssumption == Requests \in [Task -> Seq(Request)]

VARIABLES sent,         \* how many requests each task has submitted
          waiting,      \* the tasks that have a transfer to complete
          last          \* history: the outcome of the latest transfer

vars == <<iocVars, memory, disk, sent, waiting, last>>

Init ==
  /\ IocInit
  /\ memory = [b \in Buffer |-> [i \in 0 .. NbBlocks - 1 |-> b]]
  /\ sent = [t \in Task |-> 0] /\ waiting = {} /\ last = "IDLE"

Ask(t) ==
  /\ t \notin waiting /\ sent[t] < Len(Requests[t])
  /\ Submit(t, Requests[t][sent[t] + 1])
  /\ sent' = [sent EXCEPT ![t] = @ + 1]
  /\ waiting' = IF kpc'[t] = "lock_ll" THEN waiting \cup {t} ELSE waiting
  /\ last' = last

Await(t) ==
  /\ t \in waiting
  /\ Complete(t)
  /\ waiting' = waiting \ {t}
  /\ UNCHANGED <<sent, last>>

TaskStep(t) ==
  \/ Ask(t) \/ Await(t)
  \/ Driver(t) /\ UNCHANGED <<sent, waiting, last>>

Isr == (IsrStatus \/ IsrDone) /\ UNCHANGED <<sent, waiting, last>>

DeviceStep ==
  /\ Device
  /\ last' = dev'.status
  /\ UNCHANGED <<sent, waiting>>

Served(t) == kpc[t] = "user" /\ t \notin waiting /\ sent[t] = Len(Requests[t])

AllServed == (\A t \in Task : Served(t)) /\ UNCHANGED vars

Next == (\E t \in Task : TaskStep(t)) \/ Isr \/ DeviceStep \/ AllServed

(* Processors execute their tasks and take their interrupts, and the       *)
(* device ends the transfers it has begun.                                 *)
Spec ==
  /\ Init /\ [][Next]_vars
  /\ \A t \in Task : WF_vars(TaskStep(t))
  /\ WF_vars(Isr) /\ WF_vars(DeviceStep)

-------------------------------------------------------------------------------
Status == {"IDLE", "BUSY"} \cup Finished

Contents == Block \cup Buffer

TypeOK ==
  /\ ioc_lock \in {0, 1} /\ ioc_done \in {0, 1} /\ ioc_status \in Status
  /\ link \subseteq Task
  /\ kpc \in [Task -> {"user", "lock_ll", "lock_sc", "config", "poll", "status", "reset", "unlock"}]
  /\ step \in [Task -> 1 .. Len(Config)]
  /\ req \in [Task -> Request \cup {NoRequest}] /\ ret \in [Task -> {0, 1}]
  /\ isr \in {"none", "done"}
  /\ dev \in [status : Status, BUFFER : Buffer \cup {"none"}, COUNT : {0, NbBlocks},
              LBA : Lba \cup {0}, IRQ_ENABLE : {0, 1}, OP : {"NOOP", "READ", "WRITE"},
              next : 0 .. NbBlocks]
  /\ memory \in [Buffer -> [0 .. NbBlocks - 1 -> Contents]]
  /\ disk \in [0 .. Len(Disk) - 1 -> Contents]
  /\ sent \in [Task -> Nat] /\ waiting \subseteq Task

(* A task owns the device from its sc to its release of the lock, in and   *)
(* out of the driver.                                                      *)
Owns(t) ==
  \/ kpc[t] \in {"config", "poll", "status", "reset", "unlock"}
  \/ kpc[t] = "user" /\ t \in waiting

(***************************************************************************)
(* "The _ioc_lock variable guaranties exclusive access to the device"      *)
(* (drivers.c:397): one owner at a time, the lock is taken exactly while   *)
(* there is one, and the device, its interrupt and the completion flag are *)
(* at rest while there is none.                                            *)
(***************************************************************************)
ExclusiveAccess ==
  /\ Cardinality({t \in Task : Owns(t)}) = ioc_lock
  /\ ioc_lock = 0 => dev.status = "IDLE" /\ isr = "none" /\ ioc_done = 0

(***************************************************************************)
(* A task about to release the device reports the outcome of the transfer  *)
(* it asked for and of no other: the registers hold its request, and the   *)
(* returned value is that of the latest transfer.                          *)
(***************************************************************************)
OwnOutcome ==
  \A t \in Task : kpc[t] \in {"reset", "unlock"} =>
    /\ dev.OP = req[t].op /\ dev.BUFFER = req[t].buffer /\ dev.LBA = req[t].lba
    /\ ret[t] = 0 <=> last \in {"READ_SUCCESS", "WRITE_SUCCESS"}

(* When success is reported, the blocks have moved, all of them.           *)
BlocksMoved ==
  \A t \in Task : kpc[t] \in {"reset", "unlock"} /\ ret[t] = 0 =>
    \A i \in 0 .. NbBlocks - 1 : memory[req[t].buffer][i] = disk[req[t].lba + i]

(* Every request of every task is answered: no completion is lost between  *)
(* the interrupt routine, the flag and the lock.                           *)
EveryRequestServed == \A t \in Task : <>Served(t)
===============================================================================
