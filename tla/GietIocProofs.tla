----------------------------- MODULE GietIocProofs -----------------------------
(***************************************************************************)
(* Proofs about GietIocClients, for any tasks, requests and disk: one task *)
(* owns the block device at a time, and the owner's place in the driver    *)
(* says where its transfer is.                                             *)
(***************************************************************************)
EXTENDS GietIocClients, FiniteSetTheorems, TLAPS

(* Whoever is in the driver, or has a transfer to complete, asked for one. *)
Waiting ==
  \A t \in Task :
    /\ kpc[t] /= "user" \/ t \in waiting => req[t] \in Request
    /\ kpc[t] \in {"lock_ll", "lock_sc", "config"} => t \in waiting
    /\ kpc[t] \in {"poll", "status", "reset", "unlock"} => t \notin waiting

(* One owner, while the lock is taken.  An sc can only succeed if the lock *)
(* has stayed free since its ll.                                           *)
OneOwner ==
  /\ \A t, u \in Task : Owns(t) /\ Owns(u) => t = u
  /\ \A t \in Task : Owns(t) => ioc_lock = 1
  /\ ioc_lock = 1 => \E t \in Task : Owns(t)
  /\ \A t \in Task : kpc[t] = "lock_sc" /\ t \in link => ioc_lock = 0

-------------------------------------------------------------------------------
Success == {"READ_SUCCESS", "WRITE_SUCCESS"}

(* Where a transfer may be.                                                *)
Rest     == dev.status = "IDLE" /\ isr = "none" /\ ioc_done = 0
Moving   == dev.status = "BUSY" /\ isr = "none" /\ ioc_done = 0
Raising  == dev.status \in Finished /\ dev.status = last /\ isr = "none" /\ ioc_done = 0
Signaled == dev.status = "IDLE" /\ isr = "done" /\ ioc_done = 0 /\ ioc_status = last
Over     == dev.status = "IDLE" /\ isr = "none" /\ ioc_done = 1 /\ ioc_status = last

(* The registers task t has written so far, in the order of Config.        *)
Told(t, n) ==
  /\ n > 1 => dev.BUFFER = req[t].buffer
  /\ n > 2 => dev.COUNT = NbBlocks
  /\ n > 3 => dev.LBA = req[t].lba
  /\ n > 4 => dev.IRQ_ENABLE = 1
  /\ n > 5 => dev.OP = req[t].op

(* The blocks moved so far, which are all of them after a success.         *)
Moved(t) ==
  /\ \A i \in 0 .. NbBlocks - 1 :
       i < dev.next => memory[req[t].buffer][i] = disk[req[t].lba + i]
  /\ dev.status /= "BUSY" /\ last \in Success => dev.next = NbBlocks

Started(t) == Told(t, 6) /\ Moved(t)

Answered(t) == Started(t) /\ (ret[t] = 0 <=> last \in Success)

(* What the place of the owner says about the device.                      *)
Phase(t) ==
  /\ kpc[t] = "config" => Rest /\ Told(t, step[t])
  /\ kpc[t] = "poll" \/ (kpc[t] = "user" /\ t \in waiting) =>
       Started(t) /\ (Moving \/ Raising \/ Signaled \/ Over)
  /\ kpc[t] = "status" => Started(t) /\ Over
  /\ kpc[t] = "reset" => Answered(t) /\ Over
  /\ kpc[t] = "unlock" => Answered(t) /\ Rest

Phases == (\A t \in Task : Phase(t)) /\ (ioc_lock = 0 => Rest)

IInv == TypeOK /\ Waiting /\ OneOwner /\ Phases

LEMMA ConfigLength == Len(Config) = 5 /\ \A k \in 1 .. 5 : Config[k] = <<"BUFFER", "COUNT", "LBA", "IRQ_ENABLE", "OP">>[k]
BY DEF Config

LEMMA InitIInv == Init => IInv
<1> SUFFICES ASSUME Init PROVE IInv
  OBVIOUS
<1> USE DEF Init, IocInit
<1>1. 1 \in 1 .. Len(Config) /\ NbBlocks \in Nat /\ 0 \in 0 .. NbBlocks
  BY ConfigLength, IocAssumption
<1>2. dev \in [status : Status, BUFFER : Buffer \cup {"none"}, COUNT : {0, NbBlocks},
              LBA : Lba \cup {0}, IRQ_ENABLE : {0, 1}, OP : {"NOOP", "READ", "WRITE"},
              next : 0 .. NbBlocks]
  BY <1>1 DEF Status
<1>3. memory \in [Buffer -> [0 .. NbBlocks - 1 -> Contents]]
  BY DEF Contents
<1>4. disk \in [0 .. Len(Disk) - 1 -> Contents]
  <2>1. Len(Disk) \in Nat /\ \A i \in 1 .. Len(Disk) : Disk[i] \in Block
    BY IocAssumption
  <2>2. \A i \in 0 .. Len(Disk) - 1 : i + 1 \in 1 .. Len(Disk)
    BY <2>1
  <2> QED
    BY <2>1, <2>2 DEF Contents
<1>5. TypeOK
  BY <1>1, <1>2, <1>3, <1>4 DEF TypeOK, Status
<1>6. Waiting /\ OneOwner /\ Phases
  BY DEF Waiting, OneOwner, Phases, Phase, Owns, Rest
<1> QED
  BY <1>5, <1>6 DEF IInv

LEMMA AskKeeps ==
  ASSUME IInv, NEW t \in Task, Ask(t)
  PROVE  IInv'
<1> USE DEF IInv, Ask, Submit, Return, At, Goto
<1> DEFINE r == Requests[t][sent[t] + 1]
<1>1. r \in Request
  <2>1. Requests[t] \in Seq(Request) /\ sent[t] \in Nat /\ sent[t] < Len(Requests[t])
    BY RequestsAssumption DEF TypeOK
  <2> QED
    BY <2>1
<1> HIDE DEF r
<1>2. Submit(t, r) /\ t \notin waiting /\ kpc[t] = "user"
  BY DEF r
<1>3. UNCHANGED <<ioc_lock, ioc_done, ioc_status, link, step, isr, dev, memory, disk, last>>
  BY Zenon
<1>4. \/ kpc' = [kpc EXCEPT ![t] = "user"] /\ req' = req /\ waiting' = waiting /\ ret' = [ret EXCEPT ![t] = 1]
      \/ kpc' = [kpc EXCEPT ![t] = "lock_ll"] /\ req' = [req EXCEPT ![t] = r]
           /\ waiting' = waiting \cup {t} /\ ret' = ret
  BY <1>2 DEF TypeOK
<1>5. sent' = [sent EXCEPT ![t] = @ + 1]
  OBVIOUS
<1> USE <1>2
<1> HIDE DEF Ask, Submit
<1>6. TypeOK'
  <2>1. sent' \in [Task -> Nat]
    BY <1>5 DEF TypeOK
  <2>2. kpc' \in [Task -> {"user", "lock_ll", "lock_sc", "config", "poll", "status", "reset", "unlock"}]
    BY <1>4 DEF TypeOK
  <2>3. req' \in [Task -> Request \cup {NoRequest}]
    BY <1>1, <1>4 DEF TypeOK
  <2>4. ret' \in [Task -> {0, 1}]
    BY <1>4 DEF TypeOK
  <2>5. waiting' \subseteq Task
    BY <1>4 DEF TypeOK
  <2> QED
    BY <1>3, <2>1, <2>2, <2>3, <2>4, <2>5 DEF TypeOK
<1>7. Waiting'
  BY <1>1, <1>3, <1>4 DEF TypeOK, Waiting
<1>8. OneOwner'
  <2>1. \A u \in Task : Owns(u)' <=> Owns(u)
    BY <1>4 DEF TypeOK, Owns
  <2>2. \A u \in Task : kpc'[u] = "lock_sc" => kpc[u] = "lock_sc"
    BY <1>4 DEF TypeOK
  <2> QED
    BY <1>3, <2>1, <2>2 DEF OneOwner
<1>9. Phases'
  <2>1. ASSUME NEW u \in Task PROVE Phase(u)'
    <3>1. CASE u = t
      BY <1>3, <1>4, <3>1 DEF TypeOK, Phase
    <3>2. CASE u /= t
      <4>1. /\ kpc'[u] = kpc[u] /\ req'[u] = req[u] /\ (u \in waiting' <=> u \in waiting)
        BY <1>4, <3>2 DEF TypeOK
      <4>2. kpc[u] = "reset" \/ kpc[u] = "unlock" => ret'[u] = ret[u]
        BY <1>4, <3>2 DEF TypeOK
      <4> QED
        BY <1>3, <4>1, <4>2 DEF Phases, Phase, Rest, Moving, Raising, Signaled, Over, Told, Moved, Started, Answered
    <3> QED
      BY <3>1, <3>2
  <2> QED
    BY <1>3, <2>1 DEF Phases, Rest
<1> QED
  BY <1>6, <1>7, <1>8, <1>9

LEMMA LockSCKeeps ==
  ASSUME IInv, NEW t \in Task, LockSC(t), UNCHANGED <<sent, waiting, last>>
  PROVE  IInv'
<1> USE DEF IInv, LockSC, At, Goto
<1>1. TypeOK'
  <2>1. 1 \in 1 .. Len(Config)
    BY ConfigLength
  <2>2. kpc' \in [Task -> {"user", "lock_ll", "lock_sc", "config", "poll", "status", "reset", "unlock"}]
    BY DEF TypeOK
  <2>3. step' \in [Task -> 1 .. Len(Config)] /\ link' \subseteq Task /\ ioc_lock' \in {0, 1}
    BY <2>1 DEF TypeOK
  <2> QED
    BY <2>2, <2>3 DEF TypeOK
<1>2. Waiting'
  BY DEF TypeOK, Waiting
<1>3. CASE ~Linked(t)
  BY <1>1, <1>2, <1>3, SMTT(30) DEF TypeOK, OneOwner, Owns, Waiting, Phases, Phase, Rest, Moving, Raising, Signaled, Over, Told, Moved, Started, Answered
<1>4. CASE Linked(t)
  <2>1. ioc_lock = 0 /\ Rest
    BY <1>4 DEF Linked, OneOwner, Phases
  <2>2. \A u \in Task : ~Owns(u)
    BY <2>1 DEF OneOwner
  <2>3. ioc_lock' = 1 /\ link' = {} /\ kpc' = [kpc EXCEPT ![t] = "config"] /\ step' = [step EXCEPT ![t] = 1]
    BY <1>4
  <2>4. \A u \in Task : Owns(u)' <=> u = t
    BY <2>2, <2>3 DEF TypeOK, Owns
  <2>5. OneOwner'
    BY <2>3, <2>4 DEF OneOwner
  <2>6. ASSUME NEW u \in Task PROVE Phase(u)'
    <3>1. CASE u = t
      BY <2>1, <2>3, <3>1 DEF TypeOK, Phase, Rest, Told
    <3>2. CASE u /= t
      BY <2>4, <3>2 DEF Phase, Owns
    <3> QED
      BY <3>1, <3>2
  <2> QED
    BY <1>1, <1>2, <2>3, <2>5, <2>6 DEF Phases
<1> QED
  BY <1>3, <1>4

LEMMA ConfigureKeeps ==
  ASSUME IInv, NEW t \in Task, Configure(t), UNCHANGED <<sent, waiting, last>>
  PROVE  IInv'
<1> USE DEF IInv, Configure, Return, At, Goto
<1>1. kpc[t] = "config" /\ step[t] \in 1 .. 5 /\ req[t] \in Request /\ Rest /\ Told(t, step[t]) /\ Owns(t) /\ t \in waiting
  BY ConfigLength DEF TypeOK, Waiting, Phases, Phase, Owns
<1>2. \/ step[t] < 5 /\ step' = [step EXCEPT ![t] = @ + 1] /\ UNCHANGED <<kpc, ret>>
      \/ step[t] = 5 /\ kpc' = [kpc EXCEPT ![t] = "user"] /\ ret' = [ret EXCEPT ![t] = 0] /\ step' = step
  BY <1>1, ConfigLength
<1>3. \/ step[t] = 1 /\ dev' = [dev EXCEPT !.BUFFER = req[t].buffer]
      \/ step[t] = 2 /\ dev' = [dev EXCEPT !.COUNT = NbBlocks]
      \/ step[t] = 3 /\ dev' = [dev EXCEPT !.LBA = req[t].lba]
      \/ step[t] = 4 /\ dev' = [dev EXCEPT !.IRQ_ENABLE = 1]
      \/ step[t] = 5 /\ dev' = [dev EXCEPT !.OP = req[t].op, !.status = "BUSY", !.next = 0]
  BY <1>1, ConfigLength DEF WriteRegister, Rest
<1>4. UNCHANGED <<ioc_lock, ioc_done, ioc_status, link, req, isr, memory, disk>>
  OBVIOUS
<1> HIDE DEF Configure
<1>5. dev' \in [status : Status, BUFFER : Buffer \cup {"none"}, COUNT : {0, NbBlocks},
                LBA : Lba \cup {0}, IRQ_ENABLE : {0, 1}, OP : {"NOOP", "READ", "WRITE"},
                next : 0 .. NbBlocks]
  <2>1. NbBlocks \in Nat /\ 0 \in 0 .. NbBlocks
    BY IocAssumption
  <2>2. req[t].buffer \in Buffer /\ req[t].lba \in Lba /\ req[t].op \in {"READ", "WRITE"}
    BY <1>1 DEF Request
  <2>3. "BUSY" \in Status
    BY DEF Status
  <2>4. \/ dev' = [dev EXCEPT !.BUFFER = req[t].buffer]
        \/ dev' = [dev EXCEPT !.COUNT = NbBlocks]
        \/ dev' = [dev EXCEPT !.LBA = req[t].lba]
        \/ dev' = [dev EXCEPT !.IRQ_ENABLE = 1]
        \/ dev' = [dev EXCEPT !.OP = req[t].op, !.status = "BUSY", !.next = 0]
    BY <1>3
  <2> QED
    BY <2>1, <2>2, <2>3, <2>4, ZenonT(30) DEF TypeOK
<1>6. TypeOK'
  <2>1. step[t] < 5 => step[t] + 1 \in 1 .. Len(Config)
    BY <1>1, ConfigLength
  <2>2. step' \in [Task -> 1 .. Len(Config)]
    BY <1>2, <2>1 DEF TypeOK
  <2>3. kpc' \in [Task -> {"user", "lock_ll", "lock_sc", "config", "poll", "status", "reset", "unlock"}]
    BY <1>2 DEF TypeOK
  <2>4. ret' \in [Task -> {0, 1}]
    BY <1>2 DEF TypeOK
  <2> QED
    BY <1>4, <1>5, <2>2, <2>3, <2>4 DEF TypeOK
<1>7. Waiting'
  BY <1>1, <1>2, <1>4 DEF TypeOK, Waiting
<1>8. OneOwner' /\ Owns(t)' /\ ioc_lock' = 1
  BY <1>1, <1>2, <1>4, ZenonT(30) DEF TypeOK, OneOwner, Owns
<1>9. ASSUME NEW u \in Task PROVE Phase(u)'
  <2>1. CASE u /= t
    BY <1>8, <2>1 DEF Phase, Owns, OneOwner
  <2>2. CASE u = t /\ step[t] < 5
    <3>1. kpc'[t] = "config" /\ step'[t] = step[t] + 1
      <4>1. kpc[t] = "config" /\ step[t] \in Int
        BY <1>1
      <4>2. step' = [step EXCEPT ![t] = step[t] + 1] /\ kpc' = kpc
        BY <1>2, <2>2, <4>1
      <4> QED
        BY <4>1, <4>2 DEF TypeOK
    <3>2. Rest'
      BY <1>1, <1>3, <1>4, <2>2 DEF TypeOK, Rest
    <3>3. Told(t, step[t])'
      <4>1. req' = req /\ step[t] \in 1 .. 4
        BY <1>1, <1>4, <2>2
      <4>2. CASE step[t] = 1
        BY <1>1, <1>3, <3>1, <4>1, <4>2 DEF TypeOK, Told
      <4>3. CASE step[t] = 2
        BY <1>1, <1>3, <3>1, <4>1, <4>3 DEF TypeOK, Told
      <4>4. CASE step[t] = 3
        BY <1>1, <1>3, <3>1, <4>1, <4>4 DEF TypeOK, Told
      <4>5. CASE step[t] = 4
        BY <1>1, <1>3, <3>1, <4>1, <4>5 DEF TypeOK, Told
      <4> QED
        BY <4>1, <4>2, <4>3, <4>4, <4>5
    <3> QED
      BY <2>2, <3>1, <3>2, <3>3 DEF Phase
  <2>3. CASE u = t /\ step[t] = 5
    <3>1. kpc'[t] = "user" /\ dev' = [dev EXCEPT !.OP = req[t].op, !.status = "BUSY", !.next = 0]
      <4>1. kpc' = [kpc EXCEPT ![t] = "user"]
        BY <1>2, <2>3
      <4>2. dev' = [dev EXCEPT !.OP = req[t].op, !.status = "BUSY", !.next = 0]
        BY <1>3, <2>3
      <4> QED
        BY <4>1, <4>2 DEF TypeOK
    <3>2. Moving'
      BY <1>1, <1>4, <3>1 DEF TypeOK, Rest, Moving
    <3>3. Told(t, 6)'
      BY <1>1, <1>4, <2>3, <3>1 DEF TypeOK, Told
    <3>4. Moved(t)'
      BY <3>1, IocAssumption DEF TypeOK, Moved
    <3> QED
      BY <2>3, <3>1, <3>2, <3>3, <3>4 DEF Phase, Started
  <2> QED
    BY <1>1, <2>1, <2>2, <2>3
<1> QED
  BY <1>6, <1>7, <1>8, <1>9 DEF Phases

LEMMA AwaitKeeps ==
  ASSUME IInv, NEW t \in Task, Await(t)
  PROVE  IInv'
<1> USE DEF IInv, Await, Complete, At, Goto
<1>1. TypeOK'
  BY IocAssumption DEF TypeOK
<1>2. Waiting'
  BY DEF TypeOK, Waiting
<1>3. OneOwner'
  BY DEF TypeOK, OneOwner, Owns, Waiting
<1>4. Phases'
  BY DEF TypeOK, OneOwner, Owns, Waiting, Phases, Phase, Rest, Moving, Raising, Signaled, Over, Told, Moved, Started, Answered
<1> QED
  BY <1>1, <1>2, <1>3, <1>4

LEMMA LockLLKeeps ==
  ASSUME IInv, NEW t \in Task, LockLL(t), UNCHANGED <<sent, waiting, last>>
  PROVE  IInv'
<1> USE DEF IInv, LockLL, At, Goto
<1>1. TypeOK'
  BY IocAssumption, ZenonT(30) DEF TypeOK
<1>2. Waiting'
  BY DEF TypeOK, Waiting
<1>3. OneOwner'
  BY DEF TypeOK, OneOwner, Owns, Waiting
<1>4. Phases'
  BY DEF TypeOK, OneOwner, Owns, Waiting, Phases, Phase, Rest, Moving, Raising, Signaled, Over, Told, Moved, Started, Answered
<1> QED
  BY <1>1, <1>2, <1>3, <1>4

LEMMA PollKeeps ==
  ASSUME IInv, NEW t \in Task, Poll(t), UNCHANGED <<sent, waiting, last>>
  PROVE  IInv'
<1> USE DEF IInv, Poll, At, Goto
<1>1. TypeOK'
  BY IocAssumption DEF TypeOK
<1>2. Waiting'
  BY DEF TypeOK, Waiting
<1>3. OneOwner'
  BY SMTT(30) DEF TypeOK, OneOwner, Owns, Waiting
<1>4. Phases'
  BY DEF TypeOK, OneOwner, Owns, Waiting, Phases, Phase, Rest, Moving, Raising, Signaled, Over, Told, Moved, Started, Answered
<1> QED
  BY <1>1, <1>2, <1>3, <1>4

LEMMA TestStatusKeeps ==
  ASSUME IInv, NEW t \in Task, TestStatus(t), UNCHANGED <<sent, waiting, last>>
  PROVE  IInv'
<1> USE DEF IInv, TestStatus, At, Goto
<1>1. TypeOK'
  BY IocAssumption DEF TypeOK
<1>2. Waiting'
  BY DEF TypeOK, Waiting
<1>3. OneOwner'
  BY DEF TypeOK, OneOwner, Owns, Waiting
<1>4. Answered(t)' /\ Over'
  <2>1. Started(t) /\ Over
    BY DEF Phases, Phase
  <2>2. Started(t)' /\ Over'
    BY <2>1 DEF Started, Told, Moved, Over
  <2>3. ret'[t] = 0 <=> last \in Success
    BY <2>1 DEF TypeOK, Over, Success
  <2> QED
    BY <2>2, <2>3 DEF Answered
<1>5. Phases'
  <2>1. Owns(t) /\ kpc'[t] = "reset" /\ ioc_lock' = 1
    BY DEF TypeOK, Owns, OneOwner
  <2>2. ASSUME NEW u \in Task PROVE Phase(u)'
    BY <1>3, <1>4, <2>1 DEF TypeOK, OneOwner, Owns, Phase
  <2> QED
    BY <2>1, <2>2 DEF Phases
<1> QED
  BY <1>1, <1>2, <1>3, <1>5

LEMMA ResetDoneKeeps ==
  ASSUME IInv, NEW t \in Task, ResetDone(t), UNCHANGED <<sent, waiting, last>>
  PROVE  IInv'
<1> USE DEF IInv, ResetDone, At, Goto
<1>1. TypeOK'
  BY IocAssumption DEF TypeOK
<1>2. Waiting'
  BY DEF TypeOK, Waiting
<1>3. OneOwner'
  BY DEF TypeOK, OneOwner, Owns, Waiting
<1>4. Phases'
  BY DEF TypeOK, OneOwner, Owns, Waiting, Phases, Phase, Rest, Moving, Raising, Signaled, Over, Told, Moved, Started, Answered
<1> QED
  BY <1>1, <1>2, <1>3, <1>4

LEMMA UnlockKeeps ==
  ASSUME IInv, NEW t \in Task, Unlock(t), UNCHANGED <<sent, waiting, last>>
  PROVE  IInv'
<1> USE DEF IInv, Unlock, Return, At, Goto
<1>1. TypeOK'
  BY DEF TypeOK
<1>2. Waiting'
  BY DEF TypeOK, Waiting
<1>3. \A u \in Task : ~Owns(u)'
  BY DEF TypeOK, OneOwner, Owns, Waiting
<1>4. OneOwner'
  BY <1>3 DEF OneOwner
<1>5. Rest'
  BY DEF Phases, Phase, Rest
<1>6. Phases'
  BY <1>3, <1>5 DEF Phases, Phase, Owns
<1> QED
  BY <1>1, <1>2, <1>4, <1>6

-------------------------------------------------------------------------------
(* Steps of the interrupt routine and of the device: the lock is taken, as *)
(* the device is not at rest, and only the owner's phase is concerned.     *)
LEMMA OwnerActive ==
  ASSUME IInv, ~Rest
  PROVE  \E t \in Task :
           /\ Owns(t) /\ ioc_lock = 1 /\ \A u \in Task : Owns(u) => u = t
           /\ Phase(t) /\ kpc[t] \in {"user", "poll", "status", "reset"}
<1>1. ioc_lock = 1
  BY DEF IInv, TypeOK, Phases
<1>2. PICK t \in Task : Owns(t)
  BY <1>1 DEF IInv, OneOwner
<1>3. \A u \in Task : Owns(u) => u = t
  BY <1>2 DEF IInv, OneOwner
<1>4. Phase(t)
  BY DEF IInv, Phases
<1>5. kpc[t] \in {"user", "poll", "status", "reset"}
  BY <1>2, <1>4 DEF Owns, Phase
<1> QED
  BY <1>1, <1>2, <1>3, <1>4, <1>5

LEMMA OwnersKept ==
  ASSUME IInv, UNCHANGED <<ioc_lock, link, kpc, step, req, ret, sent, waiting>>, TypeOK',
         ioc_lock = 1, NEW t \in Task, \A u \in Task : Owns(u) => u = t, Phase(t)'
  PROVE  IInv'
<1>1. Waiting' /\ OneOwner'
  BY DEF IInv, Waiting, OneOwner, Owns
<1>2. ASSUME NEW u \in Task PROVE Phase(u)'
  <2>1. CASE u = t
    BY <2>1
  <2>2. CASE u /= t
    BY <2>2 DEF Phase, Owns
  <2> QED
    BY <2>1, <2>2
<1> QED
  BY <1>1, <1>2 DEF IInv, Phases

LEMMA IsrStatusKeeps ==
  ASSUME IInv, IsrStatus, UNCHANGED <<sent, waiting, last>>
  PROVE  IInv'
<1> USE DEF IsrStatus
<1>1. TypeOK'
  BY DEF IInv, TypeOK, Status
<1>2. ~Rest /\ ~Signaled /\ ~Over /\ ~Moving
  BY DEF Rest, Signaled, Over, Moving, Finished
<1>3. PICK t \in Task :
        /\ Owns(t) /\ ioc_lock = 1 /\ \A u \in Task : Owns(u) => u = t
        /\ Phase(t) /\ kpc[t] \in {"user", "poll", "status", "reset"}
  BY <1>2, OwnerActive
<1>4. kpc[t] \in {"user", "poll"} /\ Started(t) /\ Raising
  BY <1>2, <1>3 DEF Phase, Owns
<1>5. Signaled' /\ Started(t)'
  BY <1>4 DEF IInv, TypeOK, Raising, Signaled, Started, Told, Moved, Finished
<1>6. Phase(t)'
  BY <1>4, <1>5 DEF Phase
<1> QED
  BY <1>1, <1>3, <1>6, OwnersKept

LEMMA IsrDoneKeeps ==
  ASSUME IInv, IsrDone, UNCHANGED <<sent, waiting, last>>
  PROVE  IInv'
<1> USE DEF IsrDone
<1>1. TypeOK'
  BY DEF IInv, TypeOK
<1>2. ~Rest /\ ~Raising /\ ~Over /\ ~Moving
  BY DEF Rest, Raising, Over, Moving
<1>3. PICK t \in Task :
        /\ Owns(t) /\ ioc_lock = 1 /\ \A u \in Task : Owns(u) => u = t
        /\ Phase(t) /\ kpc[t] \in {"user", "poll", "status", "reset"}
  BY <1>2, OwnerActive
<1>4. kpc[t] \in {"user", "poll"} /\ Started(t) /\ Signaled
  BY <1>2, <1>3 DEF Phase, Owns
<1>5. Over' /\ Started(t)'
  BY <1>4 DEF Over, Signaled, Started, Told, Moved
<1>6. Phase(t)'
  BY <1>4, <1>5 DEF Phase
<1> QED
  BY <1>1, <1>3, <1>6, OwnersKept

(* While the device is busy, its owner waits for it.                       *)
LEMMA OwnerMoving ==
  ASSUME IInv, dev.status = "BUSY"
  PROVE  \E t \in Task :
           /\ ioc_lock = 1 /\ \A u \in Task : Owns(u) => u = t
           /\ kpc[t] \in {"user", "poll"} /\ Started(t) /\ Moving /\ req[t] \in Request
<1>1. ~Rest /\ ~Raising /\ ~Over /\ ~Signaled
  BY DEF Rest, Raising, Over, Signaled, Finished
<1>2. PICK t \in Task :
        /\ Owns(t) /\ ioc_lock = 1 /\ \A u \in Task : Owns(u) => u = t
        /\ Phase(t) /\ kpc[t] \in {"user", "poll", "status", "reset"}
  BY <1>1, OwnerActive
<1>3. kpc[t] \in {"user", "poll"} /\ Started(t) /\ Moving
  BY <1>1, <1>2 DEF Phase, Owns
<1>4. req[t] \in Request
  BY <1>2, <1>3 DEF IInv, Waiting, Owns
<1> QED
  BY <1>2, <1>3, <1>4

LEMMA TransferKeeps ==
  ASSUME IInv, Transfer, last' = dev'.status, UNCHANGED <<sent, waiting>>
  PROVE  IInv'
<1> USE DEF Transfer
<1>1. PICK t \in Task :
        /\ ioc_lock = 1 /\ \A u \in Task : Owns(u) => u = t
        /\ kpc[t] \in {"user", "poll"} /\ Started(t) /\ Moving /\ req[t] \in Request
  BY OwnerMoving
<1> DEFINE b == req[t].buffer
           l == req[t].lba
           n == dev.next
<1>2. b \in Buffer /\ l \in Lba /\ n \in 0 .. NbBlocks
  BY <1>1 DEF IInv, TypeOK, Request
<1>3. dev.BUFFER = b /\ dev.LBA = l /\ dev.COUNT = NbBlocks
  BY <1>1 DEF Started, Told
<1>4. NbBlocks \in Nat /\ Len(Disk) \in Nat
  BY IocAssumption
<1>5. n \in 0 .. NbBlocks - 1 /\ l \in Nat /\ l + NbBlocks <= Len(Disk)
  BY <1>2, <1>3, <1>4 DEF Lba
<1>6. \A i \in 0 .. NbBlocks - 1 : l + i \in 0 .. Len(Disk) - 1
  BY <1>4, <1>5
<1>7. dev' = [dev EXCEPT !.next = n + 1]
  OBVIOUS
<1>8. \/ memory' = [memory EXCEPT ![b][n] = disk[l + n]] /\ disk' = disk
      \/ disk' = [disk EXCEPT ![l + n] = memory[b][n]] /\ memory' = memory
  BY <1>3
<1>9. UNCHANGED <<ioc_lock, ioc_done, ioc_status, link, kpc, step, req, ret, isr>>
  OBVIOUS
<1> HIDE DEF b, l, n, Transfer
<1>10. memory[b][n] \in Contents /\ disk[l + n] \in Contents
  BY <1>2, <1>5, <1>6, ZenonT(30) DEF IInv, TypeOK
<1>11. TypeOK'
  <2>1. n + 1 \in 0 .. NbBlocks
    BY <1>4, <1>5
  <2>2. memory' \in [Buffer -> [0 .. NbBlocks - 1 -> Contents]]
    <3>1. memory[b] \in [0 .. NbBlocks - 1 -> Contents]
      BY <1>2 DEF IInv, TypeOK
    <3> DEFINE mb == [memory[b] EXCEPT ![n] = disk[l + n]]
    <3>2. mb \in [0 .. NbBlocks - 1 -> Contents]
      BY <1>10, <3>1
    <3>3. memory' = [memory EXCEPT ![b] = mb] \/ memory' = memory
      BY <1>8
    <3> HIDE DEF mb
    <3> QED
      BY <3>2, <3>3 DEF IInv, TypeOK
  <2>3. disk' \in [0 .. Len(Disk) - 1 -> Contents]
    BY <1>8, <1>10 DEF IInv, TypeOK
  <2>4. dev' \in [status : Status, BUFFER : Buffer \cup {"none"}, COUNT : {0, NbBlocks},
                  LBA : Lba \cup {0}, IRQ_ENABLE : {0, 1}, OP : {"NOOP", "READ", "WRITE"},
                  next : 0 .. NbBlocks]
    BY <1>7, <2>1 DEF IInv, TypeOK
  <2> QED
    BY <1>9, <2>2, <2>3, <2>4 DEF IInv, TypeOK
<1>12. Moved(t)'
  <2>1. dev'.next = n + 1 /\ dev'.status = "BUSY"
    BY <1>1, <1>7 DEF IInv, TypeOK, Moving
  <2>2. \A i \in 0 .. NbBlocks - 1 : i < n => memory[b][i] = disk[l + i]
    BY <1>1 DEF Started, Moved, b, l, n
  <2>3. \A i \in 0 .. NbBlocks - 1 : i < n + 1 => memory'[b][i] = disk'[l + i]
    <3> SUFFICES ASSUME NEW i \in 0 .. NbBlocks - 1, i < n + 1
                 PROVE  memory'[b][i] = disk'[l + i]
      OBVIOUS
    <3>1. i = n \/ i < n
      BY <1>4, <1>5
    <3>2. CASE memory' = [memory EXCEPT ![b][n] = disk[l + n]] /\ disk' = disk
      <4>1. memory'[b] = [memory[b] EXCEPT ![n] = disk[l + n]]
        BY <1>2, <3>2 DEF IInv, TypeOK
      <4>2. memory[b] \in [0 .. NbBlocks - 1 -> Contents]
        BY <1>2 DEF IInv, TypeOK
      <4> QED
        BY <2>2, <3>1, <3>2, <4>1, <4>2, ZenonT(30)
    <3>3. CASE disk' = [disk EXCEPT ![l + n] = memory[b][n]] /\ memory' = memory
      <4>1. l + i \in DOMAIN disk /\ l + n \in DOMAIN disk
        BY <1>5, <1>6 DEF IInv, TypeOK
      <4>2. l + i = l + n <=> i = n
        BY <1>5
      <4> QED
        BY <2>2, <3>1, <3>3, <4>1, <4>2
    <3> QED
      BY <1>8, <3>2, <3>3
  <2> QED
    BY <1>9, <2>1, <2>3 DEF Moved, b, l
<1>13. Started(t)' /\ Moving'
  BY <1>1, <1>7, <1>9, <1>12 DEF IInv, TypeOK, Started, Told, Moving
<1>14. Phase(t)'
  BY <1>1, <1>9, <1>13 DEF Phase
<1> QED
  BY <1>1, <1>9, <1>11, <1>14, OwnersKept

LEMMA FinishKeeps ==
  ASSUME IInv, Finish, last' = dev'.status, UNCHANGED <<sent, waiting>>
  PROVE  IInv'
<1> USE DEF Finish
<1>1. PICK t \in Task :
        /\ ioc_lock = 1 /\ \A u \in Task : Owns(u) => u = t
        /\ kpc[t] \in {"user", "poll"} /\ Started(t) /\ Moving /\ req[t] \in Request
  BY OwnerMoving
<1>2. PICK outcome \in Outcomes :
        /\ outcome = "SUCCESS" => dev.next = dev.COUNT
        /\ dev' = [dev EXCEPT !.status = StatusOf(dev.OP, outcome)]
  OBVIOUS
<1> DEFINE st == StatusOf(dev.OP, outcome)
<1>3. dev.OP \in {"READ", "WRITE"} /\ dev.COUNT = NbBlocks
  BY <1>1 DEF Started, Told, Request
<1>4. st \in Finished /\ (st \in Success => outcome = "SUCCESS")
  BY <1>3, IocAssumption DEF StatusOf, Finished, Success
<1>5. dev' = [dev EXCEPT !.status = st] /\ dev'.status = st
  BY <1>2 DEF IInv, TypeOK
<1>6. UNCHANGED <<ioc_lock, ioc_done, ioc_status, link, kpc, step, req, ret, isr, memory, disk>>
  OBVIOUS
<1> HIDE DEF st, Finish
<1>7. TypeOK'
  BY <1>4, <1>5, <1>6 DEF IInv, TypeOK, Status
<1>8. Raising'
  BY <1>1, <1>4, <1>5, <1>6 DEF Raising, Moving
<1>9. Started(t)'
  BY <1>1, <1>2, <1>3, <1>4, <1>5, <1>6 DEF IInv, TypeOK, Started, Told, Moved
<1>10. Phase(t)'
  BY <1>1, <1>6, <1>8, <1>9 DEF Phase
<1> QED
  BY <1>1, <1>6, <1>7, <1>10, OwnersKept

LEMMA StepIInv == IInv /\ [Next]_vars => IInv'
<1> SUFFICES ASSUME IInv, [Next]_vars PROVE IInv'
  OBVIOUS
<1>1. ASSUME NEW t \in Task, TaskStep(t) PROVE IInv'
  <2>1. CASE Ask(t) \/ Await(t)
    BY <2>1, AskKeeps, AwaitKeeps
  <2>2. CASE Driver(t) /\ UNCHANGED <<sent, waiting, last>>
    BY <2>2, LockLLKeeps, LockSCKeeps, ConfigureKeeps, PollKeeps, TestStatusKeeps,
       ResetDoneKeeps, UnlockKeeps DEF Driver
  <2> QED
    BY <1>1, <2>1, <2>2 DEF TaskStep
<1>2. CASE Isr
  BY <1>2, IsrStatusKeeps, IsrDoneKeeps DEF Isr
<1>3. CASE DeviceStep
  BY <1>3, TransferKeeps, FinishKeeps DEF DeviceStep, Device
<1>4. CASE UNCHANGED vars
  BY <1>4 DEF vars, iocVars, IInv, TypeOK, Waiting, OneOwner, Owns, Phases, Phase, Rest, Moving,
              Raising, Signaled, Over, Told, Moved, Started, Answered
<1> QED
  BY <1>1, <1>2, <1>3, <1>4 DEF Next, AllServed

-------------------------------------------------------------------------------
LEMMA IInvExclusive == IInv => ExclusiveAccess
<1> SUFFICES ASSUME IInv PROVE ExclusiveAccess
  OBVIOUS
<1> DEFINE O == {t \in Task : Owns(t)}
<1>1. CASE ioc_lock = 0
  <2>1. O = {}
    BY <1>1 DEF IInv, OneOwner
  <2>2. Cardinality(O) = 0
    BY <2>1, FS_EmptySet
  <2> QED
    BY <1>1, <2>2 DEF IInv, ExclusiveAccess, Phases, Rest
<1>2. CASE ioc_lock = 1
  <2>1. PICK t \in Task : Owns(t)
    BY <1>2 DEF IInv, OneOwner
  <2>2. O = {t}
    BY <2>1 DEF IInv, OneOwner
  <2>3. Cardinality(O) = 1
    BY <2>2, FS_Singleton
  <2> QED
    BY <1>2, <2>3 DEF ExclusiveAccess
<1> QED
  BY <1>1, <1>2 DEF IInv, TypeOK

LEMMA IInvOutcome == IInv => OwnOutcome
<1> SUFFICES ASSUME IInv, NEW t \in Task, kpc[t] \in {"reset", "unlock"}
             PROVE  /\ dev.OP = req[t].op /\ dev.BUFFER = req[t].buffer /\ dev.LBA = req[t].lba
                    /\ ret[t] = 0 <=> last \in {"READ_SUCCESS", "WRITE_SUCCESS"}
  BY DEF OwnOutcome
<1>1. Answered(t)
  BY DEF IInv, Phases, Phase
<1> QED
  BY <1>1 DEF Answered, Started, Told, Success

LEMMA IInvBlocksMoved == IInv => BlocksMoved
<1> SUFFICES ASSUME IInv, NEW t \in Task, kpc[t] \in {"reset", "unlock"}, ret[t] = 0,
                    NEW i \in 0 .. NbBlocks - 1
             PROVE  memory[req[t].buffer][i] = disk[req[t].lba + i]
  BY DEF BlocksMoved
<1>1. Answered(t) /\ dev.status = "IDLE"
  BY DEF IInv, Phases, Phase, Over, Rest
<1>2. dev.next = NbBlocks
  BY <1>1 DEF Answered, Started, Moved
<1>3. i < dev.next
  BY <1>2, IocAssumption
<1> QED
  BY <1>1, <1>3 DEF Answered, Started, Moved

LEMMA AlwaysIInv == Spec => []IInv
<1>1. Spec => Init /\ [][Next]_vars
  BY PTL DEF Spec
<1> QED
  BY <1>1, InitIInv, StepIInv, PTL

(* The driver, its interrupt routine and the device stay in their states:  *)
(* no register of the device ever holds what no request asked for.         *)
THEOREM IocTypeAlwaysOK == Spec => []TypeOK
<1>1. IInv => TypeOK
  BY DEF IInv
<1> QED
  BY <1>1, AlwaysIInv, PTL

(* However many tasks compete by ll and sc (_ioc_get_lock), the lock is    *)
(* held by exactly one task from its sc to the end of ioc_completed.       *)
THEOREM AlwaysExclusive == Spec => []ExclusiveAccess
BY AlwaysIInv, IInvExclusive, PTL

(* A task is told the outcome of its own transfer (_ioc_completed).        *)
THEOREM OutcomeAlwaysOwn == Spec => []OwnOutcome
BY AlwaysIInv, IInvOutcome, PTL

(* A transfer reported as a success has moved every one of its blocks,     *)
(* whatever the size of the buffers and of the disk.                       *)
THEOREM BlocksAlwaysMoved == Spec => []BlocksMoved
BY AlwaysIInv, IInvBlocksMoved, PTL
===============================================================================
