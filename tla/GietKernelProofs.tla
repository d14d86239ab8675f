--------------------------- MODULE GietKernelProofs ---------------------------
(***************************************************************************)
(* Proofs about GietKernel, for any number of processors and tasks, any    *)
(* vectors and programs, and whatever the devices do: interrupts, system   *)
(* calls and switches of tasks never mix up the contexts.  About the       *)
(* memory maps of its platforms (PlatformMap), of any shape.  And about    *)
(* the characters that reach the programs on those platforms, and the      *)
(* numbers they write.                                                     *)
(***************************************************************************)
EXTENDS GietKernel, WellFoundedInduction, FiniteSetTheorems, TLAPS

Code == {"reset", "user", "sys", "int"} \X Int

Steps == Routines \cup {"demux", "restore", "_ctx_switch"}

Registers_ == [code : Code, sp : Int, temp : Int, epc : Code,
               um : BOOLEAN, exl : BOOLEAN, step : Steps \cup {"none", "eret"}]

Context == [sp : Int, temp : Int, epc : Code, um : BOOLEAN, exl : BOOLEAN, ra : {"restore", "eret"}]

Types ==
  /\ sys \in Systems
  /\ cpu \in [sys.procs -> Registers_]
  /\ intframe \in [Tasks(sys) -> [temp : Int, epc : Code]]
  /\ sysframe \in [Tasks(sys) -> [um : BOOLEAN, exl : BOOLEAN, epc : Code]]
  /\ ctx \in [Tasks(sys) -> Context]
  /\ cur \in [sys.procs -> Int]
  /\ vector \in [0 .. 31 -> Routines]

(* Each program is at one of its labels, and each kernel at a step.        *)
Labelled(t) ==
  /\ "at" \in DOMAIN kern[t] /\ "at" \in DOMAIN user[t]
  /\ user[t].at \in DOMAIN Calls[sys.program[t]]

Places ==
  /\ DOMAIN kern = Tasks(sys) /\ DOMAIN user = Tasks(sys)
  /\ \A t \in Tasks(sys) : Labelled(t)

-------------------------------------------------------------------------------
(* Task t left off at code, with um in SR.                                 *)
LeftOff(t, code, um) ==
  \/ code = <<"user", t[2]>> /\ um = TRUE /\ kern[t].at = "out"
  \/ /\ code = <<"sys", t[2]>> /\ um = FALSE /\ kern[t].at /= "out"
     /\ sysframe[t].um = TRUE /\ sysframe[t].epc = <<"user", t[2]>>

(* What _int_handler has saved of t is on its stack.                       *)
Stacked(t, um) == intframe[t].temp = t[2] /\ LeftOff(t, intframe[t].epc, um)

Resets(p) == cur[p] = 0 /\ cpu[p].sp = 0 /\ cpu[p].temp = 0 /\ kern[<<p, 0>>].at = "out"

Runs(p) ==
  /\ cpu[p].sp = cur[p] /\ cpu[p].temp = cur[p] /\ cpu[p].exl = FALSE
  /\ LeftOff(<<p, cur[p]>>, cpu[p].code, cpu[p].um)

Handles(p) ==
  /\ cpu[p].sp = cur[p]
  /\ \/ cpu[p].step \in Steps /\ Stacked(<<p, cur[p]>>, cpu[p].um)
     \/ /\ cpu[p].step = "eret" /\ cpu[p].temp = cur[p]
        /\ LeftOff(<<p, cur[p]>>, cpu[p].epc, cpu[p].um)

(* A task that waits for its turn will be resumed where it left off.       *)
Sleeps(t) ==
  /\ ctx[t].sp = t[2]
  /\ \/ ctx[t].ra = "restore" /\ Stacked(t, ctx[t].um)
     \/ ctx[t].ra = "eret" /\ ctx[t].temp = t[2] /\ LeftOff(t, ctx[t].epc, ctx[t].um)

Local(p) == 0 .. sys.tasks[p] - 1

Current(p) ==
  /\ Level_(p) = "reset" => Resets(p)
  /\ Level_(p) \in {"user", "sys"} => Runs(p)
  /\ Level_(p) = "int" => Handles(p)

Keeps(p) ==
  /\ cur[p] \in Local(p)
  /\ Current(p)
  /\ \A k \in Local(p) : k /= cur[p] => Sleeps(<<p, k>>)

IInv == Types /\ Places /\ \A p \in sys.procs : Keeps(p)

LEMMA TaskOf ==
  ASSUME sys \in Systems, NEW p \in sys.procs, NEW k
  PROVE  /\ sys.tasks[p] \in Nat \ {0}
         /\ k \in Local(p) <=> <<p, k>> \in Tasks(sys)
BY SystemsAssumption, SMT DEF Tasks, Local

LEMMA InvContext == IInv => ContextKept
<1> SUFFICES ASSUME IInv, NEW p \in sys.procs, Level_(p) \in {"user", "sys"}
             PROVE  LET k == cpu[p].code[2] IN
                      /\ cpu[p].sp = k /\ cpu[p].temp = k /\ cur[p] = k
                      /\ cpu[p].um = (Level_(p) = "user") /\ ~cpu[p].exl
                      /\ (Level_(p) = "user") = (kern[<<p, k>>].at = "out")
  BY DEF ContextKept
<1>1. Runs(p)
  BY DEF IInv, Keeps, Current
<1>2. CASE cpu[p].code = <<"user", cur[p]>> /\ cpu[p].um = TRUE /\ kern[<<p, cur[p]>>].at = "out"
  <2>1. Level_(p) = "user" /\ cpu[p].code[2] = cur[p]
    BY <1>2 DEF Level_
  <2>2. cpu[p].sp = cur[p] /\ cpu[p].temp = cur[p] /\ cpu[p].exl = FALSE
    BY <1>1 DEF Runs
  <2> QED
    BY <1>2, <2>1, <2>2, Zenon
<1>3. CASE cpu[p].code = <<"sys", cur[p]>> /\ cpu[p].um = FALSE /\ kern[<<p, cur[p]>>].at /= "out"
  <2>1. Level_(p) = "sys" /\ cpu[p].code[2] = cur[p]
    BY <1>3 DEF Level_
  <2>2. cpu[p].sp = cur[p] /\ cpu[p].temp = cur[p] /\ cpu[p].exl = FALSE
    BY <1>1 DEF Runs
  <2>3. "sys" /= "user"
    OBVIOUS
  <2> QED
    BY <1>3, <2>1, <2>2, <2>3, Zenon
<1> QED
  BY <1>1, <1>2, <1>3 DEF Runs, LeftOff

-------------------------------------------------------------------------------
(* What an action leaves alone of a task and of a processor.               *)
SameTask(t) ==
  /\ intframe'[t] = intframe[t] /\ sysframe'[t] = sysframe[t] /\ ctx'[t] = ctx[t]
  /\ kern'[t].at = kern[t].at

SameProcessor(p) ==
  /\ sys' = sys /\ cpu'[p] = cpu[p] /\ cur'[p] = cur[p]
  /\ \A k \in Local(p) : SameTask(<<p, k>>)

LEMMA SleepsKept ==
  ASSUME NEW t, Sleeps(t), SameTask(t)
  PROVE  Sleeps(t)'
BY DEF Sleeps, Stacked, LeftOff, SameTask

LEMMA KeepsElsewhere ==
  ASSUME sys \in Systems, NEW p \in sys.procs, Keeps(p), SameProcessor(p)
  PROVE  Keeps(p)'
<1>1. Local(p)' = Local(p) /\ 0 \in Local(p)
  <2>1. sys.tasks[p] \in Nat \ {0}
    BY TaskOf
  <2> QED
    BY <2>1 DEF Local, SameProcessor
<1>2. SameTask(<<p, cur[p]>>) /\ SameTask(<<p, 0>>)
  BY <1>1 DEF SameProcessor, Keeps
<1>3. Resets(p) => Resets(p)'
  BY <1>2 DEF Resets, SameProcessor, SameTask
<1>4. Runs(p) => Runs(p)'
  BY <1>2 DEF Runs, LeftOff, SameProcessor, SameTask
<1>5. Handles(p) => Handles(p)'
  BY <1>2 DEF Handles, Stacked, LeftOff, SameProcessor, SameTask
<1>6. Current(p)'
  BY <1>3, <1>4, <1>5 DEF Keeps, Current, Level_, SameProcessor
<1>7. ASSUME NEW k \in Local(p), k /= cur[p] PROVE Sleeps(<<p, k>>)'
  BY <1>7, SleepsKept DEF Keeps, SameProcessor
<1> QED
  BY <1>1, <1>6, <1>7 DEF Keeps, SameProcessor

(* A step of processor p: the others are as they were.                     *)
LEMMA KeepsEverywhere ==
  ASSUME IInv, NEW p \in sys.procs, sys' = sys, Types', Places', Keeps(p)',
         \A q \in sys.procs \ {p} : SameProcessor(q)
  PROVE  IInv'
<1>1. ASSUME NEW q \in sys.procs PROVE Keeps(q)'
  BY KeepsElsewhere DEF IInv, Types
<1> QED
  BY <1>1 DEF IInv

-------------------------------------------------------------------------------
LEMMA NextTask ==
  ASSUME NEW n \in Nat, n > 1, NEW k \in 0 .. n - 1
  PROVE  (k + 1) % n \in 0 .. n - 1 /\ (k + 1) % n /= k
<1>1. CASE k + 1 < n
  BY <1>1, SMT
<1>2. CASE k + 1 = n
  BY <1>2, SMT
<1> QED
  BY <1>1, <1>2, SMT

LEMMA NoCodeIsCode == NoCode \in Code /\ NoCode[1] = "reset"
BY DEF NoCode, Code

(* The registers at reset, and the context of a task that never ran.       *)
Reset == [code |-> NoCode, sp |-> 0, temp |-> 0, epc |-> NoCode,
          um |-> FALSE, exl |-> TRUE, step |-> "none"]

LEMMA ResetTyped == Reset \in Registers_
BY NoCodeIsCode, SMT DEF Reset, Registers_

LEMMA FirstContextFields ==
  ASSUME NEW k
  PROVE  /\ FirstContext(k).sp = k /\ FirstContext(k).temp = k
         /\ FirstContext(k).epc = <<"user", k>> /\ FirstContext(k).ra = "eret"
         /\ FirstContext(k).um = TRUE
BY Zenon DEF FirstContext

LEMMA FirstSleeps ==
  ASSUME NEW p, NEW k, ctx[<<p, k>>] = FirstContext(k), LeftOff(<<p, k>>, <<"user", k>>, TRUE)
  PROVE  Sleeps(<<p, k>>)
<1> DEFINE t == <<p, k>>
           c == FirstContext(k)
<1>1. c.sp = k /\ c.temp = k /\ c.epc = <<"user", k>> /\ c.ra = "eret" /\ c.um = TRUE
  BY FirstContextFields
<1>2. t[2] = k
  OBVIOUS
<1>3. ctx[t] = c
  OBVIOUS
<1>4. LeftOff(t, c.epc, c.um)
  BY <1>1, Zenon
<1> HIDE DEF t, c
<1>5. Sleeps(t)
  BY <1>1, <1>2, <1>3, <1>4, Zenon DEF Sleeps
<1> QED
  BY <1>5 DEF t

LEMMA InitIInv == Init => IInv
<1> SUFFICES ASSUME Init PROVE IInv
  OBVIOUS
<1> USE DEF Init, TaskInit, CallInit
<1>1. Types
  <2>1. \A t \in Tasks(sys) : FirstContext(t[2]) \in Context
    BY DEF Tasks, FirstContext, Context, Code
  <2>2. sys \in Systems /\ cur \in [sys.procs -> Int]
    OBVIOUS
  <2>3. cpu \in [sys.procs -> Registers_]
    <3>1. cpu = [p \in sys.procs |-> Reset]
      BY DEF Reset
    <3> QED
      BY <3>1, ResetTyped
  <2>4. intframe \in [Tasks(sys) -> [temp : Int, epc : Code]]
    BY NoCodeIsCode DEF Frame, Clobbered
  <2>5. sysframe \in [Tasks(sys) -> [um : BOOLEAN, exl : BOOLEAN, epc : Code]]
    BY NoCodeIsCode
  <2>6. vector \in [0 .. 31 -> Routines]
    BY DEF Routines
  <2>7. ctx \in [Tasks(sys) -> Context]
    BY <2>1
  <2> QED
    BY <2>2, <2>3, <2>4, <2>5, <2>6, <2>7 DEF Types
<1>2. Places
  <2> SUFFICES ASSUME NEW t \in Tasks(sys) PROVE Labelled(t)
    BY DEF Places
  <2>1. sys.program[t] \in DOMAIN Calls
    BY <1>1, SystemsAssumption DEF Types
  <2>2. "start" \in DOMAIN Calls[sys.program[t]]
    BY <2>1 DEF Calls, MainCalls, GcdCalls, NumberCalls, PrimeCalls, ReaderCalls
  <2> QED
    BY <2>2 DEF Labelled, Out, ProgramStart
<1>3. ASSUME NEW p \in sys.procs PROVE Keeps(p)
  <2>1. sys.tasks[p] \in Nat \ {0} /\ \A k \in Local(p) : <<p, k>> \in Tasks(sys)
    BY <1>1, TaskOf DEF Types
  <2>2. cur[p] = 0 /\ 0 \in Local(p)
    BY <2>1 DEF Local
  <2>3. Level_(p) = "reset" /\ cpu[p].sp = 0 /\ cpu[p].temp = 0
    BY NoCodeIsCode DEF Level_
  <2>4. kern[<<p, 0>>].at = "out"
    BY <2>1, <2>2 DEF Out
  <2>5. ASSUME NEW k \in Local(p) PROVE Sleeps(<<p, k>>)
    <3>1. ctx[<<p, k>>] = FirstContext(k) /\ kern[<<p, k>>] = Out
      BY <2>1
    <3>2. LeftOff(<<p, k>>, <<"user", k>>, TRUE)
      BY <3>1 DEF LeftOff, Out
    <3> QED
      BY <3>1, <3>2, FirstSleeps
  <2> QED
    BY <2>2, <2>3, <2>4, <2>5 DEF Keeps, Current, Resets
<1> QED
  BY <1>1, <1>2, <1>3 DEF IInv

-------------------------------------------------------------------------------
(* The registers after each kind of step.                                  *)
Booted(r)      == [r EXCEPT !.code = <<"user", 0>>, !.um = TRUE, !.exl = FALSE]
Interrupted(r) == [r EXCEPT !.code = <<"int", 0>>, !.exl = TRUE, !.epc = r.code, !.step = "demux"]
Gone(r, step)  == [r EXCEPT !.step = step, !.temp = Clobbered]
Switched(r, c) == [r EXCEPT !.sp = c.sp, !.temp = c.temp, !.epc = c.epc,
                            !.um = c.um, !.exl = c.exl, !.step = c.ra]
Restored(r, f) == [r EXCEPT !.code = f.epc, !.temp = f.temp, !.epc = f.epc,
                            !.exl = FALSE, !.step = "none"]
Entered(r)     == [r EXCEPT !.code = <<"sys", r.code[2]>>, !.epc = r.code, !.um = FALSE, !.exl = FALSE]
Left(r, f)     == [r EXCEPT !.code = f.epc, !.epc = f.epc, !.um = f.um, !.exl = FALSE]

LEMMA CodeTyped ==
  /\ <<"user", 0>> \in Code /\ <<"int", 0>> \in Code
  /\ \A c \in Code : <<"sys", c[2]>> \in Code
BY DEF Code

LEMMA BootedIs ==
  ASSUME NEW r \in Registers_
  PROVE  /\ Booted(r) \in Registers_
         /\ Booted(r).code = <<"user", 0>> /\ Booted(r).um = TRUE /\ Booted(r).exl = FALSE
         /\ Booted(r).sp = r.sp /\ Booted(r).temp = r.temp
BY CodeTyped, Zenon DEF Booted, Registers_

LEMMA InterruptedIs ==
  ASSUME NEW r \in Registers_
  PROVE  /\ Interrupted(r) \in Registers_ /\ Interrupted(r).code = <<"int", 0>> /\ Interrupted(r).step = "demux"
         /\ Interrupted(r).sp = r.sp /\ Interrupted(r).um = r.um
<1>1. "demux" \in Steps \cup {"none", "eret"} /\ r.code \in Code
  BY DEF Steps, Registers_
<1> QED
  BY <1>1, CodeTyped, Zenon DEF Interrupted, Registers_

LEMMA GoneIs ==
  ASSUME NEW r \in Registers_, NEW step \in Steps
  PROVE  /\ Gone(r, step) \in Registers_ /\ Gone(r, step).code = r.code /\ Gone(r, step).step = step
         /\ Gone(r, step).sp = r.sp /\ Gone(r, step).um = r.um
<1>1. Clobbered \in Int
  BY DEF Clobbered
<1> QED
  BY <1>1, Zenon DEF Gone, Registers_

LEMMA SwitchedIs ==
  ASSUME NEW r \in Registers_, NEW c \in Context
  PROVE  /\ Switched(r, c) \in Registers_ /\ Switched(r, c).code = r.code /\ Switched(r, c).step = c.ra
         /\ Switched(r, c).sp = c.sp /\ Switched(r, c).temp = c.temp
         /\ Switched(r, c).epc = c.epc /\ Switched(r, c).um = c.um
<1>1. c.ra \in Steps \cup {"none", "eret"} /\ c.sp \in Int /\ c.temp \in Int /\ c.epc \in Code
  BY DEF Steps, Context
<1>2. c.um \in BOOLEAN /\ c.exl \in BOOLEAN
  BY Zenon DEF Context
<1> QED
  BY <1>1, <1>2, Zenon DEF Switched, Registers_

LEMMA RestoredIs ==
  ASSUME NEW r \in Registers_, NEW f, f.epc \in Code, f.temp \in Int
  PROVE  /\ Restored(r, f) \in Registers_ /\ Restored(r, f).code = f.epc /\ Restored(r, f).temp = f.temp
         /\ Restored(r, f).sp = r.sp /\ Restored(r, f).um = r.um /\ Restored(r, f).exl = FALSE
BY Zenon DEF Restored, Registers_

LEMMA EnteredIs ==
  ASSUME NEW r \in Registers_
  PROVE  /\ Entered(r) \in Registers_ /\ Entered(r).code = <<"sys", r.code[2]>>
         /\ Entered(r).um = FALSE /\ Entered(r).exl = FALSE /\ Entered(r).sp = r.sp /\ Entered(r).temp = r.temp
<1>1. r.code \in Code
  BY DEF Registers_
<1> QED
  BY <1>1, CodeTyped, Zenon DEF Entered, Registers_

LEMMA LeftIs ==
  ASSUME NEW r \in Registers_, NEW f, f.epc \in Code, f.um \in BOOLEAN
  PROVE  /\ Left(r, f) \in Registers_ /\ Left(r, f).code = f.epc /\ Left(r, f).um = f.um /\ Left(r, f).exl = FALSE
         /\ Left(r, f).sp = r.sp /\ Left(r, f).temp = r.temp
BY Zenon DEF Left, Registers_

LEMMA OneMoves ==
  ASSUME cpu \in [sys.procs -> Registers_], NEW p \in sys.procs, NEW r \in Registers_,
         cpu' = [cpu EXCEPT ![p] = r]
  PROVE  /\ cpu' \in [sys.procs -> Registers_] /\ cpu'[p] = r
         /\ \A q \in sys.procs \ {p} : cpu'[q] = cpu[q]
OBVIOUS

-------------------------------------------------------------------------------
(* What stays typed when the programs and the kernel keep their labels.    *)
LEMMA StaysTyped ==
  ASSUME Types, Places, UNCHANGED <<sys, kern, user>>,
         cpu' \in [sys.procs -> Registers_],
         intframe' \in [Tasks(sys) -> [temp : Int, epc : Code]],
         sysframe' \in [Tasks(sys) -> [um : BOOLEAN, exl : BOOLEAN, epc : Code]],
         ctx' \in [Tasks(sys) -> Context], cur' \in [sys.procs -> Int],
         vector' \in [0 .. 31 -> Routines]
  PROVE  Types' /\ Places'
<1>1. sys' = sys /\ kern' = kern /\ user' = user
  OBVIOUS
<1>2. Tasks(sys)' = Tasks(sys)
  BY <1>1
<1>3. Types'
  BY <1>1, <1>2 DEF Types
<1>4. Places'
  BY <1>1, <1>2 DEF Places, Labelled
<1> QED
  BY <1>3, <1>4

LEMMA IdleStep ==
  ASSUME IInv, UNCHANGED <<sys, cpu, intframe, sysframe, ctx, cur, vector, user, kern>>
  PROVE  IInv'
<1>1. Types' /\ Places'
  BY DEF IInv, Types, Places, Labelled
<1>2. ASSUME NEW p \in sys.procs PROVE Keeps(p)'
  BY KeepsElsewhere DEF IInv, Types, SameProcessor, SameTask
<1> QED
  BY <1>1, <1>2 DEF IInv

LEMMA BootStep ==
  ASSUME IInv, NEW p \in sys.procs, StartProc(p)
  PROVE  IInv'
<1>1. UNCHANGED <<sys, intframe, sysframe, ctx, cur, kern, user>>
  BY DEF StartProc, Boot, callVars
<1>2. cpu[p] \in Registers_ /\ Level_(p) = "reset"
  BY NoCodeIsCode DEF IInv, Types, Level_, StartProc, Boot
<1>3. cpu' = [cpu EXCEPT ![p] = Booted(cpu[p])]
  BY DEF StartProc, Boot, Booted
<1>4. /\ cpu' \in [sys.procs -> Registers_] /\ cpu'[p] = Booted(cpu[p])
      /\ \A q \in sys.procs \ {p} : cpu'[q] = cpu[q]
  <2>1. Booted(cpu[p]) \in Registers_
    BY <1>2, BootedIs
  <2> QED
    BY <1>3, <2>1, OneMoves DEF IInv, Types
<1>5. Types' /\ Places'
  <2>1. vector' \in [0 .. 31 -> Routines]
    BY SystemsAssumption DEF IInv, Types, StartProc, Boot
  <2>2. /\ intframe' \in [Tasks(sys) -> [temp : Int, epc : Code]]
        /\ sysframe' \in [Tasks(sys) -> [um : BOOLEAN, exl : BOOLEAN, epc : Code]]
        /\ ctx' \in [Tasks(sys) -> Context] /\ cur' \in [sys.procs -> Int]
    BY <1>1 DEF IInv, Types
  <2> QED
    BY <1>1, <1>4, <2>1, <2>2, StaysTyped DEF IInv
<1>6. cpu'[p].code = <<"user", 0>> /\ cpu'[p].um = TRUE /\ cpu'[p].exl = FALSE
      /\ cpu'[p].sp = cpu[p].sp /\ cpu'[p].temp = cpu[p].temp
  BY <1>2, <1>4, BootedIs, Zenon
<1>7. Keeps(p)'
  <2>1. Resets(p) /\ cur[p] \in Local(p)
    BY <1>2 DEF IInv, Keeps, Current
  <2>2. Runs(p)'
    BY <1>1, <1>6, <2>1 DEF Runs, LeftOff, Resets
  <2>3. Level_(p)' = "user"
    BY <1>6 DEF Level_
  <2>4. \A k \in Local(p) : k /= cur[p] => Sleeps(<<p, k>>)'
    BY <1>1, SleepsKept DEF IInv, Keeps, SameTask
  <2> QED
    BY <1>1, <2>1, <2>2, <2>3, <2>4 DEF Keeps, Current, Local
<1>8. \A q \in sys.procs \ {p} : SameProcessor(q)
  BY <1>1, <1>4 DEF SameProcessor, SameTask
<1> QED
  BY <1>1, <1>5, <1>7, <1>8, KeepsEverywhere

-------------------------------------------------------------------------------
(* A step of processor p that does not switch tasks.                       *)
LEMMA NoSwitch ==
  ASSUME IInv, NEW p \in sys.procs, sys' = sys, cur' = cur, Types', Places', Current(p)',
         \A k \in Local(p) : k /= cur[p] => SameTask(<<p, k>>),
         \A q \in sys.procs \ {p} : SameProcessor(q)
  PROVE  IInv'
<1>1. \A k \in Local(p) : k /= cur[p] => Sleeps(<<p, k>>)'
  BY SleepsKept DEF IInv, Keeps
<1>2. Keeps(p)'
  BY <1>1 DEF IInv, Keeps, Local
<1> QED
  BY <1>2, KeepsEverywhere

LEMMA CurrentTask ==
  ASSUME IInv, NEW p \in sys.procs
  PROVE  /\ cpu[p] \in Registers_ /\ cpu[p].code \in Code
         /\ cur[p] \in Local(p) /\ <<p, cur[p]>> \in Tasks(sys)
<1>1. cur[p] \in Local(p) /\ sys \in Systems /\ cpu[p] \in Registers_
  BY DEF IInv, Keeps, Types
<1> QED
  BY <1>1, TaskOf DEF Registers_

LEMMA InterruptStep ==
  ASSUME IInv, NEW p \in sys.procs, TakeInterrupt(p)
  PROVE  IInv'
<1> USE DEF TakeInterrupt, Interrupt
<1> DEFINE t == <<p, cur[p]>>
           frame == [temp |-> cpu[p].temp, epc |-> cpu[p].code]
<1>1. UNCHANGED <<sys, sysframe, ctx, cur, vector, kern, user>>
  BY DEF callVars
<1>2. Runs(p)
  BY DEF IInv, Keeps, Current
<1>3. /\ cpu' \in [sys.procs -> Registers_] /\ cpu'[p] = Interrupted(cpu[p])
      /\ \A q \in sys.procs \ {p} : cpu'[q] = cpu[q]
  <2>1. cpu' = [cpu EXCEPT ![p] = Interrupted(cpu[p])]
    BY DEF Interrupted
  <2> QED
    BY <2>1, CurrentTask, InterruptedIs, OneMoves DEF IInv, Types
<1>4. intframe' = [intframe EXCEPT ![t] = frame]
  BY <1>2 DEF Runs
<1>5. frame \in [temp : Int, epc : Code]
  BY CurrentTask DEF Registers_
<1> HIDE DEF frame
<1>6. intframe' \in [Tasks(sys) -> [temp : Int, epc : Code]] /\ intframe'[t] = frame
      /\ \A u \in Tasks(sys) \ {t} : intframe'[u] = intframe[u]
  BY <1>4, <1>5, CurrentTask DEF IInv, Types
<1>7. Types' /\ Places'
  <2>1. /\ intframe' \in [Tasks(sys) -> [temp : Int, epc : Code]]
        /\ sysframe' \in [Tasks(sys) -> [um : BOOLEAN, exl : BOOLEAN, epc : Code]]
        /\ ctx' \in [Tasks(sys) -> Context] /\ cur' \in [sys.procs -> Int]
        /\ vector' \in [0 .. 31 -> Routines]
    BY <1>1, <1>6 DEF IInv, Types
  <2> QED
    BY <1>1, <1>3, <2>1, StaysTyped DEF IInv
<1>8. Current(p)'
  <2>1. cpu'[p].code = <<"int", 0>> /\ cpu'[p].step = "demux"
        /\ cpu'[p].sp = cpu[p].sp /\ cpu'[p].um = cpu[p].um
    <3>1. cpu[p] \in Registers_
      BY CurrentTask
    <3> QED
      BY <1>3, <3>1, InterruptedIs, Zenon
  <2>2. frame.temp = cpu[p].temp /\ frame.epc = cpu[p].code
    BY DEF frame
  <2>3. Stacked(t, cpu[p].um)'
    BY <1>1, <1>2, <1>6, <2>1, <2>2 DEF Stacked, LeftOff, Runs
  <2>4. Handles(p)'
    BY <1>1, <1>2, <2>1, <2>3 DEF Handles, Runs, Steps
  <2> QED
    BY <2>1, <2>4 DEF Current, Level_
<1>9. \A k \in Local(p) : k /= cur[p] => SameTask(<<p, k>>)
  BY <1>1, <1>6, TaskOf DEF SameTask, IInv, Types
<1>10. \A q \in sys.procs \ {p} : SameProcessor(q)
  BY <1>1, <1>3, <1>6, TaskOf DEF SameProcessor, SameTask, IInv, Types
<1> QED
  BY <1>1, <1>7, <1>8, <1>9, <1>10, NoSwitch

(* The interrupt routines go from one step to the next.                    *)
LEMMA GotoStep ==
  ASSUME IInv, NEW p \in sys.procs, Level_(p) = "int", cpu[p].step \in Steps,
         NEW s \in Steps, Goto(p, s),
         UNCHANGED <<sys, intframe, sysframe, ctx, cur, vector, kern, user>>
  PROVE  IInv'
<1>1. /\ cpu' \in [sys.procs -> Registers_] /\ cpu'[p] = Gone(cpu[p], s)
      /\ \A q \in sys.procs \ {p} : cpu'[q] = cpu[q]
  <2>1. cpu' = [cpu EXCEPT ![p] = Gone(cpu[p], s)]
    BY DEF Goto, Gone
  <2> QED
    BY <2>1, CurrentTask, GoneIs, OneMoves DEF IInv, Types
<1>2. Types' /\ Places'
  BY <1>1 DEF IInv, Types, Places, Labelled, Tasks
<1>3. Current(p)'
  <2>1. cpu'[p].code = cpu[p].code /\ cpu'[p].step = s
        /\ cpu'[p].sp = cpu[p].sp /\ cpu'[p].um = cpu[p].um
    <3>1. cpu[p] \in Registers_
      BY CurrentTask
    <3>2. /\ Gone(cpu[p], s).code = cpu[p].code /\ Gone(cpu[p], s).step = s
          /\ Gone(cpu[p], s).sp = cpu[p].sp /\ Gone(cpu[p], s).um = cpu[p].um
      BY <3>1, GoneIs
    <3> QED
      BY <1>1, <3>2, Zenon
  <2>2. Handles(p) /\ "eret" \notin Steps
    BY DEF IInv, Keeps, Current, Steps, Routines, TaskOfIsr
  <2>3. Stacked(<<p, cur[p]>>, cpu[p].um)
    BY <2>2 DEF Handles
  <2>4. Handles(p)'
    BY <2>1, <2>2, <2>3 DEF Handles, Stacked, LeftOff
  <2> QED
    BY <2>1, <2>4 DEF Current, Level_
<1> QED
  BY <1>1, <1>2, <1>3, NoSwitch DEF SameTask, SameProcessor

(* _task_switch.                                                           *)
Saved(r) == [sp |-> r.sp, temp |-> r.temp, epc |-> r.epc, um |-> r.um, exl |-> r.exl, ra |-> "restore"]

LEMMA SavedIs ==
  ASSUME NEW r \in Registers_
  PROVE  /\ Saved(r) \in Context /\ Saved(r).sp = r.sp /\ Saved(r).um = r.um
         /\ Saved(r).ra = "restore"
<1>1. r.sp \in Int /\ r.temp \in Int /\ r.epc \in Code
  BY DEF Registers_
<1>2. r.um \in BOOLEAN /\ r.exl \in BOOLEAN
  BY Zenon DEF Registers_
<1>3. Saved(r) \in Context
  BY <1>1, <1>2, Zenon DEF Saved, Context
<1>4. Saved(r).sp = r.sp /\ Saved(r).um = r.um /\ Saved(r).ra = "restore"
  BY Zenon DEF Saved
<1> QED
  BY <1>3, <1>4

LEMMA SwitchStep ==
  ASSUME IInv, NEW p \in sys.procs, CtxSwitch(p), sys.tasks[p] > 1,
         UNCHANGED <<kern, user>>
  PROVE  IInv'
<1> USE DEF CtxSwitch
<1> DEFINE k == cur[p]
           n == (cur[p] + 1) % sys.tasks[p]
           old == <<p, k>>
           new == <<p, n>>
<1>1. UNCHANGED <<sys, intframe, sysframe, vector, kern, user>>
  OBVIOUS
<1>2. /\ sys.tasks[p] \in Nat /\ cpu[p] \in Registers_
      /\ k \in Local(p) /\ n \in Local(p) /\ n /= k
      /\ old \in Tasks(sys) /\ new \in Tasks(sys) /\ old /= new
  <2>1. sys.tasks[p] \in Nat /\ sys \in Systems
    BY TaskOf DEF IInv, Types
  <2>2. k \in Local(p) /\ old \in Tasks(sys) /\ cpu[p] \in Registers_
    BY CurrentTask
  <2>3. n \in Local(p) /\ n /= k
    BY <2>1, <2>2, NextTask DEF Local
  <2> QED
    BY <2>1, <2>2, <2>3, TaskOf
<1>3. Level_(p) = "int" /\ cpu[p].step = "_ctx_switch"
  BY DEF InInt
<1>4. cpu[p].sp = k /\ Stacked(old, cpu[p].um) /\ Sleeps(new)
  <2>1. Handles(p) /\ Sleeps(new)
    BY <1>2, <1>3 DEF IInv, Keeps, Current
  <2> QED
    BY <1>3, <2>1 DEF Handles
<1>5. TaskSwitch(p, n) /\ cur' = [cur EXCEPT ![p] = n]
  BY <1>2
<1>6. ctx[new] \in Context
  BY <1>2 DEF IInv, Types
<1>7. /\ cpu' \in [sys.procs -> Registers_] /\ cpu'[p] = Switched(cpu[p], ctx[new])
      /\ \A q \in sys.procs \ {p} : cpu'[q] = cpu[q]
  <2>1. cpu' = [cpu EXCEPT ![p] = Switched(cpu[p], ctx[new])]
    BY <1>5 DEF TaskSwitch, Switched
  <2> QED
    BY <1>2, <1>6, <2>1, SwitchedIs, OneMoves DEF IInv, Types
<1>8. /\ ctx' \in [Tasks(sys) -> Context] /\ ctx'[old] = Saved(cpu[p])
      /\ \A t \in Tasks(sys) \ {old} : ctx'[t] = ctx[t]
  <2>1. ctx' = [ctx EXCEPT ![old] = Saved(cpu[p])]
    BY <1>5 DEF TaskSwitch, Saved
  <2> QED
    BY <1>2, <2>1, SavedIs DEF IInv, Types
<1>9. /\ cur' \in [sys.procs -> Int] /\ cur'[p] = n
      /\ \A q \in sys.procs \ {p} : cur'[q] = cur[q]
  BY <1>2, <1>5 DEF IInv, Types, Local
<1>10. Types' /\ Places'
  BY <1>1, <1>7, <1>8, <1>9 DEF IInv, Types, Places, Labelled, Tasks
<1>11. Current(p)'
  <2>1. /\ Switched(cpu[p], ctx[new]).code = cpu[p].code
        /\ Switched(cpu[p], ctx[new]).step = ctx[new].ra
        /\ Switched(cpu[p], ctx[new]).sp = ctx[new].sp
        /\ Switched(cpu[p], ctx[new]).temp = ctx[new].temp
        /\ Switched(cpu[p], ctx[new]).epc = ctx[new].epc
        /\ Switched(cpu[p], ctx[new]).um = ctx[new].um
    BY <1>2, <1>6, SwitchedIs
  <2>2. /\ cpu'[p].code = cpu[p].code /\ cpu'[p].step = ctx[new].ra
        /\ cpu'[p].sp = ctx[new].sp /\ cpu'[p].temp = ctx[new].temp
        /\ cpu'[p].epc = ctx[new].epc /\ cpu'[p].um = ctx[new].um
    BY <1>7, <2>1, Zenon
  <2>3. Handles(p)'
    <3>1. cpu'[p].sp = cur'[p]
      BY <1>4, <1>9, <2>2 DEF Sleeps
    <3>2. CASE ctx[new].ra = "restore" /\ Stacked(new, ctx[new].um)
      BY <1>1, <1>9, <2>2, <3>1, <3>2 DEF Handles, Stacked, LeftOff, Steps
    <3>3. CASE ctx[new].ra = "eret" /\ ctx[new].temp = n /\ LeftOff(new, ctx[new].epc, ctx[new].um)
      BY <1>1, <1>9, <2>2, <3>1, <3>3 DEF Handles, LeftOff
    <3> QED
      BY <1>4, <3>2, <3>3 DEF Sleeps
  <2> QED
    BY <1>3, <2>2, <2>3 DEF Current, Level_
<1>12. ASSUME NEW j \in Local(p), j /= n PROVE Sleeps(<<p, j>>)'
  <2>1. CASE j = k
    <3>1. Saved(cpu[p]).sp = k /\ Saved(cpu[p]).um = cpu[p].um /\ Saved(cpu[p]).ra = "restore"
      BY <1>2, <1>4, SavedIs
    <3>2. ctx'[old].sp = k /\ ctx'[old].um = cpu[p].um /\ ctx'[old].ra = "restore"
      BY <1>8, <3>1, Zenon
    <3> QED
      BY <1>1, <1>4, <2>1, <3>2 DEF Sleeps, Stacked, LeftOff
  <2>2. CASE j /= k
    <3>1. <<p, j>> \in Tasks(sys) \ {old}
      BY <2>2, TaskOf DEF IInv, Types
    <3>2. SameTask(<<p, j>>)
      BY <1>1, <1>8, <3>1 DEF SameTask
    <3> QED
      BY <2>2, <3>2, SleepsKept DEF IInv, Keeps
  <2> QED
    BY <2>1, <2>2
<1>13. Keeps(p)'
  BY <1>1, <1>2, <1>9, <1>11, <1>12 DEF Keeps, Local
<1>14. \A q \in sys.procs \ {p} : SameProcessor(q)
  BY <1>1, <1>7, <1>8, <1>9, TaskOf DEF SameProcessor, SameTask, IInv, Types
<1> QED
  BY <1>1, <1>10, <1>13, <1>14, KeepsEverywhere

LEMMA RestoreStep ==
  ASSUME IInv, NEW p \in sys.procs, Restore(p), UNCHANGED <<kern, user>>
  PROVE  IInv'
<1> USE DEF Restore
<1> DEFINE t == <<p, cur[p]>>
           f == IF cpu[p].step = "eret" THEN [temp |-> cpu[p].temp, epc |-> cpu[p].epc]
                ELSE intframe[<<p, cpu[p].sp>>]
<1>1. UNCHANGED <<sys, intframe, sysframe, ctx, cur, vector, kern, user>>
  OBVIOUS
<1>2. cpu[p] \in Registers_ /\ t \in Tasks(sys)
  BY CurrentTask
<1>3. Handles(p) /\ "eret" \notin Steps
  BY DEF IInv, Keeps, Current, Steps, Routines, TaskOfIsr
<1>4. f.epc \in Code /\ f.temp \in Int /\ f.temp = cur[p] /\ LeftOff(t, f.epc, cpu[p].um)
  <2>1. CASE cpu[p].step = "eret"
    <3>1. cpu[p].temp = cur[p] /\ LeftOff(t, cpu[p].epc, cpu[p].um)
      BY <1>3, <2>1 DEF Handles
    <3>2. f = [temp |-> cpu[p].temp, epc |-> cpu[p].epc]
      BY <2>1
    <3>3. f.temp = cpu[p].temp /\ f.epc = cpu[p].epc
      BY <3>2
    <3>4. cpu[p].temp \in Int /\ cpu[p].epc \in Code
      BY <1>2 DEF Registers_
    <3> HIDE DEF f
    <3> QED
      BY <3>1, <3>3, <3>4, Zenon
  <2>2. CASE cpu[p].step /= "eret"
    <3>1. cpu[p].sp = cur[p] /\ Stacked(t, cpu[p].um)
      BY <1>3, <2>2 DEF Handles
    <3>2. f = intframe[t]
      BY <2>2, <3>1
    <3> HIDE DEF f
    <3>3. f.epc \in Code /\ f.temp \in Int
      BY <1>2, <3>2 DEF IInv, Types
    <3> QED
      BY <3>1, <3>2, <3>3, Zenon DEF Stacked
  <2> QED
    BY <2>1, <2>2
<1>5. /\ cpu' \in [sys.procs -> Registers_] /\ cpu'[p] = Restored(cpu[p], f)
      /\ \A q \in sys.procs \ {p} : cpu'[q] = cpu[q]
  <2>1. cpu' = [cpu EXCEPT ![p] = Restored(cpu[p], f)]
    BY DEF Restored
  <2> HIDE DEF f, Restore
  <2>2. Restored(cpu[p], f) \in Registers_
    BY <1>2, <1>4, RestoredIs
  <2> QED
    BY <2>1, <2>2, OneMoves DEF IInv, Types
<1> HIDE DEF f
<1>6. Types' /\ Places'
  <2>1. /\ intframe' \in [Tasks(sys) -> [temp : Int, epc : Code]]
        /\ sysframe' \in [Tasks(sys) -> [um : BOOLEAN, exl : BOOLEAN, epc : Code]]
        /\ ctx' \in [Tasks(sys) -> Context] /\ cur' \in [sys.procs -> Int]
        /\ vector' \in [0 .. 31 -> Routines]
    BY <1>1 DEF IInv, Types
  <2> QED
    BY <1>1, <1>5, <2>1, StaysTyped DEF IInv
<1>7. Current(p)'
  <2>1. /\ Restored(cpu[p], f).code = f.epc /\ Restored(cpu[p], f).temp = f.temp
        /\ Restored(cpu[p], f).sp = cpu[p].sp /\ Restored(cpu[p], f).um = cpu[p].um
        /\ Restored(cpu[p], f).exl = FALSE
    BY <1>2, <1>4, RestoredIs
  <2>2. /\ cpu'[p].code = f.epc /\ cpu'[p].temp = f.temp
        /\ cpu'[p].sp = cpu[p].sp /\ cpu'[p].um = cpu[p].um /\ cpu'[p].exl = FALSE
    BY <1>5, <2>1, Zenon
  <2>3. Runs(p)'
    BY <1>1, <1>3, <1>4, <2>2 DEF Runs, LeftOff, Handles
  <2>4. Level_(p)' \in {"user", "sys"}
    BY <1>4, <2>2 DEF LeftOff, Level_
  <2> QED
    BY <2>3, <2>4 DEF Current
<1> QED
  BY <1>1, <1>5, <1>6, <1>7, NoSwitch DEF SameTask, SameProcessor

LEMMA HandleStep ==
  ASSUME IInv, NEW p \in sys.procs, HandleInterrupt(p)
  PROVE  IInv'
<1>1. UNCHANGED <<kern, user>> /\ Handle(p)
  BY DEF HandleInterrupt, callVars
<1>2. Routines \subseteq Steps /\ {"demux", "restore", "_ctx_switch"} \subseteq Steps
  BY DEF Steps
<1>3. CASE Demux(p)
  <2>1. Level_(p) = "int" /\ cpu[p].step = "demux"
    BY <1>3 DEF Demux, InInt
  <2>2. PICK s : Goto(p, s) /\ (s = "restore" \/ \E n \in DOMAIN vector : s = vector[n])
    BY <1>3 DEF Demux
  <2>3. s \in Steps
    BY <1>2, <2>2 DEF IInv, Types
  <2> QED
    BY <1>1, <1>2, <1>3, <2>1, <2>2, <2>3, GotoStep DEF Demux
<1>4. CASE IsrTimer(p)
  BY <1>1, <1>2, <1>4, GotoStep DEF IsrTimer, InInt, Routines
<1>5. CASE IsrTtyGet(p)
  BY <1>1, <1>2, <1>5, GotoStep DEF IsrTtyGet, Routines
<1>6. CASE IsrSwitch(p)
  BY <1>1, <1>2, <1>6, GotoStep DEF IsrSwitch, InInt, Routines
<1>7. CASE CtxSwitch(p)
  <2>1. CASE sys.tasks[p] <= 1
    BY <1>1, <1>2, <1>7, <2>1, GotoStep DEF CtxSwitch, InInt
  <2>2. CASE sys.tasks[p] > 1
    BY <1>1, <1>7, <2>2, SwitchStep
  <2>3. sys.tasks[p] \in Nat
    BY TaskOf DEF IInv, Types
  <2> QED
    BY <2>1, <2>2, <2>3
<1>8. CASE Restore(p)
  BY <1>1, <1>8, RestoreStep
<1> QED
  BY <1>1, <1>3, <1>4, <1>5, <1>6, <1>7, <1>8 DEF Handle

-------------------------------------------------------------------------------
(* The programs stay at their labels.                                      *)
LEMMA ResumedLabel ==
  ASSUME NEW program \in DOMAIN Calls, NEW u, NEW ret,
         "at" \in DOMAIN u, u.at \in DOMAIN Calls[program]
  PROVE  /\ "at" \in DOMAIN Resumed(program, u, ret)
         /\ Resumed(program, u, ret).at \in DOMAIN Calls[program]
<1>1. CASE program \in {"main", "tim"}
  <2>1. Calls[program] = MainCalls
    BY <1>1 DEF Calls
  <2>2. MainNext(u, ret) \in DOMAIN MainCalls
    BY DEF MainNext, MainCalls
  <2>3. Resumed(program, u, ret) = [u EXCEPT !.at = MainNext(u, ret)]
    BY <1>1 DEF Resumed, TimNext
  <2> QED
    BY <2>1, <2>2, <2>3
<1>2. CASE program = "gcd"
  <2>1. Calls[program] = GcdCalls
    BY <1>2 DEF Calls
  <2>2. GcdNext(u, ret) \in DOMAIN GcdCalls
    BY <2>1 DEF GcdNext, GcdCalls
  <2>3. Resumed(program, u, ret) = [u EXCEPT !.at = GcdNext(u, ret)]
    BY <1>2 DEF Resumed
  <2> QED
    BY <2>1, <2>2, <2>3
<1>3. CASE program = "number"
  <2>1. Calls[program] = NumberCalls
    BY <1>3 DEF Calls
  <2>2. Resumed(program, u, ret) = NumberNext(u, ret)
    BY <1>3 DEF Resumed
  <2>3. /\ "at" \in DOMAIN NumberNext(u, ret)
        /\ NumberNext(u, ret).at \in DOMAIN NumberCalls
    BY <2>1 DEF NumberNext, NumberCalls
  <2> QED
    BY <2>1, <2>2, <2>3
<1>4. CASE program = "prime"
  <2>1. Calls[program] = PrimeCalls
    BY <1>4 DEF Calls
  <2>2. Resumed(program, u, ret) = PrimeNext(u, ret)
    BY <1>4 DEF Resumed
  <2>3. \A v : "at" \in DOMAIN Tested(u, v) /\ Tested(u, v).at \in DOMAIN PrimeCalls
    BY DEF Tested, PrimeCalls
  <2>4. /\ "at" \in DOMAIN PrimeNext(u, ret)
        /\ PrimeNext(u, ret).at \in DOMAIN PrimeCalls
    BY <2>1, <2>3 DEF PrimeNext, PrimeCalls
  <2> QED
    BY <2>1, <2>2, <2>4
<1>5. CASE program = "reader"
  BY <1>5 DEF Resumed
<1> QED
  BY <1>1, <1>2, <1>3, <1>4, <1>5 DEF Calls

(* Every call of a program has an entry in _syscall_vector.                *)
LEMMA CallHasEntry ==
  ASSUME IInv, NEW t \in Tasks(sys)
  PROVE  SyscallVector[CallOf(t).no] /= "out"
<1>1. sys.program[t] \in DOMAIN Calls /\ user[t].at \in DOMAIN Calls[sys.program[t]]
  BY SystemsAssumption DEF IInv, Types, Places, Labelled
<1>2. CallOf(t).no \in DOMAIN SyscallVector
  <2>1. \A a \in DOMAIN MainCalls : MainCalls[a].no \in DOMAIN SyscallVector
    BY DEF MainCalls, SyscallVector
  <2>2. \A a \in DOMAIN GcdCalls : GcdCalls[a].no \in DOMAIN SyscallVector
    BY DEF GcdCalls, SyscallVector
  <2>3. \A a \in DOMAIN NumberCalls : NumberCalls[a].no \in DOMAIN SyscallVector
    BY DEF NumberCalls, SyscallVector
  <2>4. \A a \in DOMAIN PrimeCalls : PrimeCalls[a].no \in DOMAIN SyscallVector
    BY DEF PrimeCalls, SyscallVector
  <2>5. \A a \in DOMAIN ReaderCalls : ReaderCalls[a].no \in DOMAIN SyscallVector
    BY DEF ReaderCalls, SyscallVector
  <2>6. Calls[sys.program[t]] \in {MainCalls, GcdCalls, NumberCalls, PrimeCalls, ReaderCalls}
    BY <1>1 DEF Calls
  <2> QED
    BY <1>1, <2>1, <2>2, <2>3, <2>4, <2>5, <2>6 DEF CallOf
<1> QED
  BY <1>2 DEF SyscallVector

LEMMA CallStep ==
  ASSUME IInv, NEW p \in sys.procs, Call(p)
  PROVE  IInv'
<1> USE DEF Call
<1> DEFINE t == <<p, cur[p]>>
           frame == [um |-> cpu[p].um, exl |-> TRUE, epc |-> cpu[p].code]
<1>1. UNCHANGED <<sys, intframe, ctx, cur, vector, user>>
  BY DEF EnterKernel
<1>2. cpu[p] \in Registers_ /\ cpu[p].code \in Code /\ t \in Tasks(sys)
  BY CurrentTask
<1>3. Runs(p) /\ cpu[p].code = <<"user", cur[p]>> /\ cpu[p].um = TRUE /\ Task(p) = t
  <2>1. Runs(p)
    BY DEF IInv, Keeps, Current
  <2> QED
    BY <2>1 DEF Runs, LeftOff, Level_, Task
<1>4. /\ cpu' \in [sys.procs -> Registers_] /\ cpu'[p] = Entered(cpu[p])
      /\ \A q \in sys.procs \ {p} : cpu'[q] = cpu[q]
  <2>1. cpu' = [cpu EXCEPT ![p] = Entered(cpu[p])]
    BY DEF EnterKernel, Entered
  <2>2. Entered(cpu[p]) \in Registers_
    BY <1>2, EnteredIs
  <2> QED
    BY <2>1, <2>2, OneMoves DEF IInv, Types
<1>5. frame \in [um : BOOLEAN, exl : BOOLEAN, epc : Code] /\ frame.um = TRUE
      /\ frame.epc = <<"user", cur[p]>>
  <2>1. cpu[p].um \in BOOLEAN
    BY <1>2, Zenon DEF Registers_
  <2>2. frame \in [um : BOOLEAN, exl : BOOLEAN, epc : Code]
    BY <1>2, <2>1, Zenon
  <2>3. frame.um = cpu[p].um /\ frame.epc = cpu[p].code
    BY Zenon
  <2> QED
    BY <1>3, <2>2, <2>3, Zenon
<1>6. sysframe' = [sysframe EXCEPT ![t] = frame]
  BY <1>3 DEF EnterKernel, Runs
<1> HIDE DEF frame
<1>7. /\ sysframe' \in [Tasks(sys) -> [um : BOOLEAN, exl : BOOLEAN, epc : Code]]
      /\ sysframe'[t] = frame
      /\ \A u \in Tasks(sys) \ {t} : sysframe'[u] = sysframe[u]
  BY <1>2, <1>5, <1>6 DEF IInv, Types
<1>8. /\ DOMAIN kern' = Tasks(sys) /\ "at" \in DOMAIN kern'[t] /\ kern'[t].at /= "out"
      /\ \A u \in Tasks(sys) \ {t} : kern'[u] = kern[u]
  <2>1. SyscallVector[CallOf(t).no] /= "out"
    BY <1>2, CallHasEntry
  <2>2. kern' = [kern EXCEPT ![t].at = SyscallVector[CallOf(t).no]]
    BY <1>3 DEF Enter
  <2>3. DOMAIN kern = Tasks(sys) /\ "at" \in DOMAIN kern[t]
    BY <1>2 DEF IInv, Places, Labelled
  <2> QED
    BY <1>2, <2>1, <2>2, <2>3
<1>9. Types' /\ Places'
  BY <1>1, <1>4, <1>7, <1>8 DEF IInv, Types, Places, Labelled, Tasks
<1>10. Current(p)'
  <2>1. /\ Entered(cpu[p]).code = <<"sys", cpu[p].code[2]>> /\ Entered(cpu[p]).um = FALSE
        /\ Entered(cpu[p]).exl = FALSE /\ Entered(cpu[p]).sp = cpu[p].sp
        /\ Entered(cpu[p]).temp = cpu[p].temp
    BY <1>2, EnteredIs
  <2>2. /\ cpu'[p].code = <<"sys", cpu[p].code[2]>> /\ cpu'[p].um = FALSE
        /\ cpu'[p].exl = FALSE /\ cpu'[p].sp = cpu[p].sp /\ cpu'[p].temp = cpu[p].temp
    BY <1>4, <2>1, Zenon
  <2>3. sysframe'[t].um = TRUE /\ sysframe'[t].epc = <<"user", cur[p]>>
    BY <1>5, <1>7, Zenon
  <2>4. LeftOff(t, cpu[p].code, cpu[p].um)'
    BY <1>1, <1>3, <1>8, <2>2, <2>3 DEF LeftOff
  <2>5. Runs(p)'
    BY <1>1, <1>3, <2>2, <2>4 DEF Runs
  <2> QED
    BY <2>2, <2>5 DEF Current, Level_
<1>11. \A k \in Local(p) : k /= cur[p] => SameTask(<<p, k>>)
  BY <1>1, <1>7, <1>8, TaskOf DEF SameTask, IInv, Types
<1>12. \A q \in sys.procs \ {p} : SameProcessor(q)
  BY <1>1, <1>4, <1>7, <1>8, TaskOf DEF SameProcessor, SameTask, IInv, Types
<1> QED
  BY <1>1, <1>9, <1>10, <1>11, <1>12, NoSwitch

LEMMA ReturnStep ==
  ASSUME IInv, NEW p \in sys.procs, BackToUser(p)
  PROVE  IInv'
<1> USE DEF BackToUser
<1> DEFINE t == <<p, cur[p]>>
           f == sysframe[t]
<1>1. UNCHANGED <<sys, intframe, sysframe, ctx, cur, vector>>
  BY DEF LeaveKernel
<1>2. cpu[p] \in Registers_ /\ t \in Tasks(sys) /\ sys \in Systems
  BY CurrentTask DEF IInv, Types
<1>3. Runs(p) /\ Task(p) = t /\ f.um = TRUE /\ f.epc = <<"user", cur[p]>>
  <2>1. Runs(p) /\ Level_(p) = "sys"
    BY DEF IInv, Keeps, Current, AtStep
  <2> QED
    BY <2>1 DEF Runs, LeftOff, Level_, Task
<1>4. f.epc \in Code /\ f.um \in BOOLEAN
  <2>1. f \in [um : BOOLEAN, exl : BOOLEAN, epc : Code]
    BY <1>2 DEF IInv, Types
  <2> QED
    BY <2>1, Zenon
<1>5. /\ cpu' \in [sys.procs -> Registers_] /\ cpu'[p] = Left(cpu[p], f)
      /\ \A q \in sys.procs \ {p} : cpu'[q] = cpu[q]
  <2>1. cpu' = [cpu EXCEPT ![p] = Left(cpu[p], f)]
    BY <1>3 DEF LeaveKernel, Left, Runs
  <2> HIDE DEF f
  <2>2. Left(cpu[p], f) \in Registers_
    BY <1>2, <1>4, LeftIs
  <2> QED
    BY <2>1, <2>2, OneMoves DEF IInv, Types
<1> HIDE DEF f
<1>6. /\ DOMAIN kern' = Tasks(sys) /\ "at" \in DOMAIN kern'[t] /\ kern'[t].at = "out"
      /\ \A u \in Tasks(sys) \ {t} : kern'[u] = kern[u]
  BY <1>2, <1>3 DEF Out, IInv, Places
<1>7. /\ DOMAIN user' = Tasks(sys) /\ "at" \in DOMAIN user'[t]
      /\ user'[t].at \in DOMAIN Calls[sys.program[t]]
      /\ \A u \in Tasks(sys) \ {t} : user'[u] = user[u]
  <2>1. user' = [user EXCEPT ![t] = Resumed(sys.program[t], user[t], kern[t].ret)]
    BY <1>3
  <2>2. sys.program[t] \in DOMAIN Calls /\ DOMAIN user = Tasks(sys) /\ Labelled(t)
    BY <1>2, SystemsAssumption DEF IInv, Places
  <2> QED
    BY <1>2, <2>1, <2>2, ResumedLabel DEF Labelled
<1>8. Types' /\ Places'
  <2>1. Tasks(sys)' = Tasks(sys)
    BY <1>1
  <2>2. Types'
    BY <1>1, <1>5, <2>1 DEF IInv, Types
  <2>3. ASSUME NEW u \in Tasks(sys) PROVE Labelled(u)'
    <3>1. Labelled(u)
      BY DEF IInv, Places
    <3> HIDE DEF BackToUser
    <3> QED
      BY <1>1, <1>6, <1>7, <3>1 DEF Labelled
  <2> QED
    BY <1>6, <1>7, <2>1, <2>2, <2>3 DEF Places
<1>9. Current(p)'
  <2>1. /\ Left(cpu[p], f).code = f.epc /\ Left(cpu[p], f).um = f.um
        /\ Left(cpu[p], f).exl = FALSE /\ Left(cpu[p], f).sp = cpu[p].sp
        /\ Left(cpu[p], f).temp = cpu[p].temp
    BY <1>2, <1>4, LeftIs
  <2>2. /\ cpu'[p].code = <<"user", cur[p]>> /\ cpu'[p].um = TRUE
        /\ cpu'[p].exl = FALSE /\ cpu'[p].sp = cpu[p].sp /\ cpu'[p].temp = cpu[p].temp
    BY <1>3, <1>5, <2>1, Zenon
  <2>3. Runs(p)'
    BY <1>1, <1>3, <1>6, <2>2 DEF Runs, LeftOff
  <2> QED
    BY <2>2, <2>3 DEF Current, Level_
<1>10. \A k \in Local(p) : k /= cur[p] => SameTask(<<p, k>>)
  BY <1>1, <1>2, <1>6, TaskOf DEF SameTask
<1>11. \A q \in sys.procs \ {p} : SameProcessor(q)
  BY <1>1, <1>2, <1>5, <1>6, TaskOf DEF SameProcessor, SameTask
<1> QED
  BY <1>1, <1>8, <1>9, <1>10, <1>11, NoSwitch

-------------------------------------------------------------------------------
(* A step of a driver moves to another step of it, or to its return.       *)
DriverSteps ==
  {"_tty_write", "_tty_read", "_tty_read_irq", "_timer_write", "_gcd_write", "_gcd_read",
   "tty_read_data", "tty_buf", "tty_reset", "return"}

Moves(p) ==
  /\ UNCHANGED <<sys, cpu, intframe, sysframe, ctx, cur, vector>>
  /\ \E l \in DriverSteps : \E ret :
       \/ kern' = [kern EXCEPT ![Task(p)].at = l]
       \/ kern' = [kern EXCEPT ![Task(p)] = [at |-> l, ret |-> ret]]

LEMMA DriverStep ==
  ASSUME IInv, NEW p \in sys.procs, Level_(p) = "sys", Moves(p),
         DOMAIN user' = DOMAIN user,
         \A u \in Tasks(sys) : "at" \in DOMAIN user'[u] /\ user'[u].at = user[u].at
  PROVE  IInv'
<1> DEFINE t == <<p, cur[p]>>
<1>1. UNCHANGED <<sys, cpu, intframe, sysframe, ctx, cur, vector>>
  BY DEF Moves
<1>2. t \in Tasks(sys) /\ sys \in Systems
  BY CurrentTask DEF IInv, Types
<1>3. Runs(p) /\ Task(p) = t /\ kern[t].at /= "out"
  <2>1. Runs(p)
    BY DEF IInv, Keeps, Current
  <2> QED
    BY <2>1 DEF Runs, LeftOff, Level_, Task
<1>4. /\ DOMAIN kern' = Tasks(sys) /\ "at" \in DOMAIN kern'[t] /\ kern'[t].at /= "out"
      /\ \A u \in Tasks(sys) \ {t} : kern'[u] = kern[u]
  <2>1. PICK l \in DriverSteps : \E ret :
          \/ kern' = [kern EXCEPT ![t].at = l]
          \/ kern' = [kern EXCEPT ![t] = [at |-> l, ret |-> ret]]
    BY <1>3 DEF Moves
  <2>2. l /= "out"
    BY DEF DriverSteps
  <2>3. DOMAIN kern = Tasks(sys) /\ "at" \in DOMAIN kern[t]
    BY <1>2 DEF IInv, Places, Labelled
  <2> QED
    BY <1>2, <2>1, <2>2, <2>3
<1>5. Types' /\ Places'
  <2>1. Tasks(sys)' = Tasks(sys)
    BY <1>1
  <2>2. Types'
    BY <1>1, <2>1 DEF IInv, Types
  <2>3. ASSUME NEW u \in Tasks(sys) PROVE Labelled(u)'
    BY <1>1, <1>4 DEF Labelled, IInv, Places
  <2> QED
    BY <1>4, <2>1, <2>2, <2>3 DEF IInv, Places
<1>6. Current(p)'
  BY <1>1, <1>3, <1>4 DEF Current, Runs, LeftOff, Level_
<1>7. \A k \in Local(p) : k /= cur[p] => SameTask(<<p, k>>)
  BY <1>1, <1>2, <1>4, TaskOf DEF SameTask
<1>8. \A q \in sys.procs \ {p} : SameProcessor(q)
  BY <1>1, <1>2, <1>4, TaskOf DEF SameProcessor, SameTask
<1> QED
  BY <1>1, <1>5, <1>6, <1>7, <1>8, NoSwitch

LEMMA RunStep ==
  ASSUME IInv, NEW p \in sys.procs, Run(p)
  PROVE  IInv'
<1>1. CASE Call(p)
  BY <1>1, CallStep
<1>2. CASE BackToUser(p)
  BY <1>2, ReturnStep
<1>3. user' = user =>
        /\ DOMAIN user' = DOMAIN user
        /\ \A u \in Tasks(sys) : "at" \in DOMAIN user'[u] /\ user'[u].at = user[u].at
  BY DEF IInv, Places, Labelled
<1>4. ASSUME NEW c, Receive(p, c)
      PROVE  /\ DOMAIN user' = DOMAIN user
             /\ \A u \in Tasks(sys) : "at" \in DOMAIN user'[u] /\ user'[u].at = user[u].at
  BY <1>4 DEF Receive, IInv, Places, Labelled
<1> USE DEF AtStep, Return, Enter, Stays, Moves, DriverSteps
<1>5. CASE TtyWrite(p)
  BY <1>3, <1>5, DriverStep DEF TtyWrite
<1>6. CASE TtyStatus(p)
  BY <1>3, <1>6, DriverStep DEF TtyStatus
<1>7. CASE TtyData(p)
  BY <1>4, <1>7, DriverStep DEF TtyData
<1>8. CASE TtyFull(p)
  BY <1>3, <1>8, DriverStep DEF TtyFull
<1>9. CASE TtyBuf(p)
  BY <1>4, <1>9, DriverStep DEF TtyBuf
<1>10. CASE TtyReset(p)
  BY <1>3, <1>10, DriverStep DEF TtyReset
<1>11. CASE TimerWrite(p)
  BY <1>3, <1>11, DriverStep DEF TimerWrite
<1>12. CASE GcdWrite(p)
  BY <1>3, <1>12, DriverStep DEF GcdWrite
<1>13. CASE GcdRead(p)
  BY <1>3, <1>13, DriverStep DEF GcdRead
<1> QED
  BY <1>1, <1>2, <1>5, <1>6, <1>7, <1>8, <1>9, <1>10, <1>11, <1>12, <1>13 DEF Run

-------------------------------------------------------------------------------
LEMMA StepIInv == IInv /\ [Next]_kernelVars => IInv'
<1> SUFFICES ASSUME IInv, [Next]_kernelVars PROVE IInv'
  OBVIOUS
<1>1. CASE Elaborate
  BY <1>1, IdleStep DEF Elaborate, taskVars, callVars
<1>2. CASE \E p \in sys.procs : Processor(p)
  <2>1. PICK p \in sys.procs : Processor(p)
    BY <1>2
  <2> QED
    BY <2>1, BootStep, InterruptStep, HandleStep, RunStep DEF Processor, RunProgram
<1>3. CASE Environment \/ GcdDone
  BY <1>3, IdleStep DEF Environment, TypeCharacter, Tick, GcdDone, callVars
<1>4. CASE UNCHANGED kernelVars
  BY <1>4, IdleStep DEF kernelVars
<1> QED
  BY <1>1, <1>2, <1>3, <1>4 DEF Next

LEMMA AlwaysIInv == Spec => []IInv
BY InitIInv, StepIInv, PTL DEF Spec

(* However many tasks a processor has, and at whatever access the timers   *)
(* and terminals interrupt them, a task only ever runs with its own stack  *)
(* and registers, at the privilege and the place where it left off         *)
(* (giet.s, _ctx_switch).                                                  *)
THEOREM ContextAlwaysKept == Spec => []ContextKept
BY AlwaysIInv, InvContext, PTL

-------------------------------------------------------------------------------
(***************************************************************************)
(* The memory maps of the platforms, of any width, number of levels and    *)
(* segments: tables that could be built decode every address right.        *)
(***************************************************************************)

(* What a quotient is.                                                     *)
LEMMA Quotient ==
  ASSUME NEW a \in Nat, NEW u \in Nat \ {0}
  PROVE  /\ a \div u \in Nat
         /\ (a \div u) * u <= a /\ a < (a \div u) * u + u
         /\ \A q \in Nat : q * u <= a /\ a < q * u + u => a \div u = q
BY SMT

LEMMA ProductOrder ==
  ASSUME NEW x \in Nat, NEW y \in Nat, NEW r \in Nat \ {0}, x * r < (y + 1) * r
  PROVE  x <= y
BY SMT

LEMMA ProductGrows ==
  ASSUME NEW x \in Nat, NEW y \in Nat, NEW r \in Nat, x <= y
  PROVE  x * r <= y * r
BY SMT

LEMMA ProductMoves ==
  ASSUME NEW q \in Nat, NEW k \in Nat, NEW r \in Nat
  PROVE  (q * k) * r = q * (k * r)
BY SMT

(* The first address of a page lies in the same entry as the others.       *)
LEMMA PageInEntry ==
  ASSUME NEW r \in Nat \ {0}, NEW k \in Nat, NEW u \in Nat \ {0}, u = k * r, NEW a \in Nat
  PROVE  ((a \div r) * r) \div u = a \div u
<1> DEFINE q == a \div u
           p == a \div r
           x == p * r
<1>1. q \in Nat /\ q * u <= a /\ a < q * u + u
  BY Quotient
<1>2. p \in Nat /\ p * r <= a /\ a < p * r + r
  BY Quotient
<1> HIDE DEF q, p
<1>3. (q * k) * r = q * u
  BY <1>1, ProductMoves
<1>4. q * k \in Nat /\ q * u \in Nat /\ p * r \in Nat
  BY <1>1, <1>2, SMT
<1>5. (p + 1) * r = p * r + r
  BY <1>2, SMT
<1>6. q * k <= p
  <2>1. (q * k) * r < (p + 1) * r
    BY <1>1, <1>2, <1>3, <1>4, <1>5, SMT
  <2> QED
    BY <2>1, <1>2, <1>4, ProductOrder
<1>7. q * u <= x
  <2>1. (q * k) * r <= p * r
    BY <1>2, <1>4, <1>6, ProductGrows
  <2> QED
    BY <2>1, <1>3, <1>4
<1>8. x < q * u + u
  BY <1>1, <1>2, <1>4, SMT
<1>9. x \in Nat
  BY <1>4
<1> HIDE DEF x
<1>10. x \div u = q
  BY <1>1, <1>7, <1>8, <1>9, Quotient
<1> QED
  BY <1>10 DEF p, q, x

LEMMA QuotientGrows ==
  ASSUME NEW x \in Nat, NEW y \in Nat, x <= y, NEW r \in Nat \ {0}
  PROVE  x \div r <= y \div r
<1> DEFINE p == x \div r
           q == y \div r
<1>1. p \in Nat /\ p * r <= x
  BY Quotient
<1>2. q \in Nat /\ y < q * r + r
  BY Quotient
<1> HIDE DEF p, q
<1>3. (q + 1) * r = q * r + r /\ p * r \in Nat /\ q * r \in Nat
  BY <1>1, <1>2, SMT
<1>4. p * r < (q + 1) * r
  BY <1>1, <1>2, <1>3, SMT
<1>5. p <= q
  BY <1>1, <1>2, <1>4, ProductOrder
<1> QED
  BY <1>5 DEF p, q

(* The walk over a segment sets the entry of each of its addresses.        *)
LEMMA AddressCovered ==
  ASSUME NEW m, NEW t, NEW s, NEW a \in Nat,
         RtSize(m) \in Nat \ {0}, t.unit \in Nat \ {0}, Multiple(t.unit, RtSize(m)),
         s.base \in Nat, s.size \in Nat \ {0}, Contains(s, a)
  PROVE  Entry(t, a) \in Covered(m, t, s)
<1> DEFINE r == RtSize(m)
           p == a \div r
<1>1. PICK k \in 1 .. t.unit : t.unit = k * r
  BY DEF Multiple
<1>2. k \in Nat
  BY <1>1, SMT
<1>3. (p * r) \div t.unit = a \div t.unit
  <2> DEFINE u == t.unit
  <2>1. u \in Nat \ {0} /\ u = k * r /\ r \in Nat \ {0}
    BY <1>1
  <2> HIDE DEF u, r
  <2>2. ((a \div r) * r) \div u = a \div u
    BY <1>2, <2>1, PageInEntry
  <2> QED
    BY <2>2 DEF u
<1>4. Entry(t, p * r) = Entry(t, a)
  BY <1>3 DEF Entry
<1>5. p \in s.base \div r .. (s.base + s.size - 1) \div r
  <2> DEFINE b == s.base
             c == s.base + s.size - 1
  <2>1. b \in Nat /\ c \in Nat /\ b <= a /\ a <= c
    BY SMT DEF Contains
  <2>2. r \in Nat \ {0}
    OBVIOUS
  <2> HIDE DEF b, c, r
  <2>3. b \div r <= a \div r /\ a \div r <= c \div r
    BY <2>1, <2>2, QuotientGrows
  <2>4. b \div r \in Nat /\ a \div r \in Nat /\ c \div r \in Nat
    BY <2>1, <2>2, Quotient
  <2>5. a \div r \in b \div r .. c \div r
    BY <2>3, <2>4, SMT
  <2> QED
    BY <2>5 DEF b, c
<1> QED
  BY <1>4, <1>5 DEF Covered, Pages

LEMMA EntryInTable ==
  ASSUME NEW t, NEW a \in Nat, t.unit \in Nat \ {0}, t.entries \in Nat \ {0}
  PROVE  Entry(t, a) \in 0 .. t.entries - 1
<1> DEFINE u == t.unit
           n == t.entries
           q == a \div u
<1>1. q \in Nat /\ n \in Nat \ {0}
  BY Quotient
<1> HIDE DEF u, n, q
<1>2. q % n \in 0 .. n - 1
  BY <1>1, SMT
<1> QED
  BY <1>2 DEF Entry, u, n, q

(* A coherent table answers what each segment wants in its entries.        *)
LEMMA FilledRight ==
  ASSUME NEW m, NEW t, NEW F, NEW default, NEW s \in DOMAIN F, NEW e \in Covered(m, t, s),
         e \in 0 .. t.entries - 1, Coherent(m, t, F)
  PROVE  Filled(m, t, F, default)[e] = F[s]
<1>1. F[s] \in Wanted(m, t, F, e)
  BY DEF Wanted
<1>2. \A v, w \in Wanted(m, t, F, e) : v = w
  BY DEF Coherent
<1>3. (CHOOSE v \in Wanted(m, t, F, e) : TRUE) = F[s]
  BY <1>1, <1>2
<1> QED
  BY <1>1, <1>3 DEF Filled

-------------------------------------------------------------------------------
LEMMA PageSize ==
  ASSUME NEW m, WellFormed(m)
  PROVE  RtSize(m) \in Nat \ {0}
<1>1. Len(m.levels) \in 1 .. Len(m.levels)
  BY SMT DEF WellFormed
<1> QED
  BY <1>1 DEF WellFormed, RtSize

LEMMA TableRight ==
  ASSUME NEW m, WellFormed(m), NEW t, NEW F, NEW default,
         t.unit \in Nat \ {0}, t.entries \in Nat \ {0}, Multiple(t.unit, RtSize(m)),
         Coherent(m, t, F), NEW s \in Segs(m), s \in DOMAIN F,
         NEW a \in Nat, Contains(s, a)
  PROVE  Filled(m, t, F, default)[Entry(t, a)] = F[s]
<1>1. s.base \in Nat /\ s.size \in Nat \ {0}
  BY DEF WellFormed
<1>2. Entry(t, a) \in Covered(m, t, s)
  BY <1>1, PageSize, AddressCovered
<1>3. Entry(t, a) \in 0 .. t.entries - 1
  BY EntryInTable
<1> QED
  BY <1>2, <1>3, FilledRight

LEMMA LevelKnown ==
  ASSUME NEW m, WellFormed(m), NEW i \in Crossbars(m)
  PROVE  /\ i = <<>> \/ Len(i) = 1
         /\ Len(i) + 1 \in 1 .. Len(m.levels)
         /\ i /= <<>> => Len(i) \in 1 .. Len(m.levels)
<1>1. Len(m.levels) \in Nat \ {0}
  BY DEF WellFormed
<1>2. CASE i = <<>>
  BY <1>1, <1>2, SMT
<1>3. CASE i /= <<>>
  <2>1. Len(m.levels) /= 1 /\ \E c : i = <<c>>
    BY <1>3, Zenon DEF Crossbars
  <2>2. Len(i) = 1
    BY <2>1
  <2> DEFINE n == Len(m.levels)
             l == Len(i)
  <2>3. n \in Nat \ {0} /\ n /= 1 /\ l = 1
    BY <1>1, <2>1, <2>2
  <2> HIDE DEF n, l
  <2>4. l + 1 \in 1 .. n /\ l \in 1 .. n
    BY <2>3, SMT
  <2> QED
    BY <2>2, <2>4 DEF n, l
<1> QED
  BY <1>2, <1>3

(* Coherent tables decode every address of every segment.                  *)
LEMMA DecodedRight ==
  ASSUME NEW m, WellFormed(m), TablesCoherent(m),
         NEW s \in Segs(m), NEW a \in Nat, Contains(s, a)
  PROVE  Decoded(m, s, a)
<1>1. CacheabilityTable(m)[Entry(m.mask, a)] = s.cached
  <2> DEFINE F == Cacheability(m)
             default == FALSE
  <2>1. m.mask.unit \in Nat \ {0} /\ m.mask.entries \in Nat \ {0} /\ Multiple(m.mask.unit, RtSize(m))
    BY DEF WellFormed
  <2>2. s \in DOMAIN F /\ F[s] = s.cached
    BY DEF Cacheability
  <2>3. Coherent(m, m.mask, F)
    BY DEF TablesCoherent
  <2> HIDE DEF F, default
  <2>4. Filled(m, m.mask, F, default)[Entry(m.mask, a)] = F[s]
    BY <2>1, <2>2, <2>3, TableRight
  <2> QED
    BY <2>2, <2>4 DEF CacheabilityTable, F, default
<1>2. ASSUME NEW i \in Crossbars(m), IdMatches(s.index, i)
      PROVE  RoutingTable(m, i)[Entry(Level(m, i), a)] = s.index[Len(i) + 1]
  <2> DEFINE F == NextIndex(m, i)
             t == Level(m, i)
  <2>1. t.unit \in Nat \ {0} /\ t.entries \in Nat \ {0} /\ Multiple(t.unit, RtSize(m))
    BY LevelKnown DEF WellFormed, Level
  <2>2. s \in DOMAIN F /\ F[s] = s.index[Len(i) + 1]
    BY <1>2 DEF NextIndex, AtIndex
  <2>3. Coherent(m, t, F)
    BY DEF TablesCoherent
  <2> HIDE DEF F, t
  <2>4. Filled(m, t, F, 0)[Entry(t, a)] = F[s]
    BY <2>1, <2>2, <2>3, TableRight
  <2> QED
    BY <2>2, <2>4 DEF RoutingTable, F, t
<1>3. ASSUME NEW i \in Crossbars(m), i /= <<>>
      PROVE  LocalityTable(m, i)[Entry(m.levels[Len(i)], a)] = IdMatches(s.index, i)
  <2> DEFINE F == Locality(m, i)
             t == m.levels[Len(i)]
             default == TRUE
  <2>1. t.unit \in Nat \ {0} /\ t.entries \in Nat \ {0} /\ Multiple(t.unit, RtSize(m))
    BY <1>3, LevelKnown DEF WellFormed
  <2>2. s \in DOMAIN F /\ F[s] = IdMatches(s.index, i)
    BY DEF Locality
  <2>3. Coherent(m, t, F)
    BY <1>3 DEF TablesCoherent
  <2> HIDE DEF F, t, default
  <2>4. Filled(m, t, F, default)[Entry(t, a)] = F[s]
    BY <2>1, <2>2, <2>3, TableRight
  <2> QED
    BY <2>2, <2>4 DEF LocalityTable, F, t, default
<1> QED
  BY <1>1, <1>2, <1>3 DEF Decoded

LEMMA ProbesInside ==
  ASSUME NEW m, WellFormed(m), NEW s \in Segs(m), NEW a \in Probes(m, s)
  PROVE  a \in Nat /\ Contains(s, a)
<1>1. s.base \in Nat /\ s.size \in Nat \ {0}
  BY DEF WellFormed
<1>2. CASE a = s.base
  BY <1>1, <1>2, SMT DEF Contains
<1>3. CASE a = s.base + s.size - 1
  BY <1>1, <1>3, SMT DEF Contains
<1>4. CASE a \in {x \in {p * RtSize(m) : p \in Pages(m, s)} : Contains(s, x)}
  <2>1. Contains(s, a)
    BY <1>4
  <2>2. PICK p \in Pages(m, s) : a = p * RtSize(m)
    BY <1>4
  <2>3. p \in Int /\ RtSize(m) \in Nat
    BY PageSize DEF Pages
  <2>4. a \in Int
    BY <2>2, <2>3, SMT
  <2> QED
    BY <1>1, <2>1, <2>4, SMT DEF Contains
<1> QED
  BY <1>2, <1>3, <1>4 DEF Probes

-------------------------------------------------------------------------------
(* The elaboration goes on to build the tables only once they are coherent. *)
MapInv == MapTypeOK /\ (stage = "built" => TablesCoherent(map))

LEMMA MapInvInitially == MapInit => MapInv
<1> SUFFICES ASSUME MapInit PROVE MapInv
  OBVIOUS
<1>1. Len(map.segs) \in Nat
  BY MapsAssumption DEF MapInit, WellFormed
<1> QED
  BY <1>1, SMT DEF MapInit, MapInv, MapTypeOK

LEMMA MapInvKept == MapInv /\ [MapNext]_mapVars => MapInv'
<1> SUFFICES ASSUME MapInv, [MapNext]_mapVars PROVE MapInv'
  OBVIOUS
<1> USE DEF MapInv, MapTypeOK
<1>1. Len(map.segs) \in Nat
  BY MapsAssumption DEF WellFormed
<1>2. CASE AddSegment
  BY <1>1, <1>2, SMT DEF AddSegment, Adding
<1>3. CASE RejectSegment
  <2>1. stage' \in {"ValueError", "Collision", "RunTimeError"} /\ UNCHANGED <<map, added>>
    BY <1>3, Zenon DEF RejectSegment, Throw
  <2> QED
    BY <2>1
<1>4. CASE BuildTables
  <2>1. stage' \in {"built", "RunTimeError"} /\ UNCHANGED <<map, added>>
    BY <1>4 DEF BuildTables
  <2>2. stage' = "built" => TablesCoherent(map)
    BY <1>4 DEF BuildTables
  <2>3. stage' = "built" => TablesCoherent(map')
    BY <2>1, <2>2
  <2>4. MapTypeOK'
    BY <2>1
  <2> QED
    BY <2>3, <2>4
<1>5. CASE UNCHANGED mapVars
  BY <1>5 DEF mapVars
<1> QED
  BY <1>2, <1>3, <1>4, <1>5 DEF MapNext

LEMMA MapInvDecodes == MapInv => DecodesRight
<1> SUFFICES ASSUME MapInv, stage = "built" PROVE map \in RightMaps
  BY DEF DecodesRight
<1>1. map \in Maps /\ WellFormed(map) /\ TablesCoherent(map)
  BY MapsAssumption DEF MapInv, MapTypeOK
<1>2. \A s \in Segs(map) : \A a \in Probes(map, s) : Decoded(map, s, a)
  BY <1>1, ProbesInside, DecodedRight
<1> QED
  BY <1>1, <1>2 DEF RightMaps

(* The elaboration of a platform is in one of its stages, with some prefix *)
(* of the segments of the map accepted (the sc_main of the top cells).     *)
THEOREM MapTypeAlwaysOK == MapSpec => []MapTypeOK
<1>1. MapInv => MapTypeOK
  BY DEF MapInv
<1> QED
  BY <1>1, MapInvInitially, MapInvKept, PTL DEF MapSpec

(* Whatever the segments, the widths of the fields and the number of       *)
(* levels, a platform that elaborates without an exception sends the       *)
(* accesses to each segment to its target, with its cacheability           *)
(* (mapping_table.cpp, getRoutingTable and the other tables).              *)
THEOREM AlwaysDecodesRight == MapSpec => []DecodesRight
BY MapInvInitially, MapInvKept, MapInvDecodes, PTL DEF MapSpec

-------------------------------------------------------------------------------
(* The characters.  DevInv holds with IInv: the devices and the buffers    *)
(* of the terminals (Devices); the vector holds what boots put there       *)
(* (Vectored), on a platform whose map is right (Elaborated); a routine of *)
(* a terminal only runs while a character is there to take (Answers); and  *)
(* what a program has received is older than what its buffer holds, and    *)
(* that than what the terminal has yet to give (Program).                  *)
(* The characters that may be typed.                                       *)
Chars == UNION {sys.typing[i].chars : i \in sys.channels}

DevState ==
  [typed : [sys.channels -> Seq(Chars)], rd : [sys.channels -> Nat], mode : [sys.channels -> {0, 3}],
   irq : [sys.channels -> BOOLEAN], ran : [sys.channels -> BOOLEAN],
   mask : [sys.channels -> SUBSET DOMAIN sys.irq], busy : BOOLEAN]

(* The terminal of a program.                                              *)
Id(t) == Terminal(sys, t[1], t[2])

(* The devices and the buffers; no line is unmasked but those of the boot. *)
Devices ==
  /\ dev \in DevState
  /\ full \in [sys.channels -> {0, 1}] /\ buf \in [sys.channels -> Nat \X Nat]
  /\ \A i \in sys.channels : dev.rd[i] <= Len(dev.typed[i]) /\ buf[i][2] <= dev.rd[i]
  /\ \A p \in sys.procs : dev.mask[p] \subseteq sys.mask[p]

(* Every function of the interrupt vector has been put there by a boot.    *)
Vectored ==
  \A n \in 0 .. 31 : vector[n] \in DOMAIN TaskOfIsr =>
    \E q \in sys.procs : n \in DOMAIN sys.vector[q] /\ vector[n] = sys.vector[q][n]

(* A processor runs once the platform is built.                            *)
Elaborated ==
  /\ MapInv
  /\ \A p \in sys.procs : map = TopMap[sys.top] /\ (Level_(p) /= "reset" => stage = "built")

(* The terminal of task k of processor p interrupts p.                     *)
Interrupts(p, k) == \E n \in sys.mask[p] : sys.irq[n] = <<"tty", Terminal(sys, p, k)>>

(* A routine of a terminal runs while there is a character to take.        *)
Answers(p) ==
  Level_(p) = "int" =>
    /\ sys.mask[p] /= {}
    /\ cpu[p].step \in DOMAIN TaskOfIsr =>
         \E k \in Local(p) :
           TaskOfIsr[cpu[p].step] = k /\ Interrupts(p, k) /\ Pending(dev, Terminal(sys, p, k))

(* What program t has received.                                            *)
Received(t) ==
  /\ "got" \in DOMAIN user[t] /\ user[t].got \in Seq(Nat \X Nat)
  /\ \A i \in 1 .. Len(user[t].got) :
       /\ user[t].got[i][1] = Id(t) /\ user[t].got[i][2] <= dev.rd[Id(t)]
       /\ IF user[t].got[i][2] = 0 THEN SharesTerminal(t)
          ELSE \A j \in 1 .. i - 1 : user[t].got[j][2] < user[t].got[i][2]

(* The character in the buffer of t is newer than those.                   *)
Newer(t) ==
  /\ buf[Id(t)][1] = Id(t) /\ buf[Id(t)][2] > 0
  /\ \A i \in 1 .. Len(user[t].got) : user[t].got[i][2] < buf[Id(t)][2]

(* Between the read of a buffer and its reset the character in it is old.  *)
Buffered(t) ==
  /\ kern[t].at = "tty_buf" => full[Id(t)] = 1
  /\ sys.program[t] /= "gcd" /\ kern[t].at /= "tty_reset" /\ full[Id(t)] = 1 => Newer(t)

(* A driver only serves the programs that call it: main_gcd polls its      *)
(* terminal, the others read its buffer.  Once main_gcd has seen that there *)
(* is a character, only an interrupt routine takes it away.                *)
Drives(t) ==
  /\ kern[t].at \in {"_tty_read_irq", "tty_buf", "tty_reset"} => sys.program[t] /= "gcd"
  /\ kern[t].at \in {"_tty_read", "tty_read_data"} => sys.program[t] = "gcd"
  /\ kern[t].at = "tty_read_data" => SharesTerminal(t) \/ Pending(dev, Id(t))
  /\ kern[t].at = "_timer_write" => sys.program[t] \in {"main", "tim"} /\ CallOf(t).no = "TIMER_WRITE"
  /\ kern[t].at \in {"_gcd_write", "_gcd_read"} => sys.program[t] = "gcd"
  /\ kern[t].at = "_gcd_write" => CallOf(t).no = "GCD_WRITE"
  /\ kern[t].at = "_gcd_read" => CallOf(t).no = "GCD_READ"

Program(t) == Received(t) /\ Buffered(t) /\ Drives(t)

DevInv ==
  /\ Devices /\ Vectored /\ Elaborated
  /\ \A p \in sys.procs : Answers(p)
  /\ \A t \in Tasks(sys) : Program(t)

-------------------------------------------------------------------------------
(* Arithmetic of addresses: the register that a driver reaches is one of   *)
(* the component it means (PlatformAssumption).                            *)
LEMMA SpanIs ==
  /\ DOMAIN Span = {"tty", "tim", "icu", "gcd"} /\ DOMAIN NbRegs = {"tty", "tim", "icu", "gcd"}
  /\ Span["tty"] = 4 /\ Span["tim"] = 4 /\ Span["icu"] = 8 /\ Span["gcd"] = 4
  /\ NbRegs["tty"] = 4 /\ NbRegs["tim"] = 4 /\ NbRegs["icu"] = 5 /\ NbRegs["gcd"] = 4
BY DEF Span, NbRegs, TTY_SPAN, TIMER_SPAN, ICU_SPAN, GCD_END, ICU_END

LEMMA Divides ==
  ASSUME NEW n \in Nat \ {0}, NEW q \in Nat, NEW r \in 0 .. n - 1
  PROVE  (q * n + r) \div n = q /\ (q * n + r) % n = r
<1>1. q * n \in Nat
  OBVIOUS
<1>2. (q * n + r) \div n = q
  <2>1. q * n + r \in Nat /\ q * n <= q * n + r /\ q * n + r < q * n + n
    BY <1>1
  <2> QED BY <2>1, Quotient
<1> QED BY <1>1, <1>2

(* When the platform is built, the software reaches the registers of the   *)
(* components it is linked with.                                           *)
LEMMA Reaches ==
  ASSUME MapInv, stage = "built", NEW top \in DOMAIN TopMap, map = TopMap[top],
         NEW c \in DOMAIN Span, NEW base, NEW channel \in Nat, NEW reg \in 0 .. NbRegs[c] - 1,
         Linked(top, c, base, channel)
  PROVE  /\ base \in Nat
         /\ Registers[top][base + channel * Span[c] + reg] = [dev |-> c, channel |-> channel, reg |-> reg]
<1>1. map \in Maps /\ WellFormed(map) /\ TablesCoherent(map)
  BY MapsAssumption DEF MapInv, MapTypeOK
<1>2. PICK seg \in Segs(map) :
         /\ seg.base = base /\ SegmentList(map, <<seg.index[1]>>) = {seg}
         /\ Components[top][seg.index[1] + 1] = c /\ channel * Span[c] + NbRegs[c] <= seg.size
  BY DEF Linked
<1>3. seg.base \in Nat /\ seg.size \in Nat \ {0} /\ seg.index \in Seq(Nat) /\ seg.index = <<seg.index[1]>>
  BY <1>1, <1>2 DEF WellFormed, SegmentList
<1>4. Span[c] \in Nat \ {0} /\ NbRegs[c] \in Nat /\ NbRegs[c] <= Span[c]
  BY SpanIs
<1> DEFINE port == seg.index[1]
           a == base + channel * Span[c] + reg
<1>5. channel * Span[c] \in Nat
  BY <1>4
<1>6. a \in Nat /\ Contains(seg, a) /\ a - seg.base = channel * Span[c] + reg
  <2>1. PICK x \in Nat : x = channel * Span[c]
    BY <1>5
  <2>2. PICK m \in Nat : m = NbRegs[c]
    BY <1>4
  <2>3. PICK size \in Nat : size = seg.size
    BY <1>3
  <2>4. base \in Nat /\ reg \in 0 .. m - 1 /\ x + m <= size
    BY <1>2, <1>3, <2>1, <2>2, <2>3
  <2>5. a = base + x + reg
    BY <2>1
  <2> HIDE DEF a
  <2>6. a \in Nat /\ base <= a /\ a < base + size /\ a - base = x + reg
    BY <2>4, <2>5
  <2> QED BY <1>2, <2>1, <2>3, <2>6 DEF Contains
<1>7. a \in seg.base .. seg.base + seg.size - 1
  BY <1>3, <1>6 DEF Contains
<1> HIDE DEF a
<1>8. RoutingTable(map, <<>>)[Entry(Level(map, <<>>), a)] = port
  <2>1. Decoded(map, seg, a)
    BY <1>1, <1>6, DecodedRight
  <2>2. <<>> \in Crossbars(map) /\ IdMatches(seg.index, <<>>)
    BY DEF Crossbars, IdMatches
  <2> QED BY <2>1, <2>2 DEF Decoded
<1>9. a \in Mapped(top)
  BY <1>2, <1>7 DEF Mapped
<1>10. Registers[top][a] = Access(top, Routing[top], a)
  BY <1>9 DEF Registers
<1>11. Routing[top][Entry(Level(TopMap[top], <<>>), a)] = port
  BY <1>8 DEF Routing
<1>12. (CHOOSE s \in SegmentList(TopMap[top], <<port>>) : Contains(s, a)) = seg
  BY <1>2, <1>6
<1>13. (a - seg.base) \div Span[c] = channel /\ (a - seg.base) % Span[c] = reg
  <2>1. PICK n \in Nat \ {0} : n = Span[c]
    BY <1>4
  <2>2. reg \in 0 .. n - 1
    BY <1>4, <2>1
  <2>3. (channel * n + reg) \div n = channel /\ (channel * n + reg) % n = reg
    BY <2>1, <2>2, Divides
  <2> QED BY <1>6, <2>1, <2>3
<1>14. Access(top, Routing[top], a) = [dev |-> c, channel |-> channel, reg |-> reg]
  BY <1>2, <1>11, <1>12, <1>13 DEF Access
<1>15. QED BY <1>2, <1>3, <1>10, <1>14 DEF a

-------------------------------------------------------------------------------
(* The operations of the devices (GietDevices).                            *)
(* Devices that differ in neither the characters nor the masks.            *)
Quiet(d, e) == e \in DevState /\ e.rd = d.rd /\ e.typed = d.typed /\ e.mask = d.mask

LEMMA Fields ==
  ASSUME NEW d \in DevState
  PROVE  /\ d.typed \in [sys.channels -> Seq(Chars)] /\ d.rd \in [sys.channels -> Nat]
         /\ d.mode \in [sys.channels -> {0, 3}] /\ d.irq \in [sys.channels -> BOOLEAN]
         /\ d.ran \in [sys.channels -> BOOLEAN] /\ d.mask \in [sys.channels -> SUBSET DOMAIN sys.irq]
         /\ d.busy \in BOOLEAN
BY Zenon DEF DevState

LEMMA NoticedIs ==
  ASSUME NEW d \in DevState, NEW p
  PROVE  Quiet(d, Noticed(d, p))
<1>1. (d.mode[p] /= 0) \in BOOLEAN
  OBVIOUS
<1>2. [d.ran EXCEPT ![p] = d.mode[p] /= 0] \in [sys.channels -> BOOLEAN]
  BY <1>1, Fields
<1>3. Noticed(d, p) = [d EXCEPT !.ran = [d.ran EXCEPT ![p] = d.mode[p] /= 0]]
  BY DEF Noticed, DevState
<1> DEFINE ran == [d.ran EXCEPT ![p] = d.mode[p] /= 0]
           e == [d EXCEPT !.ran = ran]
<1> HIDE DEF ran
<1>4. e \in DevState /\ e.rd = d.rd /\ e.typed = d.typed /\ e.mask = d.mask
  BY <1>2, Zenon DEF DevState, ran
<1> QED BY <1>3, <1>4 DEF Quiet, ran

(* r is register reg of a channel of a component.                          *)
IsRegister(r, c, channel, reg) == r.dev = c /\ r.channel = channel /\ r.reg = reg

LEMMA TimerStored ==
  ASSUME NEW d \in DevState, NEW i, NEW reg, NEW v, reg = TIMER_MODE => v \in {0, 3},
         NEW r, IsRegister(r, "tim", i, reg)
  PROVE  Quiet(d, AfterStore(d, r, v))
<1> DEFINE mode == [d.mode EXCEPT ![i] = v]
           ran == [d.ran EXCEPT ![i] = FALSE]
           irq == [d.irq EXCEPT ![i] = FALSE]
<1>1. r.dev = "tim" /\ r.channel = i /\ r.reg = reg
  BY DEF IsRegister
<1>2. mode \in [sys.channels -> {0, 3}] \/ reg /= TIMER_MODE
  BY Fields
<1>3. ran \in [sys.channels -> BOOLEAN] /\ irq \in [sys.channels -> BOOLEAN]
  BY Fields
<1>4. CASE reg = TIMER_MODE
  <2>1. AfterStore(d, r, v) = [d EXCEPT !.mode = mode, !.ran = ran]
    <3>1. AfterStore(d, r, v) = [d EXCEPT !.mode[i] = v, !.ran[i] = FALSE]
      <4>1. reg /= TIMER_RESETIRQ /\ r.dev /= "icu" /\ r.dev /= "gcd"
        BY <1>1, <1>4 DEF TIMER_MODE, TIMER_RESETIRQ
      <4>2. AfterStore(d, r, v) = [d EXCEPT !.mode[r.channel] = v, !.ran[r.channel] = FALSE]
        BY <1>1, <1>4, <4>1 DEF AfterStore
      <4> QED BY <1>1, <4>2
    <3>2. [d EXCEPT !.mode[i] = v, !.ran[i] = FALSE] = [d EXCEPT !.mode = mode, !.ran = ran]
      BY DEF DevState
    <3> QED BY <3>1, <3>2
  <2> DEFINE e == [d EXCEPT !.mode = mode, !.ran = ran]
  <2> HIDE DEF mode, ran
  <2>2. e \in DevState /\ e.rd = d.rd /\ e.typed = d.typed /\ e.mask = d.mask
    BY <1>2, <1>3, <1>4, Zenon DEF DevState
  <2> QED BY <2>1, <2>2 DEF Quiet
<1>5. CASE reg /= TIMER_MODE /\ reg = TIMER_RESETIRQ
  <2>1. AfterStore(d, r, v) = [d EXCEPT !.irq = irq]
    BY <1>1, <1>5 DEF AfterStore, DevState
  <2> DEFINE e == [d EXCEPT !.irq = irq]
  <2> HIDE DEF irq
  <2>2. e \in DevState /\ e.rd = d.rd /\ e.typed = d.typed /\ e.mask = d.mask
    BY <1>3, Zenon DEF DevState
  <2> QED BY <2>1, <2>2 DEF Quiet
<1>6. CASE reg /= TIMER_MODE /\ reg /= TIMER_RESETIRQ
  <2>1. AfterStore(d, r, v) = d
    BY <1>1, <1>6 DEF AfterStore
  <2> QED BY <2>1 DEF Quiet
<1> QED BY <1>4, <1>5, <1>6

LEMMA GcdStored ==
  ASSUME NEW d \in DevState, NEW i, NEW reg, NEW v,
         NEW r, IsRegister(r, "gcd", i, reg)
  PROVE  Quiet(d, AfterStore(d, r, v))
<1>1. r.dev = "gcd" /\ r.channel = i /\ r.reg = reg
  BY DEF IsRegister
<1>2. PICK busy : busy = GcdWritten(d.busy, reg) /\ busy \in BOOLEAN
  <2>1. GcdWritten(d.busy, reg) \in BOOLEAN
    BY DEF GcdWritten
  <2> QED BY <2>1
<1>3. AfterStore(d, r, v) = [d EXCEPT !.busy = busy]
  BY <1>1, <1>2 DEF AfterStore
<1> DEFINE e == [d EXCEPT !.busy = busy]
<1>4. e \in DevState /\ e.rd = d.rd /\ e.typed = d.typed /\ e.mask = d.mask
  BY <1>2, Zenon DEF DevState
<1> QED BY <1>3, <1>4 DEF Quiet

Masked(d, i, v, e) ==
  /\ e \in DevState /\ e.rd = d.rd /\ e.typed = d.typed
  /\ e.mask[i] = d.mask[i] \cup v /\ \A j \in sys.channels \ {i} : e.mask[j] = d.mask[j]

LEMMA MaskStored ==
  ASSUME NEW d \in DevState, NEW i \in sys.channels, NEW v \in SUBSET DOMAIN sys.irq,
         NEW r, IsRegister(r, "icu", i, ICU_MASK_SET)
  PROVE  Masked(d, i, v, AfterStore(d, r, v))
<1> DEFINE mask == [d.mask EXCEPT ![i] = d.mask[i] \cup v]
<1>1. r.dev = "icu" /\ r.channel = i /\ r.reg = ICU_MASK_SET
  BY DEF IsRegister
<1>2. mask \in [sys.channels -> SUBSET DOMAIN sys.irq]
  BY Fields
<1>3. AfterStore(d, r, v) = [d EXCEPT !.mask = mask]
  BY <1>1 DEF AfterStore, DevState
<1> DEFINE f == [d EXCEPT !.mask = mask]
<1> HIDE DEF mask
<1>4. f \in DevState /\ f.rd = d.rd /\ f.typed = d.typed /\ f.mask = mask
  BY <1>2, Zenon DEF DevState
<1>5. mask[i] = d.mask[i] \cup v /\ \A j \in sys.channels \ {i} : mask[j] = d.mask[j]
  BY Fields DEF mask
<1> QED BY <1>3, <1>4, <1>5 DEF Masked

(* The load of TTY_READ takes a character if there is one.                 *)
Read(d, i, e) ==
  /\ e \in DevState /\ e.typed = d.typed /\ e.mask = d.mask
  /\ Pending(d, i) => e.rd[i] = d.rd[i] + 1
  /\ ~Pending(d, i) => e.rd[i] = d.rd[i]
  /\ \A j \in sys.channels \ {i} : e.rd[j] = d.rd[j]

LEMMA ReadLoaded ==
  ASSUME NEW d \in DevState, NEW i \in sys.channels, NEW r, IsRegister(r, "tty", i, TTY_READ)
  PROVE  Read(d, i, AfterLoad(d, r))
<1> DEFINE rd == [d.rd EXCEPT ![i] = d.rd[i] + 1]
<1>1. r.dev = "tty" /\ r.channel = i /\ r.reg = TTY_READ
  BY DEF IsRegister
<1>2. rd \in [sys.channels -> Nat]
  BY Fields
<1>3. CASE Pending(d, i)
  <2>1. AfterLoad(d, r) = [d EXCEPT !.rd = rd]
    BY <1>1, <1>3 DEF AfterLoad, DevState
  <2> DEFINE f == [d EXCEPT !.rd = rd]
  <2> HIDE DEF rd
  <2>2. f \in DevState /\ f.rd = rd /\ f.typed = d.typed /\ f.mask = d.mask
    BY <1>2, Zenon DEF DevState
  <2>3. rd[i] = d.rd[i] + 1 /\ \A j \in sys.channels \ {i} : rd[j] = d.rd[j]
    BY Fields DEF rd
  <2> QED BY <1>3, <2>1, <2>2, <2>3 DEF Read
<1>4. CASE ~Pending(d, i)
  BY <1>1, <1>4 DEF AfterLoad, Read
<1> QED BY <1>3, <1>4

LEMMA ReadValue ==
  ASSUME NEW irq, NEW d, NEW i,
         NEW r, IsRegister(r, "tty", i, TTY_READ)
  PROVE  /\ Pending(d, i) => Loaded(irq, d, r) = <<i, d.rd[i] + 1>>
         /\ ~Pending(d, i) => Loaded(irq, d, r) = <<i, 0>> /\ AfterLoad(d, r) = d
<1>1. r.dev = "tty" /\ r.channel = i /\ r.reg = TTY_READ /\ TTY_READ /= TTY_STATUS
  BY DEF IsRegister, TTY_READ, TTY_STATUS
<1> QED BY <1>1 DEF Loaded, AfterLoad

LEMMA StatusValue ==
  ASSUME NEW irq, NEW d, NEW i,
         NEW r, IsRegister(r, "tty", i, TTY_STATUS)
  PROVE  Loaded(irq, d, r) = 1 => Pending(d, i)
<1>1. r.dev = "tty" /\ r.channel = i /\ r.reg = TTY_STATUS /\ TTY_READ /= TTY_STATUS
  BY DEF IsRegister, TTY_READ, TTY_STATUS
<1>2. Loaded(irq, d, r) = IF Pending(d, i) THEN 1 ELSE 0
  BY <1>1 DEF Loaded
<1> QED BY <1>2

LEMMA TickIs ==
  ASSUME NEW d \in DevState, NEW i
  PROVE  Quiet(d, AfterTick(d, i))
<1> DEFINE irq == [d.irq EXCEPT ![i] = @ \/ d.mode[i] = 3]
           ran == [d.ran EXCEPT ![i] = FALSE]
           e == [d EXCEPT !.irq = irq, !.ran = ran]
<1>1. irq \in [sys.channels -> BOOLEAN] /\ ran \in [sys.channels -> BOOLEAN]
  BY Fields
<1>2. AfterTick(d, i) = e
  BY DEF AfterTick, DevState
<1> HIDE DEF irq, ran
<1>3. e \in DevState /\ e.rd = d.rd /\ e.typed = d.typed /\ e.mask = d.mask
  BY <1>1, Zenon DEF DevState
<1> QED BY <1>2, <1>3 DEF Quiet

WithTyped(d, i, c) == [d EXCEPT !.typed[i] = Append(@, c)]

TypedAt(d, i, c, e) ==
  /\ e \in DevState /\ e.rd = d.rd /\ e.mask = d.mask
  /\ e.typed[i] = Append(d.typed[i], c) /\ \A j \in sys.channels \ {i} : e.typed[j] = d.typed[j]

LEMMA TypedIs ==
  ASSUME NEW d \in DevState, NEW i \in sys.channels, NEW c \in sys.typing[i].chars
  PROVE  TypedAt(d, i, c, WithTyped(d, i, c))
<1> DEFINE typed == [d.typed EXCEPT ![i] = Append(d.typed[i], c)]
           f == [d EXCEPT !.typed = typed]
<1>1. c \in Chars
  BY DEF Chars
<1>2. d.typed[i] \in Seq(Chars) /\ d.typed \in [sys.channels -> Seq(Chars)]
  BY Fields
<1>3. Append(d.typed[i], c) \in Seq(Chars)
  BY <1>1, <1>2
<1>4. typed \in [sys.channels -> Seq(Chars)]
  BY <1>2, <1>3
<1>5. WithTyped(d, i, c) = f
  BY DEF WithTyped, DevState
<1> HIDE DEF typed
<1>6. f \in DevState /\ f.rd = d.rd /\ f.mask = d.mask /\ f.typed = typed
  BY <1>4, Zenon DEF DevState
<1>7. typed[i] = Append(d.typed[i], c) /\ \A j \in sys.channels \ {i} : typed[j] = d.typed[j]
  BY <1>2 DEF typed
<1> QED BY <1>5, <1>6, <1>7 DEF TypedAt

LEMMA DoneIs ==
  ASSUME NEW d \in DevState
  PROVE  Quiet(d, [d EXCEPT !.busy = FALSE])
BY Zenon DEF DevState, Quiet

LEMMA OffIs == DevicesOff(sys.channels) \in DevState
<1>1. <<>> \in Seq(Chars) /\ {} \in SUBSET DOMAIN sys.irq /\ 0 \in Nat /\ 0 \in {0, 3} /\ FALSE \in BOOLEAN
  OBVIOUS
<1> QED BY <1>1 DEF DevicesOff, DevState, GcdReset

-------------------------------------------------------------------------------
(* Registers, terminals and the routines of the platforms.                 *)
LEMMA Platform ==
  ASSUME sys \in Systems, NEW p \in sys.procs
  PROVE  /\ p \in Nat /\ p \in sys.channels /\ sys.top \in DOMAIN TopMap
         /\ sys.mask[p] \subseteq DOMAIN sys.irq /\ sys.mask[p] \subseteq 0 .. 31
         /\ sys.maxtasks \in Nat \ {0} /\ sys.tasks[p] \in 1 .. sys.maxtasks
         /\ sys.mask[p] /= {} =>
              /\ Linked(sys.top, "icu", seg_icu_base, p)
              /\ Linked(sys.top, "tim", seg_timer_base, p)
<1>1. sys.maxtasks \in Nat /\ sys.tasks[p] \in 1 .. sys.maxtasks /\ sys.top \in DOMAIN TopMap
  BY SystemsAssumption
<1> QED BY <1>1, PlatformAssumption

LEMMA PlatformTask ==
  ASSUME sys \in Systems, NEW p \in sys.procs, NEW k \in Local(p)
  PROVE  /\ Terminal(sys, p, k) \in sys.channels
         /\ Linked(sys.top, "tty", seg_tty_base, Terminal(sys, p, k))
         /\ sys.program[<<p, k>>] \in {"main", "tim"} => Linked(sys.top, "tim", seg_timer_base, p)
         /\ sys.program[<<p, k>>] = "gcd" => Linked(sys.top, "gcd", seg_gcd_base, 0)
BY PlatformAssumption DEF Local

LEMMA PlatformVector ==
  ASSUME sys \in Systems, NEW p \in sys.procs, NEW q \in sys.procs,
         NEW n \in sys.mask[p] \cap DOMAIN sys.vector[q], sys.vector[q][n] \in DOMAIN TaskOfIsr
  PROVE  \E k \in Local(p) : TaskOfIsr[sys.vector[q][n]] = k /\ sys.irq[n] = <<"tty", Terminal(sys, p, k)>>
BY PlatformAssumption DEF Local

LEMMA TerminalIs ==
  ASSUME sys \in Systems, NEW p \in sys.procs, NEW k \in Local(p)
  PROVE  Terminal(sys, p, k) \in Nat
<1>1. PICK n \in Nat : n = sys.maxtasks
  BY Platform
<1>2. p \in Nat /\ k \in Nat
  BY Platform DEF Local
<1>3. p * n + k \in Nat
  BY <1>1, <1>2
<1> QED BY <1>1, <1>3 DEF Terminal

(* Two tasks have two terminals.                                           *)
LEMMA TerminalsDistinct ==
  ASSUME sys \in Systems, NEW p \in sys.procs, NEW q \in sys.procs,
         NEW k \in Local(p), NEW l \in Local(q), Terminal(sys, p, k) = Terminal(sys, q, l)
  PROVE  p = q /\ k = l
<1>1. PICK n \in Nat \ {0} : n = sys.maxtasks
  BY Platform
<1>2. p \in Nat /\ q \in Nat /\ k \in 0 .. n - 1 /\ l \in 0 .. n - 1
  <2>1. p \in Nat /\ q \in Nat /\ sys.tasks[p] \in 1 .. n /\ sys.tasks[q] \in 1 .. n
    BY <1>1, Platform
  <2> QED BY <1>1, <2>1 DEF Local
<1>3. p * n + k = q * n + l
  BY <1>1 DEF Terminal
<1>4. (p * n + k) \div n = p /\ (p * n + k) % n = k
  BY <1>1, <1>2, Divides
<1>5. (q * n + l) \div n = q /\ (q * n + l) % n = l
  BY <1>1, <1>2, Divides
<1> QED BY <1>3, <1>4, <1>5

-------------------------------------------------------------------------------
(* The registers the software reaches.                                     *)
LEMMA ComponentRegister ==
  ASSUME IInv, DevInv, stage = "built", NEW p \in sys.procs,
         NEW c \in DOMAIN Span, NEW base, NEW channel \in Nat, NEW reg \in 0 .. NbRegs[c] - 1,
         Linked(sys.top, c, base, channel)
  PROVE  Registers[sys.top][base + channel * Span[c] + reg] = [dev |-> c, channel |-> channel, reg |-> reg]
<1>1. MapInv /\ map = TopMap[sys.top] /\ sys.top \in DOMAIN TopMap
  BY Platform DEF DevInv, Elaborated, IInv, Types
<1> QED BY <1>1, Reaches

LEMMA TtyRegister ==
  ASSUME IInv, DevInv, stage = "built", NEW p \in sys.procs, NEW k \in Local(p), NEW reg \in 0 .. 3
  PROVE  IsRegister(Register(seg_tty_base, Terminal(sys, p, k), TTY_SPAN, reg), "tty", Terminal(sys, p, k), reg)
<1>1. sys \in Systems
  BY DEF IInv, Types
<1>2. Terminal(sys, p, k) \in Nat /\ Linked(sys.top, "tty", seg_tty_base, Terminal(sys, p, k))
  BY <1>1, PlatformTask, TerminalIs
<1>3. "tty" \in DOMAIN Span /\ reg \in 0 .. NbRegs["tty"] - 1 /\ Span["tty"] = TTY_SPAN
  BY SpanIs DEF TTY_SPAN
<1>4. Registers[sys.top][seg_tty_base + Terminal(sys, p, k) * Span["tty"] + reg] =
        [dev |-> "tty", channel |-> Terminal(sys, p, k), reg |-> reg]
  BY <1>2, <1>3, ComponentRegister
<1> QED BY <1>3, <1>4 DEF Register, IsRegister

LEMMA TimRegister ==
  ASSUME IInv, DevInv, stage = "built", NEW p \in sys.procs, NEW reg \in 0 .. 3,
         Linked(sys.top, "tim", seg_timer_base, p)
  PROVE  IsRegister(Register(seg_timer_base, p, TIMER_SPAN, reg), "tim", p, reg)
<1>1. p \in Nat
  BY Platform DEF IInv, Types
<1>2. "tim" \in DOMAIN Span /\ reg \in 0 .. NbRegs["tim"] - 1 /\ Span["tim"] = TIMER_SPAN
  BY SpanIs DEF TIMER_SPAN
<1>3. Registers[sys.top][seg_timer_base + p * Span["tim"] + reg] = [dev |-> "tim", channel |-> p, reg |-> reg]
  BY <1>1, <1>2, ComponentRegister
<1> QED BY <1>2, <1>3 DEF Register, IsRegister

LEMMA IcuRegister ==
  ASSUME IInv, DevInv, stage = "built", NEW p \in sys.procs, NEW reg \in 0 .. 4,
         Linked(sys.top, "icu", seg_icu_base, p)
  PROVE  IsRegister(Register(seg_icu_base, p, ICU_SPAN, reg), "icu", p, reg)
<1>1. p \in Nat
  BY Platform DEF IInv, Types
<1>2. "icu" \in DOMAIN Span /\ reg \in 0 .. NbRegs["icu"] - 1 /\ Span["icu"] = ICU_SPAN
  BY SpanIs DEF ICU_SPAN
<1>3. Registers[sys.top][seg_icu_base + p * Span["icu"] + reg] = [dev |-> "icu", channel |-> p, reg |-> reg]
  BY <1>1, <1>2, ComponentRegister
<1> QED BY <1>2, <1>3 DEF Register, IsRegister

LEMMA GcdRegister ==
  ASSUME IInv, DevInv, stage = "built", NEW p \in sys.procs, NEW reg \in 0 .. 3,
         Linked(sys.top, "gcd", seg_gcd_base, 0)
  PROVE  IsRegister(Register(seg_gcd_base, 0, 0, reg), "gcd", 0, reg)
<1>1. "gcd" \in DOMAIN Span /\ reg \in 0 .. NbRegs["gcd"] - 1 /\ Span["gcd"] = 4
  BY SpanIs
<1>2. Registers[sys.top][seg_gcd_base + 0 * Span["gcd"] + reg] = [dev |-> "gcd", channel |-> 0, reg |-> reg]
  BY <1>1, ComponentRegister
<1>3. 0 * Span["gcd"] = 0 /\ 0 * 0 = 0
  BY <1>1
<1> QED BY <1>2, <1>3 DEF Register, IsRegister

-------------------------------------------------------------------------------
(* What a step leaves alone of a program, of its terminal and of its processor. *)
SameProgram(t) ==
  /\ user'[t] = user[t] /\ kern'[t].at = kern[t].at
  /\ full'[Id(t)] = full[Id(t)] /\ buf'[Id(t)] = buf[Id(t)]

SameDuties(q) ==
  /\ cpu'[q] = cpu[q]
  /\ \A k \in Local(q) :
       /\ SameProgram(<<q, k>>)
       /\ dev'.rd[Id(<<q, k>>)] = dev.rd[Id(<<q, k>>)]
       /\ Len(dev.typed[Id(<<q, k>>)]) <= Len(dev'.typed[Id(<<q, k>>)])

LEMMA IdIs ==
  ASSUME sys \in Systems, NEW p \in sys.procs, NEW k \in Local(p)
  PROVE  Id(<<p, k>>) = Terminal(sys, p, k) /\ Id(<<p, k>>) \in sys.channels
BY PlatformTask DEF Id

LEMMA SharesAlways ==
  ASSUME sys' = sys, NEW t
  PROVE  SharesTerminal(t)' = SharesTerminal(t)
BY DEF SharesTerminal

LEMMA ReceivedKept ==
  ASSUME NEW t, Received(t), sys' = sys, "got" \in DOMAIN user'[t], user'[t].got = user[t].got,
         Id(t) \in sys.channels, dev.rd \in [sys.channels -> Nat], dev'.rd \in [sys.channels -> Nat],
         dev.rd[Id(t)] <= dev'.rd[Id(t)]
  PROVE  Received(t)'
<1>1. Id(t)' = Id(t)
  BY DEF Id
<1> DEFINE got == user[t].got
<1>2. user'[t].got \in Seq(Nat \X Nat)
  BY DEF Received
<1>3. ASSUME NEW i \in 1 .. Len(got)
      PROVE  /\ got[i][1] = Id(t) /\ got[i][2] <= dev'.rd[Id(t)]
             /\ IF got[i][2] = 0 THEN SharesTerminal(t)
                ELSE \A j \in 1 .. i - 1 : got[j][2] < got[i][2]
  <2>1. /\ got[i][1] = Id(t) /\ got[i][2] <= dev.rd[Id(t)]
        /\ IF got[i][2] = 0 THEN SharesTerminal(t)
           ELSE \A j \in 1 .. i - 1 : got[j][2] < got[i][2]
    BY DEF Received
  <2>2. got[i] \in Nat \X Nat
    BY DEF Received
  <2>3. PICK a \in Nat : a = dev.rd[Id(t)]
    OBVIOUS
  <2>4. PICK b \in Nat : b = dev'.rd[Id(t)]
    OBVIOUS
  <2>5. PICK x \in Nat : x = got[i][2]
    BY <2>2
  <2>6. x <= b
    BY <2>1, <2>3, <2>4, <2>5
  <2>7. got[i][2] <= dev'.rd[Id(t)]
    BY <2>4, <2>5, <2>6
  <2> QED BY <2>1, <2>7
<1> QED BY <1>1, <1>2, <1>3, SharesAlways DEF Received

(* No character is taken from a terminal: what was pending is pending.     *)
LEMMA StillPending ==
  ASSUME dev \in DevState, dev' \in DevState, sys' = sys, NEW i \in sys.channels,
         dev'.rd[i] = dev.rd[i], Len(dev.typed[i]) <= Len(dev'.typed[i])
  PROVE  Pending(dev, i) => Pending(dev', i)
<1> SUFFICES ASSUME Pending(dev, i) PROVE Pending(dev', i)
  OBVIOUS
<1>1. PICK a \in Nat : a = dev.rd[i]
  BY Fields
<1>2. PICK b \in Nat : b = Len(dev.typed[i])
  BY Fields
<1>3. dev'.typed \in [sys.channels -> Seq(Chars)]
  BY DEF DevState, Chars
<1>4. PICK c \in Nat : c = Len(dev'.typed[i])
  BY <1>3
<1>5. a < b
  BY <1>1, <1>2 DEF Pending
<1>6. a < c
  BY <1>2, <1>4, <1>5
<1> QED BY <1>1, <1>4, <1>6 DEF Pending

LEMMA ProgramKept ==
  ASSUME NEW t, Program(t), sys' = sys, SameProgram(t),
         Id(t) \in sys.channels, dev.rd \in [sys.channels -> Nat], dev'.rd \in [sys.channels -> Nat],
         dev.rd[Id(t)] <= dev'.rd[Id(t)], Pending(dev, Id(t)) => Pending(dev', Id(t))
  PROVE  Program(t)'
<1>1. Id(t)' = Id(t)
  BY DEF Id
<1>2. Received(t)'
  BY ReceivedKept DEF Program, SameProgram, Received
<1>3. Newer(t) => Newer(t)'
  BY <1>1 DEF Newer, SameProgram
<1>4. Buffered(t)'
  BY <1>1, <1>3 DEF Program, Buffered, SameProgram
<1>5. Drives(t)'
  BY <1>1, SharesAlways DEF Program, Drives, SameProgram, CallOf
<1> QED BY <1>2, <1>4, <1>5 DEF Program

LEMMA AnswersKept ==
  ASSUME sys \in Systems, NEW p \in sys.procs, Answers(p), sys' = sys, cpu'[p] = cpu[p],
         dev \in DevState, dev' \in DevState,
         \A k \in Local(p) :
            /\ dev'.rd[Id(<<p, k>>)] = dev.rd[Id(<<p, k>>)]
            /\ Len(dev.typed[Id(<<p, k>>)]) <= Len(dev'.typed[Id(<<p, k>>)])
  PROVE  Answers(p)'
<1>1. Local(p)' = Local(p) /\ Level_(p)' = Level_(p)
  BY DEF Local, Level_
<1>2. ASSUME NEW k \in Local(p), Pending(dev, Terminal(sys, p, k))
      PROVE  Pending(dev', Terminal(sys, p, k))
  BY <1>2, IdIs, StillPending
<1> QED BY <1>1, <1>2 DEF Answers, Interrupts

(* A step leaves the duties of the processors it does not concern.         *)
LEMMA OnlyOf ==
  ASSUME IInv, DevInv, NEW p, sys' = sys, Devices', Vectored', Elaborated',
         p \in sys.procs => Answers(p)' /\ \A k \in Local(p) : Program(<<p, k>>)',
         \A q \in sys.procs \ {p} : SameDuties(q)
  PROVE  DevInv'
<1>1. sys \in Systems /\ dev \in DevState /\ dev' \in DevState
  <2>1. DevState' = DevState
    BY DEF DevState, Chars
  <2> QED BY <2>1 DEF IInv, Types, DevInv, Devices
<1>2. dev.rd \in [sys.channels -> Nat] /\ dev'.rd \in [sys.channels -> Nat]
  BY <1>1, Fields DEF DevState
<1>3. ASSUME NEW q \in sys.procs \ {p}, NEW k \in Local(q) PROVE Program(<<q, k>>)'
  <2>1. Program(<<q, k>>)
    BY <1>1, TaskOf DEF DevInv
  <2>2. Id(<<q, k>>) \in sys.channels
    BY <1>1, IdIs
  <2>3. dev.rd[Id(<<q, k>>)] \in Nat
    BY <1>2, <2>2
  <2>4. dev.rd[Id(<<q, k>>)] <= dev'.rd[Id(<<q, k>>)]
    BY <2>3 DEF SameDuties
  <2>5. Pending(dev, Id(<<q, k>>)) => Pending(dev', Id(<<q, k>>))
    BY <1>1, <2>2, StillPending DEF SameDuties
  <2> QED BY <1>2, <2>1, <2>2, <2>4, <2>5, ProgramKept DEF SameDuties
<1>4. ASSUME NEW q \in sys.procs \ {p} PROVE Answers(q)'
  BY <1>1, AnswersKept DEF DevInv, SameDuties
<1>5. ASSUME NEW t \in Tasks(sys) PROVE Program(t)'
  <2>1. t = <<t[1], t[2]>> /\ t[1] \in sys.procs /\ t[2] \in Local(t[1])
    BY <1>1, SystemsAssumption, SMT DEF Tasks, Local
  <2> QED BY <1>3, <2>1
<1> QED BY <1>4, <1>5 DEF DevInv

-------------------------------------------------------------------------------
(* What a step that concerns no program leaves alone; boots.               *)
LEMMA KeptFacts ==
  ASSUME IInv, DevInv
  PROVE  /\ sys \in Systems /\ dev \in DevState
         /\ full \in [sys.channels -> {0, 1}] /\ buf \in [sys.channels -> Nat \X Nat]
         /\ dev.rd \in [sys.channels -> Nat] /\ dev.typed \in [sys.channels -> Seq(Chars)]
         /\ DOMAIN user = Tasks(sys) /\ DOMAIN kern = Tasks(sys)
<1>1. sys \in Systems /\ dev \in DevState
  BY DEF IInv, Types, DevInv, Devices
<1> QED BY <1>1, Fields DEF DevInv, Devices, IInv, Places

LEMMA QuietDevices ==
  ASSUME Devices, sys' = sys, full' = full, buf' = buf, Quiet(dev, dev')
  PROVE  Devices'
<1>1. DevState' = DevState
  BY DEF DevState, Chars
<1> QED BY <1>1 DEF Devices, Quiet

LEMMA SameVectors ==
  ASSUME Vectored, sys' = sys, vector' = vector
  PROVE  Vectored'
BY DEF Vectored

LEMMA SameMap ==
  ASSUME Elaborated, UNCHANGED mapVars, sys' = sys, NEW p \in sys.procs, stage = "built",
         \A q \in sys.procs \ {p} : cpu'[q] = cpu[q]
  PROVE  Elaborated'
<1>1. MapInv'
  BY MapInvKept DEF Elaborated
<1>2. \A q \in sys.procs \ {p} : Level_(q)' = Level_(q)
  BY DEF Level_
<1> QED BY <1>1, <1>2 DEF Elaborated, mapVars

(* The environment.                                                        *)
LEMMA OutsideKept ==
  ASSUME IInv, DevInv, UNCHANGED <<sys, cpu, vector, full, buf, user, kern>>, Devices', Elaborated',
         dev'.rd = dev.rd, \A i \in sys.channels : Len(dev.typed[i]) <= Len(dev'.typed[i])
  PROVE  DevInv'
<1>1. sys' = sys /\ sys \in Systems
  BY KeptFacts
<1>2. Vectored'
  BY SameVectors DEF DevInv
<1>3. ASSUME NEW q \in sys.procs PROVE SameDuties(q)
  BY <1>1, IdIs DEF SameDuties, SameProgram
<1> DEFINE p == CHOOSE p : p \notin sys.procs
<1>4. p \notin sys.procs
  BY NoSetContainsEverything
<1> HIDE DEF p
<1> QED BY <1>1, <1>2, <1>3, <1>4, OnlyOf

LEMMA QuietOutside ==
  ASSUME IInv, DevInv, UNCHANGED <<map, stage, sys, cpu, vector, full, buf, user, kern>>, MapInv', Quiet(dev, dev')
  PROVE  DevInv'
<1>1. Devices' /\ dev'.rd = dev.rd /\ dev'.typed = dev.typed
  BY QuietDevices DEF DevInv, Quiet
<1>2. Elaborated'
  BY DEF DevInv, Elaborated, Level_
<1>3. \A i \in sys.channels : Len(dev.typed[i]) <= Len(dev'.typed[i])
  <2>1. \A i \in sys.channels : Len(dev.typed[i]) \in Nat
    BY KeptFacts
  <2> QED BY <1>1, <2>1
<1> QED BY <1>1, <1>2, <1>3, OutsideKept

LEMMA ElaborateKeeps ==
  ASSUME IInv, DevInv, Elaborate
  PROVE  DevInv'
<1>1. UNCHANGED <<sys, cpu, dev, vector, full, buf, user, kern>> /\ MapNext
  BY DEF Elaborate, taskVars, callVars
<1>2. stage /= "built" /\ map' = map
  BY <1>1 DEF MapNext, AddSegment, RejectSegment, BuildTables, Adding, Throw
<1>3. MapInv'
  BY <1>1, MapInvKept DEF DevInv, Elaborated
<1>4. Elaborated'
  BY <1>1, <1>2, <1>3 DEF DevInv, Elaborated, Level_
<1>5. Quiet(dev, dev')
  BY <1>1, KeptFacts DEF Quiet
<1>6. Devices'
  BY <1>1, <1>5, QuietDevices DEF DevInv
<1>7. \A i \in sys.channels : Len(dev.typed[i]) <= Len(dev'.typed[i])
  <2>1. \A i \in sys.channels : Len(dev.typed[i]) \in Nat
    BY KeptFacts
  <2> QED BY <1>1, <2>1
<1> QED BY <1>1, <1>4, <1>6, <1>7, OutsideKept

LEMMA EnvironmentKeeps ==
  ASSUME IInv, DevInv, Environment
  PROVE  DevInv'
<1> USE DEF callVars
<1>1. dev \in DevState
  BY KeptFacts
<1>2. UNCHANGED mapVars => MapInv'
  BY MapInvKept DEF DevInv, Elaborated
<1>3. CASE \E i \in sys.channels : Tick(i)
  BY <1>1, <1>2, <1>3, TickIs, QuietOutside DEF Tick, mapVars
<1>4. CASE \E i \in sys.channels : TypeCharacter(i)
  <2>1. PICK i \in sys.channels : TypeCharacter(i)
    BY <1>4
  <2>2. PICK c \in sys.typing[i].chars : dev' = WithTyped(dev, i, c)
    BY <2>1 DEF TypeCharacter, WithTyped
  <2>3. UNCHANGED <<map, stage, sys, cpu, vector, full, buf, user, kern>> /\ MapInv'
    BY <1>2, <2>1 DEF TypeCharacter, mapVars
  <2>4. /\ dev' \in DevState /\ dev'.rd = dev.rd /\ dev'.mask = dev.mask
        /\ dev'.typed[i] = Append(dev.typed[i], c) /\ \A j \in sys.channels \ {i} : dev'.typed[j] = dev.typed[j]
    BY <1>1, <2>2, TypedIs DEF TypedAt
  <2>5. ASSUME NEW j \in sys.channels
        PROVE  Len(dev.typed[j]) \in Nat /\ Len(dev'.typed[j]) \in Nat /\ Len(dev.typed[j]) <= Len(dev'.typed[j])
    <3>1. dev.typed \in [sys.channels -> Seq(Chars)] /\ c \in Chars
      BY KeptFacts DEF Chars
    <3>2. PICK h \in Seq(Chars) : h = dev.typed[j]
      BY <3>1
    <3>3. Len(h) \in Nat /\ Len(Append(h, c)) = Len(h) + 1
      BY <3>1, <3>2
    <3>4. dev'.typed[j] = h \/ dev'.typed[j] = Append(h, c)
      BY <2>4, <3>2
    <3>5. CASE dev'.typed[j] = h
      BY <3>2, <3>3, <3>5
    <3>6. CASE dev'.typed[j] = Append(h, c)
      BY <3>2, <3>3, <3>6
    <3> QED BY <3>4, <3>5, <3>6
  <2>6. Devices'
    <3>1. DevState' = DevState
      BY <2>3 DEF DevState, Chars
    <3>2. ASSUME NEW j \in sys.channels PROVE dev'.rd[j] <= Len(dev'.typed[j]) /\ buf[j][2] <= dev'.rd[j]
      <4>1. dev.rd[j] <= Len(dev.typed[j]) /\ buf[j][2] <= dev.rd[j] /\ dev.rd[j] \in Nat
        BY KeptFacts DEF DevInv, Devices
      <4> QED BY <2>4, <2>5, <4>1
    <3> QED BY <2>3, <2>4, <3>1, <3>2 DEF DevInv, Devices
  <2>7. Elaborated'
    BY <2>3 DEF DevInv, Elaborated, Level_
  <2> QED BY <2>3, <2>4, <2>5, <2>6, <2>7, OutsideKept
<1> QED BY <1>3, <1>4 DEF Environment

LEMMA DoneKeeps ==
  ASSUME IInv, DevInv, GcdDone
  PROVE  DevInv'
<1>1. dev \in DevState /\ MapInv'
  BY KeptFacts, MapInvKept DEF DevInv, Elaborated, GcdDone
<1> QED BY <1>1, DoneIs, QuietOutside DEF GcdDone, mapVars, callVars

-------------------------------------------------------------------------------
(* A processor boots.                                                      *)
LEMMA BootKeeps ==
  ASSUME IInv, DevInv, NEW p \in sys.procs, StartProc(p)
  PROVE  DevInv'
<1>1. UNCHANGED <<sys, full, buf, user, kern>> /\ UNCHANGED mapVars /\ stage = "built"
  BY DEF StartProc, Boot, callVars
<1>2. /\ sys \in Systems /\ dev \in DevState /\ dev.rd \in [sys.channels -> Nat]
      /\ full \in [sys.channels -> {0, 1}] /\ buf \in [sys.channels -> Nat \X Nat]
      /\ dev.typed \in [sys.channels -> Seq(Chars)]
  BY KeptFacts
<1>3. /\ cpu'[p].code = <<"user", 0>>
      /\ \A q \in sys.procs \ {p} : cpu'[q] = cpu[q]
  <2>1. cpu' = [cpu EXCEPT ![p] = Booted(cpu[p])]
    BY DEF StartProc, Boot, Booted
  <2>2. cpu[p] \in Registers_ /\ Booted(cpu[p]) \in Registers_ /\ Booted(cpu[p]).code = <<"user", 0>>
    BY CurrentTask, BootedIs
  <2> QED BY <2>1, <2>2, OneMoves DEF IInv, Types
<1>4. p \in sys.channels /\ sys.mask[p] \in SUBSET DOMAIN sys.irq
  BY <1>2, Platform
<1>5. /\ dev' \in DevState /\ dev'.rd = dev.rd /\ dev'.typed = dev.typed
      /\ dev'.mask[p] \subseteq dev.mask[p] \cup sys.mask[p]
      /\ \A j \in sys.channels \ {p} : dev'.mask[j] = dev.mask[j]
  <2>1. CASE sys.mask[p] = {}
    BY <1>2, <2>1 DEF StartProc, Boot
  <2>2. CASE sys.mask[p] /= {}
    <3>1. PICK r, s :
            /\ IsRegister(r, "icu", p, ICU_MASK_SET) /\ r = Register(seg_icu_base, p, ICU_SPAN, ICU_MASK_SET)
            /\ IsRegister(s, "tim", p, TIMER_MODE) /\ s = Register(seg_timer_base, p, TIMER_SPAN, TIMER_MODE)
      <4>1. ICU_MASK_SET \in 0 .. 4 /\ TIMER_MODE \in 0 .. 3
        BY DEF ICU_MASK_SET, TIMER_MODE
      <4>2. Linked(sys.top, "icu", seg_icu_base, p) /\ Linked(sys.top, "tim", seg_timer_base, p)
        BY <1>2, <2>2, Platform
      <4> QED BY <1>1, <4>1, <4>2, IcuRegister, TimRegister
    <3>2. PICK masked :
            masked = AfterStore(dev, r, sys.mask[p]) /\ Masked(dev, p, sys.mask[p], masked)
      BY <1>2, <1>4, <3>1, MaskStored
    <3>3. PICK timed : timed = AfterStore(masked, s, 3) /\ Quiet(masked, timed)
      <4>1. 3 \in {0, 3}
        OBVIOUS
      <4> QED BY <3>1, <3>2, <4>1, TimerStored DEF Masked
    <3>4. dev' \in {masked, timed}
      BY <2>2, <3>1, <3>2, <3>3 DEF StartProc, Boot, TaskTimer
    <3>5. dev' \in DevState /\ dev'.rd = dev.rd /\ dev'.typed = dev.typed
      BY <3>2, <3>3, <3>4 DEF Masked, Quiet
    <3>6. dev'.mask = masked.mask
      BY <3>2, <3>3, <3>4 DEF Quiet
    <3>7. /\ dev'.mask[p] \subseteq dev.mask[p] \cup sys.mask[p]
          /\ \A j \in sys.channels \ {p} : dev'.mask[j] = dev.mask[j]
      BY <3>2, <3>6 DEF Masked
    <3> QED BY <3>5, <3>7
  <2> QED BY <2>1, <2>2
<1>6. Devices'
  <2>1. DevState' = DevState
    BY <1>1 DEF DevState, Chars
  <2>2. ASSUME NEW q \in sys.procs PROVE dev'.mask[q] \subseteq sys.mask[q]
    <3>1. q \in sys.channels /\ dev.mask[q] \subseteq sys.mask[q]
      BY <1>2, Platform DEF DevInv, Devices
    <3>2. dev.mask \in [sys.channels -> SUBSET DOMAIN sys.irq]
      BY <1>2, Fields
    <3> QED BY <1>4, <1>5, <3>1, <3>2
  <2> QED BY <1>1, <1>5, <2>1, <2>2 DEF DevInv, Devices
<1>7. Vectored'
  <2> SUFFICES ASSUME NEW n \in 0 .. 31, vector'[n] \in DOMAIN TaskOfIsr
               PROVE  \E q \in sys.procs : n \in DOMAIN sys.vector[q] /\ vector'[n] = sys.vector[q][n]
    BY <1>1 DEF Vectored
  <2>1. vector'[n] = IF n \in DOMAIN sys.vector[p] THEN sys.vector[p][n] ELSE vector[n]
    BY DEF StartProc, Boot
  <2> QED BY <2>1 DEF DevInv, Vectored
<1>8. Elaborated'
  BY <1>1, <1>3, SameMap DEF DevInv
<1>9. ASSUME NEW q \in sys.procs, NEW k \in Local(q)
      PROVE  /\ SameProgram(<<q, k>>) /\ Id(<<q, k>>) \in sys.channels
             /\ dev.rd[Id(<<q, k>>)] <= dev'.rd[Id(<<q, k>>)]
             /\ Len(dev.typed[Id(<<q, k>>)]) <= Len(dev'.typed[Id(<<q, k>>)])
  <2>1. Id(<<q, k>>) \in sys.channels
    BY <1>2, IdIs
  <2>2. dev.rd[Id(<<q, k>>)] \in Nat /\ Len(dev.typed[Id(<<q, k>>)]) \in Nat
    BY <1>2, <2>1
  <2> QED BY <1>1, <1>5, <2>1, <2>2 DEF SameProgram
<1>10. ASSUME NEW k \in Local(p) PROVE Program(<<p, k>>)'
  <2>1. Program(<<p, k>>)
    BY <1>2, TaskOf DEF DevInv
  <2>2. Pending(dev, Id(<<p, k>>)) => Pending(dev', Id(<<p, k>>))
    BY <1>5 DEF Pending
  <2> QED BY <1>1, <1>2, <1>5, <1>9, <2>1, <2>2, ProgramKept
<1>11. Answers(p)'
  BY <1>3 DEF Answers, Level_
<1>12. \A q \in sys.procs \ {p} : SameDuties(q)
  BY <1>3, <1>5, <1>9 DEF SameDuties
<1> QED BY <1>1, <1>6, <1>7, <1>8, <1>10, <1>11, <1>12, OnlyOf

-------------------------------------------------------------------------------
LEMMA Smallest ==
  ASSUME NEW T \in SUBSET (0 .. 31), T /= {}, NEW s, s = (CHOOSE n \in T : \A k \in T : n <= k)
  PROVE  s \in T /\ \A k \in T : s <= k
<1>1. T \in SUBSET Nat
  OBVIOUS
<1>2. \E x \in T : \A y \in T : ~(<<y, x>> \in OpToRel(<, Nat))
  <2> HIDE DEF OpToRel
  <2> QED BY <1>1, NatLessThanWellFounded, WFMin
<1>3. PICK x \in T : \A y \in T : ~(<<y, x>> \in OpToRel(<, Nat))
  BY <1>2
<1>4. ASSUME NEW y \in T PROVE x <= y
  <2>1. x \in Nat /\ y \in Nat
    BY <1>1
  <2>2. ~(y < x)
    BY <1>3, <2>1 DEF OpToRel
  <2> QED BY <2>1, <2>2
<1> QED BY <1>4

(* A step of processor p that leaves the characters and the programs alone. *)
LEMMA QuietStep ==
  ASSUME IInv, DevInv, NEW p \in sys.procs, UNCHANGED mapVars,
         UNCHANGED <<sys, vector, full, buf, user, kern>>, stage = "built", Quiet(dev, dev'),
         \A q \in sys.procs \ {p} : cpu'[q] = cpu[q], Answers(p)'
  PROVE  DevInv'
<1>1. Devices' /\ Vectored' /\ Elaborated'
  BY QuietDevices, SameVectors, SameMap DEF DevInv
<1>2. sys \in Systems /\ dev.rd \in [sys.channels -> Nat] /\ dev.typed \in [sys.channels -> Seq(Chars)]
  BY KeptFacts
<1>3. dev'.rd = dev.rd /\ dev'.typed = dev.typed
  BY DEF Quiet
<1>4. ASSUME NEW q \in sys.procs, NEW k \in Local(q)
      PROVE  /\ SameProgram(<<q, k>>) /\ Id(<<q, k>>) \in sys.channels
             /\ dev.rd[Id(<<q, k>>)] <= dev'.rd[Id(<<q, k>>)]
             /\ Len(dev.typed[Id(<<q, k>>)]) <= Len(dev'.typed[Id(<<q, k>>)])
  <2>1. Id(<<q, k>>) \in sys.channels
    BY <1>2, IdIs
  <2>2. dev.rd[Id(<<q, k>>)] \in Nat /\ Len(dev.typed[Id(<<q, k>>)]) \in Nat
    BY <1>2, <2>1
  <2> QED BY <1>3, <2>1, <2>2 DEF SameProgram
<1>5. ASSUME NEW k \in Local(p) PROVE Program(<<p, k>>)'
  <2>1. Program(<<p, k>>)
    BY <1>2, TaskOf DEF DevInv
  <2>2. Pending(dev, Id(<<p, k>>)) => Pending(dev', Id(<<p, k>>))
    BY <1>3 DEF Pending
  <2> QED BY <1>2, <1>3, <1>4, <2>1, <2>2, ProgramKept
<1>6. \A q \in sys.procs \ {p} : SameDuties(q)
  BY <1>3, <1>4 DEF SameDuties
<1> QED BY <1>1, <1>5, <1>6, OnlyOf

LEMMA Running ==
  ASSUME IInv, DevInv, NEW p \in sys.procs, Level_(p) \in {"user", "sys", "int"}
  PROVE  stage = "built"
BY DEF DevInv, Elaborated

LEMMA InterruptKeeps ==
  ASSUME IInv, DevInv, NEW p \in sys.procs, TakeInterrupt(p)
  PROVE  DevInv'
<1>1. UNCHANGED mapVars /\ UNCHANGED <<sys, dev, vector, full, buf, user, kern>>
  BY DEF TakeInterrupt, Interrupt, callVars
<1>2. stage = "built"
  BY Running DEF TakeInterrupt, Interrupt
<1>3. cpu'[p].step = "demux" /\ \A q \in sys.procs \ {p} : cpu'[q] = cpu[q]
  <2>1. cpu' = [cpu EXCEPT ![p] = Interrupted(cpu[p])]
    BY DEF TakeInterrupt, Interrupt, Interrupted
  <2>2. Interrupted(cpu[p]) \in Registers_ /\ Interrupted(cpu[p]).step = "demux"
    BY CurrentTask, InterruptedIs
  <2> QED BY <2>1, <2>2, OneMoves DEF IInv, Types
<1>4. sys.mask[p] /= {}
  <2>1. dev.mask[p] \subseteq sys.mask[p] /\ dev.mask[p] /= {}
    BY DEF DevInv, Devices, TakeInterrupt, Interrupt, Raised
  <2> QED BY <2>1
<1>5. Answers(p)'
  BY <1>1, <1>3, <1>4 DEF Answers, TaskOfIsr
<1>6. Quiet(dev, dev')
  BY <1>1, KeptFacts DEF Quiet
<1> QED BY <1>1, <1>2, <1>3, <1>5, <1>6, QuietStep

-------------------------------------------------------------------------------
(* The interrupt handler.                                                  *)
LEMMA GoesTo ==
  ASSUME IInv, NEW p \in sys.procs, NEW s \in Steps, Goto(p, s)
  PROVE  /\ cpu'[p].step = s /\ Level_(p)' = Level_(p)
         /\ \A q \in sys.procs \ {p} : cpu'[q] = cpu[q]
<1>1. cpu' = [cpu EXCEPT ![p] = Gone(cpu[p], s)]
  BY DEF Goto, Gone
<1>2. Gone(cpu[p], s) \in Registers_ /\ Gone(cpu[p], s).step = s /\ Gone(cpu[p], s).code = cpu[p].code
  BY CurrentTask, GoneIs
<1> QED BY <1>1, <1>2, OneMoves DEF IInv, Types, Level_

(* _int_demux only calls the routine of a terminal that has a character.   *)
LEMMA DemuxKeeps ==
  ASSUME IInv, DevInv, NEW p \in sys.procs, Demux(p), UNCHANGED mapVars, UNCHANGED callVars
  PROVE  DevInv'
<1>1. UNCHANGED <<sys, dev, vector, full, buf, user, kern>>
  BY DEF Demux, callVars
<1>2. Level_(p) = "int" /\ sys.mask[p] /= {} /\ stage = "built" /\ sys \in Systems
  BY Running, KeptFacts DEF Demux, InInt, DevInv, Answers
<1>3. PICK r : /\ r = Register(seg_icu_base, p, ICU_SPAN, ICU_IT_VECTOR)
               /\ IsRegister(r, "icu", p, ICU_IT_VECTOR)
  <2>1. ICU_IT_VECTOR \in 0 .. 4 /\ Linked(sys.top, "icu", seg_icu_base, p)
    BY <1>2, Platform DEF ICU_IT_VECTOR
  <2> QED BY <1>2, <2>1, IcuRegister
<1>4. Load(r) = ItVector(sys.irq, dev, p)
  <2>1. r.dev = "icu" /\ r.channel = p /\ r.reg = ICU_IT_VECTOR
    BY <1>3 DEF IsRegister
  <2> QED BY <2>1 DEF Load, Loaded
<1> DEFINE n == ItVector(sys.irq, dev, p)
           s == IF n \in DOMAIN vector THEN vector[n] ELSE "restore"
<1>5. Goto(p, s)
  BY <1>3, <1>4 DEF Demux
<1>6. DOMAIN vector = 0 .. 31
  BY DEF IInv, Types
<1>7. s \in Steps
  BY <1>6 DEF IInv, Types, Steps
<1>8. cpu'[p].step = s /\ Level_(p)' = Level_(p) /\ \A q \in sys.procs \ {p} : cpu'[q] = cpu[q]
  BY <1>5, <1>7, GoesTo
<1>9. ASSUME s \in DOMAIN TaskOfIsr
      PROVE  \E k \in Local(p) : TaskOfIsr[s] = k /\ Interrupts(p, k) /\ Pending(dev, Terminal(sys, p, k))
  <2>1. n \in 0 .. 31 /\ s = vector[n]
    BY <1>6, <1>9 DEF TaskOfIsr
  <2>2. Raised(sys.irq, dev, p) /= {}
    BY <2>1 DEF ItVector
  <2>3. dev.mask[p] \subseteq sys.mask[p] /\ sys.mask[p] \subseteq 0 .. 31
    BY <1>2, Platform DEF DevInv, Devices
  <2>4. n \in Raised(sys.irq, dev, p)
    <3> DEFINE T == Raised(sys.irq, dev, p)
    <3>1. T \in SUBSET (0 .. 31) /\ T /= {}
      BY <2>2, <2>3 DEF Raised
    <3>2. n = CHOOSE m \in T : \A k \in T : m <= k
      BY <2>2 DEF ItVector
    <3> HIDE DEF T, n
    <3> QED BY <3>1, <3>2, Smallest DEF T
  <2>5. n \in sys.mask[p] /\ Up(sys.irq, dev, n)
    BY <2>3, <2>4 DEF Raised
  <2>6. PICK q \in sys.procs : n \in DOMAIN sys.vector[q] /\ vector[n] = sys.vector[q][n]
    BY <1>9, <2>1 DEF DevInv, Vectored
  <2>7. PICK k \in Local(p) : TaskOfIsr[s] = k /\ sys.irq[n] = <<"tty", Terminal(sys, p, k)>>
    BY <1>2, <1>9, <2>1, <2>5, <2>6, PlatformVector
  <2>8. Pending(dev, Terminal(sys, p, k)) /\ Interrupts(p, k)
    BY <2>5, <2>7 DEF Up, Interrupts
  <2> QED BY <2>7, <2>8
<1> HIDE DEF s
<1>10. Answers(p)'
  BY <1>1, <1>2, <1>8, <1>9 DEF Answers, Interrupts, Local
<1>11. Quiet(dev, dev')
  BY <1>1, KeptFacts DEF Quiet
<1> QED BY <1>1, <1>2, <1>8, <1>10, <1>11, QuietStep

(* The routines of the timer, and what follows them.                       *)
LEMMA HandlerKeeps ==
  ASSUME IInv, DevInv, NEW p \in sys.procs, UNCHANGED mapVars, Level_(p) = "int",
         UNCHANGED <<sys, vector, full, buf, user, kern>>, Quiet(dev, dev'),
         \A q \in sys.procs \ {p} : cpu'[q] = cpu[q], cpu'[p].step \notin DOMAIN TaskOfIsr
  PROVE  DevInv'
<1>1. stage = "built" /\ sys.mask[p] /= {}
  BY Running DEF DevInv, Answers
<1>2. Answers(p)'
  BY <1>1 DEF Answers
<1> QED BY <1>1, <1>2, QuietStep

LEMMA AcknowledgeTimer ==
  ASSUME IInv, DevInv, NEW p \in sys.procs, Level_(p) = "int",
         Store(Register(seg_timer_base, p, TIMER_SPAN, TIMER_RESETIRQ), 0)
  PROVE  Quiet(dev, dev')
<1>1. stage = "built" /\ sys.mask[p] /= {} /\ sys \in Systems /\ dev \in DevState
  BY Running, KeptFacts DEF DevInv, Answers
<1>2. TIMER_RESETIRQ \in 0 .. 3 /\ Linked(sys.top, "tim", seg_timer_base, p)
  BY <1>1, Platform DEF TIMER_RESETIRQ
<1>3. PICK r : /\ r = Register(seg_timer_base, p, TIMER_SPAN, TIMER_RESETIRQ)
               /\ IsRegister(r, "tim", p, TIMER_RESETIRQ)
  BY <1>1, <1>2, TimRegister
<1>4. Quiet(dev, AfterStore(dev, r, 0))
  <2>1. 0 \in {0, 3}
    OBVIOUS
  <2> QED BY <1>1, <1>3, <2>1, TimerStored
<1> QED BY <1>3, <1>4 DEF Store

-------------------------------------------------------------------------------
LEMMA PollsShared ==
  ASSUME NEW p, NEW k, sys.program[<<p, k>>] = "gcd", Interrupts(p, k)
  PROVE  SharesTerminal(<<p, k>>)
<1>1. "wait" \in DOMAIN GcdCalls /\ GcdCalls["wait"].no = "TTY_READ"
  BY DEF GcdCalls
<1>2. Calls[sys.program[<<p, k>>]] = GcdCalls
  BY DEF Calls
<1> QED BY <1>1, <1>2 DEF SharesTerminal, Interrupts

(* _isr_tty_get_indexed: the character that comes into the buffer of a     *)
(* task is newer than those it has received.                               *)
LEMMA TtyGetKeeps ==
  ASSUME IInv, DevInv, NEW p \in sys.procs, IsrTtyGet(p), UNCHANGED mapVars, UNCHANGED callVars
  PROVE  DevInv'
<1>1. UNCHANGED <<sys, vector, user, kern>> /\ Level_(p) = "int"
  BY DEF IsrTtyGet, callVars
<1>2. /\ sys \in Systems /\ dev \in DevState /\ dev.rd \in [sys.channels -> Nat]
      /\ dev.typed \in [sys.channels -> Seq(Chars)]
      /\ full \in [sys.channels -> {0, 1}] /\ buf \in [sys.channels -> Nat \X Nat] /\ stage = "built"
  BY <1>1, KeptFacts, Running
<1>3. /\ sys.mask[p] /= {}
      /\ \E k \in Local(p) :
           TaskOfIsr[cpu[p].step] = k /\ Interrupts(p, k) /\ Pending(dev, Terminal(sys, p, k))
  BY <1>1 DEF DevInv, Answers, IsrTtyGet
<1>4. PICK k \in Local(p) :
        TaskOfIsr[cpu[p].step] = k /\ Interrupts(p, k) /\ Pending(dev, Terminal(sys, p, k))
  BY <1>3
<1>5. PICK i : i = Terminal(sys, p, k)
  OBVIOUS
<1>6. i \in sys.channels /\ Id(<<p, k>>) = i /\ i \in Nat
  BY <1>2, <1>5, IdIs, TerminalIs
<1>7. PICK r : /\ r = Register(seg_tty_base, i, TTY_SPAN, TTY_READ)
               /\ IsRegister(r, "tty", i, TTY_READ)
  <2>1. TTY_READ \in 0 .. 3
    BY DEF TTY_READ
  <2> QED BY <1>2, <1>5, <2>1, TtyRegister
<1>8. PICK c : c = dev.rd[i] + 1
  OBVIOUS
<1>9. buf' = [buf EXCEPT ![i] = <<i, c>>] /\ full' = [full EXCEPT ![i] = 1]
  <2>1. Load(r) = <<i, dev.rd[i] + 1>>
    BY <1>4, <1>5, <1>7, ReadValue DEF Load
  <2> QED BY <1>4, <1>5, <1>7, <1>8, <2>1 DEF IsrTtyGet
<1>10. Read(dev, i, dev')
  <2>1. dev' = AfterLoad(dev, r)
    BY <1>4, <1>5, <1>7 DEF IsrTtyGet
  <2> QED BY <1>2, <1>6, <1>7, <2>1, ReadLoaded
<1>11. /\ dev' \in DevState /\ dev'.typed = dev.typed /\ dev'.mask = dev.mask /\ dev'.rd[i] = c
       /\ \A j \in sys.channels \ {i} : dev'.rd[j] = dev.rd[j]
  BY <1>4, <1>5, <1>8, <1>10 DEF Read
<1>12. dev.rd[i] \in Nat /\ c \in Nat /\ c > dev.rd[i] /\ c <= Len(dev.typed[i])
  <2>1. PICK a \in Nat : a = dev.rd[i]
    BY <1>2, <1>6
  <2>2. PICK b \in Nat : b = Len(dev.typed[i])
    BY <1>2, <1>6
  <2>3. a < b
    BY <1>4, <1>5, <2>1, <2>2 DEF Pending
  <2>4. a + 1 <= b
    BY <2>3
  <2> QED BY <1>8, <2>1, <2>2, <2>4
<1>13. /\ full'[i] = 1 /\ buf'[i] = <<i, c>>
       /\ full' \in [sys.channels -> {0, 1}] /\ buf' \in [sys.channels -> Nat \X Nat]
       /\ \A j \in sys.channels \ {i} : full'[j] = full[j] /\ buf'[j] = buf[j]
  BY <1>2, <1>6, <1>9, <1>12
<1>14. DevState' = DevState
  BY <1>1 DEF DevState, Chars
<1>15. Devices'
  <2>1. ASSUME NEW j \in sys.channels PROVE dev'.rd[j] <= Len(dev'.typed[j]) /\ buf'[j][2] <= dev'.rd[j]
    <3>1. CASE j = i
      BY <1>11, <1>12, <1>13, <3>1
    <3>2. CASE j /= i
      BY <1>11, <1>13, <3>2 DEF DevInv, Devices
    <3> QED BY <3>1, <3>2
  <2> QED BY <1>1, <1>11, <1>13, <1>14, <2>1 DEF DevInv, Devices
<1>16. cpu'[p].step = "restore" /\ \A q \in sys.procs \ {p} : cpu'[q] = cpu[q]
  BY GoesTo DEF IsrTtyGet, Steps
<1>17. Vectored' /\ Elaborated'
  BY <1>1, <1>2, <1>16, SameVectors, SameMap DEF DevInv
<1>18. Answers(p)'
  BY <1>1, <1>3, <1>16 DEF Answers, TaskOfIsr
<1>19. dev'.rd \in [sys.channels -> Nat]
  BY <1>11, Fields
<1>20. ASSUME NEW q \in sys.procs, NEW l \in Local(q), q /= p \/ l /= k
       PROVE  /\ SameProgram(<<q, l>>) /\ Id(<<q, l>>) \in sys.channels
              /\ dev'.rd[Id(<<q, l>>)] = dev.rd[Id(<<q, l>>)] /\ dev.rd[Id(<<q, l>>)] \in Nat
  <2>1. Id(<<q, l>>) \in sys.channels \ {i}
    BY <1>2, <1>5, <1>20, IdIs, TerminalsDistinct
  <2> QED BY <1>1, <1>2, <1>11, <1>13, <2>1 DEF SameProgram
<1>21. Program(<<p, k>>)'
  <2> DEFINE t == <<p, k>>
  <2>1. Program(t)
    BY <1>2, TaskOf DEF DevInv
  <2>2. Id(t) = i /\ Id(t)' = i
    BY <1>1, <1>6 DEF Id
  <2> HIDE DEF t
  <2>3. Received(t)'
    <3>1. Received(t) /\ "got" \in DOMAIN user'[t] /\ user'[t].got = user[t].got /\ Id(t) \in sys.channels
      BY <1>1, <1>6, <2>1, <2>2 DEF Program, Received
    <3>2. dev.rd[Id(t)] <= dev'.rd[Id(t)]
      BY <1>11, <1>12, <2>2
    <3> QED BY <1>1, <1>2, <1>19, <3>1, <3>2, ReceivedKept
  <2>4. Newer(t)'
    <3>1. ASSUME NEW j \in 1 .. Len(user[t].got) PROVE user[t].got[j][2] < c
      <4>1. user[t].got[j][2] <= dev.rd[i] /\ user[t].got[j] \in Nat \X Nat
        BY <2>1, <2>2 DEF Program, Received
      <4>2. PICK x \in Nat : x = user[t].got[j][2]
        BY <4>1
      <4>3. PICK a \in Nat : a = dev.rd[i]
        BY <1>12
      <4> QED BY <1>12, <4>1, <4>2, <4>3
    <3>2. buf'[i][1] = i /\ buf'[i][2] = c /\ c > 0
      BY <1>12, <1>13
    <3> QED BY <1>1, <2>2, <3>1, <3>2 DEF Newer
  <2>5. Buffered(t)'
    BY <1>13, <2>2, <2>4 DEF Buffered
  <2>6. Drives(t)'
    <3>1. sys.program[t] = "gcd" => SharesTerminal(t)
      BY <1>4, PollsShared DEF t
    <3> QED BY <1>1, <2>1, <3>1, SharesAlways DEF Program, Drives, CallOf
  <2>7. Program(t)'
    BY <2>3, <2>5, <2>6 DEF Program
  <2> QED BY <2>7 DEF t
<1>22. ASSUME NEW l \in Local(p) PROVE Program(<<p, l>>)'
  <2>1. CASE l = k
    BY <1>21, <2>1
  <2>2. CASE l /= k
    <3>1. Program(<<p, l>>)
      BY <1>2, TaskOf DEF DevInv
    <3>2. dev.rd[Id(<<p, l>>)] <= dev'.rd[Id(<<p, l>>)]
      BY <1>20, <2>2
    <3>3. Pending(dev, Id(<<p, l>>)) => Pending(dev', Id(<<p, l>>))
      BY <1>11, <1>20, <2>2 DEF Pending
    <3> QED BY <1>1, <1>2, <1>19, <1>20, <2>2, <3>1, <3>2, <3>3, ProgramKept
  <2> QED BY <2>1, <2>2
<1>23. ASSUME NEW q \in sys.procs \ {p} PROVE SameDuties(q)
  <2>1. ASSUME NEW l \in Local(q) PROVE Len(dev.typed[Id(<<q, l>>)]) \in Nat
    BY <1>2, <1>20
  <2> QED BY <1>11, <1>16, <1>20, <2>1 DEF SameDuties
<1> QED BY <1>1, <1>15, <1>17, <1>18, <1>22, <1>23, OnlyOf

(* The handler of interrupts.                                              *)
LEMMA HandleKeeps ==
  ASSUME IInv, DevInv, NEW p \in sys.procs, HandleInterrupt(p)
  PROVE  DevInv'
<1>1. UNCHANGED mapVars /\ UNCHANGED callVars /\ UNCHANGED <<user, kern>>
  BY DEF HandleInterrupt, callVars
<1>2. {"restore", "_ctx_switch"} \subseteq Steps
      /\ {"restore", "_ctx_switch", "eret", "none"} \cap DOMAIN TaskOfIsr = {}
  BY DEF Steps, TaskOfIsr
<1>3. dev' = dev => Quiet(dev, dev')
  BY KeptFacts DEF Quiet
<1>4. CASE Demux(p)
  BY <1>1, <1>4, DemuxKeeps
<1>5. CASE IsrTimer(p)
  <2>1. Level_(p) = "int" /\ Goto(p, "restore") /\ UNCHANGED <<sys, vector, full, buf>>
    BY <1>5 DEF IsrTimer, InInt
  <2>2. Quiet(dev, dev')
    BY <1>5, <2>1, AcknowledgeTimer DEF IsrTimer
  <2>3. cpu'[p].step = "restore" /\ \A q \in sys.procs \ {p} : cpu'[q] = cpu[q]
    BY <1>2, <2>1, GoesTo
  <2> QED BY <1>1, <1>2, <2>1, <2>2, <2>3, HandlerKeeps
<1>6. CASE IsrTtyGet(p)
  BY <1>1, <1>6, TtyGetKeeps
<1>7. CASE IsrSwitch(p)
  <2>1. Level_(p) = "int" /\ Goto(p, "_ctx_switch") /\ UNCHANGED <<sys, vector, full, buf>>
    BY <1>7 DEF IsrSwitch, InInt
  <2>2. Quiet(dev, dev')
    BY <1>7, <2>1, AcknowledgeTimer DEF IsrSwitch
  <2>3. cpu'[p].step = "_ctx_switch" /\ \A q \in sys.procs \ {p} : cpu'[q] = cpu[q]
    BY <1>2, <2>1, GoesTo
  <2> QED BY <1>1, <1>2, <2>1, <2>2, <2>3, HandlerKeeps
<1>8. CASE CtxSwitch(p)
  <2>1. Level_(p) = "int" /\ UNCHANGED <<sys, dev, vector, full, buf>>
    BY <1>8 DEF CtxSwitch, InInt
  <2>2. CASE sys.tasks[p] <= 1
    <3>1. cpu'[p].step = "restore" /\ \A q \in sys.procs \ {p} : cpu'[q] = cpu[q]
      BY <1>2, <1>8, <2>2, GoesTo DEF CtxSwitch
    <3> QED BY <1>1, <1>2, <1>3, <2>1, <3>1, HandlerKeeps
  <2>3. CASE ~(sys.tasks[p] <= 1)
    <3> DEFINE n == (cur[p] + 1) % sys.tasks[p]
               new == <<p, n>>
    <3>1. TaskSwitch(p, n)
      BY <1>8, <2>3 DEF CtxSwitch
    <3>2. sys.tasks[p] \in Nat /\ cur[p] \in Local(p) /\ sys \in Systems /\ cpu[p] \in Registers_
      BY TaskOf, CurrentTask DEF IInv, Types
    <3>3. new \in Tasks(sys)
      <4>1. n \in Local(p)
        BY <2>3, <3>2, NextTask DEF Local
      <4> QED BY <3>2, <4>1, TaskOf
    <3>4. ctx[new] \in Context
      BY <3>3 DEF IInv, Types
    <3>5. cpu'[p].step = ctx[new].ra /\ \A q \in sys.procs \ {p} : cpu'[q] = cpu[q]
      <4>1. cpu' = [cpu EXCEPT ![p] = Switched(cpu[p], ctx[new])]
        BY <3>1 DEF TaskSwitch, Switched
      <4>2. Switched(cpu[p], ctx[new]) \in Registers_ /\ Switched(cpu[p], ctx[new]).step = ctx[new].ra
        BY <3>2, <3>4, SwitchedIs
      <4> QED BY <4>1, <4>2, OneMoves DEF IInv, Types
    <3>6. ctx[new].ra \in {"restore", "eret"}
      BY <3>4 DEF Context
    <3>7. cpu'[p].step \notin DOMAIN TaskOfIsr
      BY <1>2, <3>5, <3>6
    <3> QED BY <1>1, <1>3, <2>1, <3>5, <3>7, HandlerKeeps
  <2> QED BY <2>2, <2>3
<1>9. CASE Restore(p)
  <2>1. Level_(p) = "int" /\ UNCHANGED <<sys, dev, vector, full, buf>>
    BY <1>9 DEF Restore
  <2>2. cpu'[p].step = "none" /\ \A q \in sys.procs \ {p} : cpu'[q] = cpu[q]
    <3>1. PICK f : cpu' = [cpu EXCEPT ![p] = Restored(cpu[p], f)]
      BY <1>9 DEF Restore, Restored
    <3>2. cpu \in [sys.procs -> Registers_] /\ cpu[p] \in Registers_
      BY CurrentTask DEF IInv, Types
    <3>3. Restored(cpu[p], f).step = "none"
      BY <3>2, Zenon DEF Restored, Registers_
    <3> QED BY <3>1, <3>2, <3>3
  <2> QED BY <1>1, <1>2, <1>3, <2>1, <2>2, HandlerKeeps
<1> QED BY <1>4, <1>5, <1>6, <1>7, <1>8, <1>9 DEF HandleInterrupt, Handle

-------------------------------------------------------------------------------
(* The programs and their system calls.                                    *)
(* The program that a processor runs, and its terminal.                    *)
LEMMA Caller ==
  ASSUME IInv, DevInv, NEW p \in sys.procs, Level_(p) \in {"user", "sys"}
  PROVE  /\ Task(p) = <<p, cur[p]>> /\ Task(p) \in Tasks(sys) /\ cur[p] \in Local(p)
         /\ Id(Task(p)) = tty_id(p) /\ tty_id(p) \in sys.channels
         /\ Program(Task(p)) /\ stage = "built"
         /\ "at" \in DOMAIN kern[Task(p)] /\ "at" \in DOMAIN user[Task(p)]
         /\ Level_(p) = "user" => kern[Task(p)].at = "out"
<1>1. Runs(p)
  BY DEF IInv, Keeps, Current
<1>2. Task(p) = <<p, cur[p]>> /\ (Level_(p) = "user" => kern[<<p, cur[p]>>].at = "out")
  BY <1>1 DEF Runs, LeftOff, Level_, Task
<1>3. <<p, cur[p]>> \in Tasks(sys) /\ cur[p] \in Local(p) /\ sys \in Systems
  BY CurrentTask DEF IInv, Types
<1>4. Id(<<p, cur[p]>>) = tty_id(p) /\ tty_id(p) \in sys.channels
  BY <1>3, IdIs DEF tty_id
<1>5. Program(<<p, cur[p]>>) /\ Labelled(<<p, cur[p]>>)
  BY <1>3 DEF DevInv, IInv, Places
<1>6. stage = "built"
  BY Running
<1> QED BY <1>2, <1>3, <1>4, <1>5, <1>6 DEF Labelled

(* A step of a program, or of a driver for it.                             *)
LEMMA CallerStep ==
  ASSUME IInv, DevInv, NEW p \in sys.procs, NEW t, t = Task(p), Level_(p) \in {"user", "sys"}, UNCHANGED mapVars,
         UNCHANGED <<sys, vector>>, \A q \in sys.procs \ {p} : cpu'[q] = cpu[q], Answers(p)',
         \A u \in Tasks(sys) \ {t} : user'[u] = user[u] /\ kern'[u] = kern[u],
         \A j \in sys.channels \ {tty_id(p)} :
            full'[j] = full[j] /\ buf'[j] = buf[j] /\ dev'.rd[j] = dev.rd[j],
         dev'.typed = dev.typed, Devices', Program(t)'
  PROVE  DevInv'
<1>1. /\ t = <<p, cur[p]>> /\ cur[p] \in Local(p) /\ stage = "built"
      /\ tty_id(p) = Terminal(sys, p, cur[p]) /\ sys \in Systems
  BY Caller, KeptFacts DEF tty_id
<1>2. Vectored' /\ Elaborated'
  BY <1>1, SameVectors, SameMap DEF DevInv
<1>3. dev.rd \in [sys.channels -> Nat] /\ dev.typed \in [sys.channels -> Seq(Chars)]
  BY KeptFacts
<1>4. dev'.rd \in [sys.channels -> Nat]
  <2>1. DevState' = DevState
    BY DEF DevState, Chars
  <2>2. dev' \in DevState
    BY <2>1 DEF Devices
  <2> QED BY <2>2, Fields
<1>5. ASSUME NEW q \in sys.procs, NEW l \in Local(q), q /= p \/ l /= cur[p]
      PROVE  /\ SameProgram(<<q, l>>) /\ Id(<<q, l>>) \in sys.channels
             /\ dev'.rd[Id(<<q, l>>)] = dev.rd[Id(<<q, l>>)] /\ dev.rd[Id(<<q, l>>)] \in Nat
  <2>1. Id(<<q, l>>) \in sys.channels \ {tty_id(p)}
    BY <1>1, <1>5, IdIs, TerminalsDistinct
  <2>2. <<q, l>> \in Tasks(sys) \ {t}
    BY <1>1, <1>5, TaskOf
  <2> QED BY <1>3, <2>1, <2>2 DEF SameProgram
<1>6. ASSUME NEW l \in Local(p) PROVE Program(<<p, l>>)'
  <2>1. CASE l = cur[p]
    BY <1>1, <2>1
  <2>2. CASE l /= cur[p]
    <3>1. Program(<<p, l>>)
      BY <1>1, TaskOf DEF DevInv
    <3>2. dev.rd[Id(<<p, l>>)] <= dev'.rd[Id(<<p, l>>)]
      BY <1>5, <2>2
    <3>3. Pending(dev, Id(<<p, l>>)) => Pending(dev', Id(<<p, l>>))
      BY <1>5, <2>2 DEF Pending
    <3> QED BY <1>3, <1>4, <1>5, <2>2, <3>1, <3>2, <3>3, ProgramKept
  <2> QED BY <2>1, <2>2
<1>7. ASSUME NEW q \in sys.procs \ {p} PROVE SameDuties(q)
  <2>1. ASSUME NEW l \in Local(q) PROVE Len(dev.typed[Id(<<q, l>>)]) \in Nat
    BY <1>3, <1>5
  <2> QED BY <1>5, <2>1 DEF SameDuties
<1> QED BY <1>2, <1>6, <1>7, OnlyOf

LEMMA Enters ==
  ASSUME IInv, DevInv, NEW p \in sys.procs, NEW t, t = Task(p), Level_(p) \in {"user", "sys"}, NEW l, Enter(p, l)
  PROVE  kern'[t].at = l /\ \A u \in Tasks(sys) \ {t} : kern'[u] = kern[u]
<1>1. t \in Tasks(sys) /\ DOMAIN kern = Tasks(sys) /\ "at" \in DOMAIN kern[t]
  BY Caller, KeptFacts
<1> QED BY <1>1 DEF Enter

LEMMA Returns ==
  ASSUME IInv, DevInv, NEW p \in sys.procs, NEW t, t = Task(p), Level_(p) \in {"user", "sys"}, NEW ret, Return(p, ret)
  PROVE  kern'[t].at = "return" /\ \A u \in Tasks(sys) \ {t} : kern'[u] = kern[u]
<1>1. t \in Tasks(sys) /\ DOMAIN kern = Tasks(sys)
  BY Caller, KeptFacts
<1> QED BY <1>1 DEF Return

LEMMA QuietTwice ==
  ASSUME NEW d, Quiet(dev, d), NEW p, NEW e, e = Noticed(d, p)
  PROVE  Quiet(dev, e)
<1>1. d \in DevState
  BY DEF Quiet
<1>2. Quiet(d, e)
  BY <1>1, NoticedIs
<1> QED BY <1>2 DEF Quiet

(* A step of a driver that neither takes nor receives a character.         *)
LEMMA DriverQuiet ==
  ASSUME IInv, DevInv, NEW p \in sys.procs, NEW t, t = Task(p), Level_(p) = "sys", UNCHANGED mapVars,
         NEW d, Stays(p, d), Quiet(dev, d), UNCHANGED <<full, buf>>,
         user'[t].got = user[t].got /\ "got" \in DOMAIN user'[t],
         \A u \in Tasks(sys) \ {t} : user'[u] = user[u] /\ kern'[u] = kern[u],
         kern[t].at /= "tty_reset",
         \/ kern'[t].at = "return"
         \/ kern'[t].at = "tty_read_data" /\ sys.program[t] = "gcd" /\ Pending(dev, Id(t))
         \/ kern'[t].at = "tty_buf" /\ sys.program[t] /= "gcd" /\ full[Id(t)] = 1
  PROVE  DevInv'
<1>1. UNCHANGED <<sys, cpu, vector>> /\ dev' = Noticed(d, p)
  BY DEF Stays
<1>2. Quiet(dev, dev')
  BY <1>1, QuietTwice
<1>3. Devices'
  BY <1>1, <1>2, QuietDevices DEF DevInv
<1>4. Answers(p)'
  BY <1>1 DEF Answers, Level_
<1>5. /\ Program(t) /\ Id(t) \in sys.channels
      /\ dev.rd \in [sys.channels -> Nat] /\ dev'.rd = dev.rd /\ dev'.typed = dev.typed
  BY <1>2, Caller, KeptFacts DEF Quiet
<1>6. Id(t)' = Id(t)
  BY <1>1 DEF Id
<1>7. Received(t)'
  <2>1. Received(t) /\ dev.rd[Id(t)] <= dev'.rd[Id(t)]
    BY <1>5 DEF Program
  <2> QED BY <1>1, <1>5, <2>1, ReceivedKept
<1>8. Buffered(t)'
  BY <1>1, <1>5, <1>6 DEF Program, Buffered, Newer
<1>9. Drives(t)'
  <2>1. Pending(dev, Id(t)) => Pending(dev', Id(t)')
    BY <1>5, <1>6 DEF Pending
  <2> QED BY <1>1, <2>1 DEF Drives
<1>10. Program(t)'
  BY <1>7, <1>8, <1>9 DEF Program
<1> QED BY <1>1, <1>3, <1>4, <1>5, <1>10, CallerStep

(* The drivers that make one access.                                       *)
LEMMA MainRegisters ==
  \A a \in DOMAIN MainCalls : MainCalls[a].no = "TIMER_WRITE" =>
    /\ MainCalls[a].reg \in 0 .. 3 /\ MainCalls[a].reg < TIMER_SPAN
    /\ MainCalls[a].reg = TIMER_MODE => MainCalls[a].val \in {0, 3}
BY DEF MainCalls, TIMER_PERIOD, TIMER_MODE, TIMER_SPAN

LEMMA GcdRegisters ==
  \A a \in DOMAIN GcdCalls : GcdCalls[a].no \in {"GCD_WRITE", "GCD_READ"} =>
    GcdCalls[a].reg \in 0 .. 3 /\ GcdCalls[a].reg < GCD_END
BY DEF GcdCalls, GCD_OPA, GCD_OPB, GCD_START, GCD_STATUS, GCD_END

LEMMA CallKnown ==
  ASSUME IInv, NEW t \in Tasks(sys)
  PROVE  /\ sys.program[t] \in {"main", "tim"} => \E a \in DOMAIN MainCalls : CallOf(t) = MainCalls[a]
         /\ sys.program[t] = "gcd" => \E a \in DOMAIN GcdCalls : CallOf(t) = GcdCalls[a]
<1>1. user[t].at \in DOMAIN Calls[sys.program[t]]
  BY DEF IInv, Places, Labelled
<1> QED BY <1>1 DEF CallOf, Calls

LEMMA TimerWriteKeeps ==
  ASSUME IInv, DevInv, NEW p \in sys.procs, TimerWrite(p), UNCHANGED mapVars
  PROVE  DevInv'
<1>1. PICK t : t = Task(p)
  OBVIOUS
<1>2. /\ Level_(p) = "sys" /\ kern[t].at = "_timer_write" /\ t = <<p, cur[p]>> /\ t \in Tasks(sys)
      /\ cur[p] \in Local(p) /\ Program(t) /\ stage = "built" /\ sys \in Systems /\ dev \in DevState
  BY <1>1, Caller, KeptFacts DEF TimerWrite, AtStep
<1>3. sys.program[t] \in {"main", "tim"} /\ CallOf(t).no = "TIMER_WRITE"
  BY <1>2 DEF Program, Drives
<1>4. PICK a \in DOMAIN MainCalls : CallOf(t) = MainCalls[a]
  BY <1>2, <1>3, CallKnown
<1>5. PICK reg, val : /\ reg = CallOf(t).reg /\ val = CallOf(t).val
                      /\ reg \in 0 .. 3 /\ reg < TIMER_SPAN /\ (reg = TIMER_MODE => val \in {0, 3})
  BY <1>3, <1>4, MainRegisters
<1>6. ~(reg >= TIMER_SPAN)
  BY <1>5 DEF TIMER_SPAN
<1>7. PICK r : r = Register(seg_timer_base, p, TIMER_SPAN, reg) /\ IsRegister(r, "tim", p, reg)
  <2>1. Linked(sys.top, "tim", seg_timer_base, p)
    BY <1>2, <1>3, PlatformTask
  <2> QED BY <1>2, <1>5, <2>1, TimRegister
<1>8. PICK d : d = AfterStore(dev, r, val) /\ Quiet(dev, d)
  BY <1>2, <1>5, <1>7, TimerStored
<1>9. Return(p, 0) /\ Stays(p, d) /\ UNCHANGED <<full, buf, user>>
  BY <1>1, <1>5, <1>6, <1>7, <1>8 DEF TimerWrite
<1>10. kern'[t].at = "return" /\ \A u \in Tasks(sys) \ {t} : kern'[u] = kern[u]
  BY <1>1, <1>2, <1>9, Returns
<1>11. "got" \in DOMAIN user[t]
  BY <1>2 DEF Program, Received
<1> QED BY <1>1, <1>2, <1>8, <1>9, <1>10, <1>11, DriverQuiet

LEMMA GcdWriteKeeps ==
  ASSUME IInv, DevInv, NEW p \in sys.procs, GcdWrite(p), UNCHANGED mapVars
  PROVE  DevInv'
<1>1. PICK t : t = Task(p)
  OBVIOUS
<1>2. /\ Level_(p) = "sys" /\ kern[t].at = "_gcd_write" /\ t = <<p, cur[p]>> /\ t \in Tasks(sys)
      /\ cur[p] \in Local(p) /\ Program(t) /\ stage = "built" /\ sys \in Systems /\ dev \in DevState
  BY <1>1, Caller, KeptFacts DEF GcdWrite, AtStep
<1>3. sys.program[t] = "gcd" /\ CallOf(t).no = "GCD_WRITE"
  BY <1>2 DEF Program, Drives
<1>4. PICK a \in DOMAIN GcdCalls : CallOf(t) = GcdCalls[a]
  BY <1>2, <1>3, CallKnown
<1>5. PICK reg : reg = CallOf(t).reg /\ reg \in 0 .. 3 /\ reg < GCD_END
  BY <1>3, <1>4, GcdRegisters
<1>6. ~(reg >= GCD_END)
  BY <1>5 DEF GCD_END
<1>7. PICK r : r = Register(seg_gcd_base, 0, 0, reg) /\ IsRegister(r, "gcd", 0, reg)
  <2>1. Linked(sys.top, "gcd", seg_gcd_base, 0)
    BY <1>2, <1>3, PlatformTask
  <2> QED BY <1>2, <1>5, <2>1, GcdRegister
<1>8. PICK d : d = AfterStore(dev, r, 0) /\ Quiet(dev, d)
  BY <1>2, <1>7, GcdStored
<1>9. Return(p, 0) /\ Stays(p, d) /\ UNCHANGED <<full, buf, user>>
  BY <1>1, <1>5, <1>6, <1>7, <1>8 DEF GcdWrite
<1>10. kern'[t].at = "return" /\ \A u \in Tasks(sys) \ {t} : kern'[u] = kern[u]
  BY <1>1, <1>2, <1>9, Returns
<1>11. "got" \in DOMAIN user[t]
  BY <1>2 DEF Program, Received
<1> QED BY <1>1, <1>2, <1>8, <1>9, <1>10, <1>11, DriverQuiet

LEMMA GcdReadKeeps ==
  ASSUME IInv, DevInv, NEW p \in sys.procs, GcdRead(p), UNCHANGED mapVars
  PROVE  DevInv'
<1>1. PICK t : t = Task(p)
  OBVIOUS
<1>2. /\ Level_(p) = "sys" /\ kern[t].at = "_gcd_read" /\ t = <<p, cur[p]>> /\ t \in Tasks(sys)
      /\ cur[p] \in Local(p) /\ Program(t) /\ stage = "built" /\ sys \in Systems /\ dev \in DevState
  BY <1>1, Caller, KeptFacts DEF GcdRead, AtStep
<1>3. sys.program[t] = "gcd" /\ CallOf(t).no = "GCD_READ"
  BY <1>2 DEF Program, Drives
<1>4. PICK a \in DOMAIN GcdCalls : CallOf(t) = GcdCalls[a]
  BY <1>2, <1>3, CallKnown
<1>5. PICK reg : reg = CallOf(t).reg /\ reg \in 0 .. 3 /\ ~(reg >= GCD_END)
  BY <1>3, <1>4, GcdRegisters DEF GCD_END
<1>6. PICK r : r = Register(seg_gcd_base, 0, 0, reg) /\ IsRegister(r, "gcd", 0, reg)
  <2>1. Linked(sys.top, "gcd", seg_gcd_base, 0)
    BY <1>2, <1>3, PlatformTask
  <2> QED BY <1>2, <1>5, <2>1, GcdRegister
<1>7. AfterLoad(dev, r) = dev /\ Quiet(dev, dev)
  BY <1>2, <1>6 DEF AfterLoad, IsRegister, Quiet
<1>8. Stays(p, dev) /\ UNCHANGED <<full, buf, user>> /\ \E ret : Return(p, ret)
  BY <1>1, <1>5, <1>6, <1>7 DEF GcdRead
<1>9. kern'[t].at = "return" /\ \A u \in Tasks(sys) \ {t} : kern'[u] = kern[u]
  BY <1>1, <1>2, <1>8, Returns
<1>10. "got" \in DOMAIN user[t]
  BY <1>2 DEF Program, Received
<1> QED BY <1>1, <1>2, <1>7, <1>8, <1>9, <1>10, DriverQuiet

(* What a driver step starts from.                                         *)
LEMMA Driver ==
  ASSUME IInv, DevInv, NEW p \in sys.procs, NEW l, AtStep(p, l), NEW t, t = Task(p)
  PROVE  /\ Level_(p) = "sys" /\ kern[t].at = l /\ t = <<p, cur[p]>> /\ t \in Tasks(sys)
         /\ cur[p] \in Local(p) /\ Received(t) /\ Buffered(t) /\ Drives(t) /\ "got" \in DOMAIN user[t]
         /\ stage = "built" /\ sys \in Systems /\ dev \in DevState /\ Quiet(dev, dev)
         /\ tty_id(p) = Id(t) /\ Id(t) = Terminal(sys, p, cur[p]) /\ Id(t) \in sys.channels
<1>1. Level_(p) = "sys" /\ kern[t].at = l
  BY DEF AtStep
<1>2. /\ t = <<p, cur[p]>> /\ t \in Tasks(sys) /\ cur[p] \in Local(p) /\ Program(t)
      /\ stage = "built" /\ tty_id(p) = Id(t) /\ Id(t) \in sys.channels
  BY <1>1, Caller
<1>3. sys \in Systems /\ dev \in DevState
  BY KeptFacts
<1>4. Received(t) /\ Buffered(t) /\ Drives(t) /\ "got" \in DOMAIN user[t]
  BY <1>2 DEF Program, Received
<1> QED BY <1>1, <1>2, <1>3, <1>4 DEF Quiet, tty_id

LEMMA TtyWriteKeeps ==
  ASSUME IInv, DevInv, NEW p \in sys.procs, TtyWrite(p), UNCHANGED mapVars
  PROVE  DevInv'
<1>1. PICK t : t = Task(p)
  OBVIOUS
<1>2. AtStep(p, "_tty_write") /\ Stays(p, dev) /\ UNCHANGED <<full, buf, user>> /\ \E ret : Return(p, ret)
  BY DEF TtyWrite
<1>3. Level_(p) = "sys" /\ kern[t].at = "_tty_write" /\ Quiet(dev, dev) /\ "got" \in DOMAIN user[t]
  BY <1>1, <1>2, Driver
<1>4. kern'[t].at = "return" /\ \A u \in Tasks(sys) \ {t} : kern'[u] = kern[u]
  BY <1>1, <1>2, <1>3, Returns
<1> QED BY <1>1, <1>2, <1>3, <1>4, DriverQuiet

LEMMA TtyStatusKeeps ==
  ASSUME IInv, DevInv, NEW p \in sys.procs, TtyStatus(p), UNCHANGED mapVars
  PROVE  DevInv'
<1>1. PICK t : t = Task(p)
  OBVIOUS
<1>2. AtStep(p, "_tty_read") /\ Stays(p, dev) /\ UNCHANGED <<full, buf, user>>
  BY DEF TtyStatus
<1>3. /\ Level_(p) = "sys" /\ kern[t].at = "_tty_read" /\ Quiet(dev, dev) /\ "got" \in DOMAIN user[t]
      /\ Drives(t) /\ stage = "built" /\ cur[p] \in Local(p) /\ tty_id(p) = Id(t) /\ Id(t) = Terminal(sys, p, cur[p])
  BY <1>1, <1>2, Driver
<1>4. PICK r : /\ r = Register(seg_tty_base, tty_id(p), TTY_SPAN, TTY_STATUS)
               /\ IsRegister(r, "tty", Id(t), TTY_STATUS)
  <2>1. TTY_STATUS \in 0 .. 3
    BY DEF TTY_STATUS
  <2> QED BY <1>3, <2>1, TtyRegister
<1>5. Return(p, 0) \/ (Enter(p, "tty_read_data") /\ Pending(dev, Id(t)))
  <2>1. IF Load(r) = 1 THEN Enter(p, "tty_read_data") ELSE Return(p, 0)
    BY <1>4 DEF TtyStatus
  <2>2. Load(r) = 1 => Pending(dev, Id(t))
    BY <1>4, StatusValue DEF Load
  <2> QED BY <2>1, <2>2
<1>6. /\ kern'[t].at = "return" \/ (kern'[t].at = "tty_read_data" /\ Pending(dev, Id(t)))
      /\ \A u \in Tasks(sys) \ {t} : kern'[u] = kern[u]
  BY <1>1, <1>3, <1>5, Returns, Enters
<1>7. sys.program[t] = "gcd"
  BY <1>3 DEF Drives
<1> QED BY <1>1, <1>2, <1>3, <1>6, <1>7, DriverQuiet

LEMMA TtyFullKeeps ==
  ASSUME IInv, DevInv, NEW p \in sys.procs, TtyFull(p), UNCHANGED mapVars
  PROVE  DevInv'
<1>1. PICK t : t = Task(p)
  OBVIOUS
<1>2. AtStep(p, "_tty_read_irq") /\ Stays(p, dev) /\ UNCHANGED <<full, buf, user>>
      /\ IF full[tty_id(p)] = 0 THEN Return(p, 0) ELSE Enter(p, "tty_buf")
  BY DEF TtyFull
<1>3. /\ Level_(p) = "sys" /\ kern[t].at = "_tty_read_irq" /\ Quiet(dev, dev) /\ "got" \in DOMAIN user[t]
      /\ Drives(t) /\ tty_id(p) = Id(t) /\ Id(t) \in sys.channels
  BY <1>1, <1>2, Driver
<1>4. sys.program[t] /= "gcd"
  BY <1>3 DEF Drives
<1>5. CASE full[Id(t)] = 0
  <2>1. kern'[t].at = "return" /\ \A u \in Tasks(sys) \ {t} : kern'[u] = kern[u]
    BY <1>1, <1>2, <1>3, <1>5, Returns
  <2> QED BY <1>1, <1>2, <1>3, <2>1, DriverQuiet
<1>6. CASE full[Id(t)] /= 0
  <2>1. full[Id(t)] = 1
    BY <1>3, <1>6, KeptFacts
  <2>2. kern'[t].at = "tty_buf" /\ \A u \in Tasks(sys) \ {t} : kern'[u] = kern[u]
    BY <1>1, <1>2, <1>3, <1>6, Enters
  <2> QED BY <1>1, <1>2, <1>3, <1>4, <2>1, <2>2, DriverQuiet
<1> QED BY <1>5, <1>6

(* A character that is newer than all those received may be received, and  *)
(* no character at all when the terminal is shared.                        *)
LEMMA ReceivesNext ==
  ASSUME NEW t, Received(t), sys' = sys, "got" \in DOMAIN user'[t], NEW n \in Nat,
         user'[t].got = Append(user[t].got, <<Id(t), n>>), Id(t) \in Nat,
         n <= dev'.rd[Id(t)], dev.rd[Id(t)] \in Nat, dev'.rd[Id(t)] \in Nat,
         dev.rd[Id(t)] <= dev'.rd[Id(t)],
         IF n = 0 THEN SharesTerminal(t) ELSE \A j \in 1 .. Len(user[t].got) : user[t].got[j][2] < n
  PROVE  Received(t)'
<1>1. PICK i \in Nat : i = Id(t)
  OBVIOUS
<1>2. Id(t)' = i
  BY <1>1 DEF Id
<1>3. PICK got \in Seq(Nat \X Nat) : got = user[t].got
  BY DEF Received
<1>4. PICK next : next = Append(got, <<i, n>>)
  OBVIOUS
<1>5. next \in Seq(Nat \X Nat) /\ Len(next) = Len(got) + 1 /\ Len(got) \in Nat
  BY <1>3, <1>4
<1>6. \A j \in 1 .. Len(got) : next[j] = got[j]
  BY <1>3, <1>4
<1>7. next[Len(got) + 1] = <<i, n>>
  BY <1>3, <1>4
<1>8. PICK a \in Nat, b \in Nat : a = dev.rd[i] /\ b = dev'.rd[i] /\ a <= b /\ n <= b
  BY <1>1
<1>9. PICK m \in Nat : m = Len(got)
  BY <1>5
<1>10. ASSUME NEW j \in 1 .. m + 1
       PROVE  /\ next[j][1] = i /\ next[j][2] <= b
              /\ IF next[j][2] = 0 THEN SharesTerminal(t)
                 ELSE \A k \in 1 .. j - 1 : next[k][2] < next[j][2]
  <2>1. CASE j = m + 1
    <3>1. next[j][1] = i /\ next[j][2] = n
      BY <1>7, <1>9, <2>1
    <3>2. ASSUME n /= 0, NEW k \in 1 .. j - 1 PROVE next[k][2] < n
      <4>1. k \in 1 .. m
        BY <2>1
      <4> QED BY <1>3, <1>6, <1>9, <3>2, <4>1
    <3> QED BY <1>8, <3>1, <3>2
  <2>2. CASE j /= m + 1
    <3>1. j \in 1 .. m
      BY <2>2
    <3>2. /\ got[j][1] = i /\ got[j][2] <= a
          /\ IF got[j][2] = 0 THEN SharesTerminal(t) ELSE \A k \in 1 .. j - 1 : got[k][2] < got[j][2]
      BY <1>1, <1>3, <1>8, <1>9, <3>1 DEF Received
    <3>3. PICK x \in Nat : x = got[j][2]
      <4>1. j \in 1 .. Len(got)
        BY <1>9, <3>1
      <4>2. got[j] \in Nat \X Nat
        BY <1>3, <4>1
      <4> QED BY <4>2
    <3>4. \A k \in 1 .. j - 1 : k \in 1 .. m
      BY <3>1
    <3>5. x <= b
      <4>1. x <= a
        BY <3>2, <3>3
      <4> QED BY <1>8, <4>1
    <3> QED BY <1>6, <1>9, <3>1, <3>2, <3>3, <3>4, <3>5
  <2> QED BY <2>1, <2>2
<1>11. user'[t].got = next
  BY <1>1, <1>3, <1>4
<1> QED BY <1>2, <1>5, <1>8, <1>9, <1>10, <1>11, SharesAlways DEF Received

LEMMA ReceiveIs ==
  ASSUME IInv, DevInv, NEW p \in sys.procs, NEW t, t = Task(p), Level_(p) = "sys", NEW c, Receive(p, c)
  PROVE  /\ "got" \in DOMAIN user'[t] /\ user'[t].got = Append(user[t].got, c)
         /\ \A u \in Tasks(sys) \ {t} : user'[u] = user[u]
<1>1. t \in Tasks(sys) /\ DOMAIN user = Tasks(sys) /\ "got" \in DOMAIN user[t]
  BY Caller, KeptFacts DEF Program, Received
<1>2. PICK code : code = IF c[2] = 0 THEN 0 ELSE dev.typed[c[1]][c[2]]
  OBVIOUS
<1>3. user' = [user EXCEPT ![t].got = Append(@, c), ![t].code = code]
  BY <1>2 DEF Receive
<1>4. user' = [user EXCEPT ![t] = [[user[t] EXCEPT !.got = Append(user[t].got, c)] EXCEPT !.code = code]]
  BY <1>1, <1>3
<1> QED BY <1>1, <1>4

(* _tty_read: the character comes from the terminal.                       *)
LEMMA TtyDataKeeps ==
  ASSUME IInv, DevInv, NEW p \in sys.procs, TtyData(p), UNCHANGED mapVars
  PROVE  DevInv'
<1>1. PICK t : t = Task(p)
  OBVIOUS
<1>2. AtStep(p, "tty_read_data") /\ Return(p, 1) /\ UNCHANGED <<full, buf>>
  BY DEF TtyData
<1>3. /\ Level_(p) = "sys" /\ kern[t].at = "tty_read_data" /\ t = <<p, cur[p]>> /\ t \in Tasks(sys)
      /\ cur[p] \in Local(p) /\ Received(t) /\ Buffered(t) /\ Drives(t) /\ "got" \in DOMAIN user[t]
      /\ stage = "built" /\ sys \in Systems /\ dev \in DevState /\ Quiet(dev, dev)
      /\ tty_id(p) = Id(t) /\ Id(t) = Terminal(sys, p, cur[p]) /\ Id(t) \in sys.channels
  BY <1>1, <1>2, Driver
<1>4. PICK i \in Nat : i = Id(t)
  BY <1>3, TerminalIs
<1>5. PICK r : r = Register(seg_tty_base, i, TTY_SPAN, TTY_READ) /\ IsRegister(r, "tty", i, TTY_READ)
  <2>1. TTY_READ \in 0 .. 3
    BY DEF TTY_READ
  <2> QED BY <1>3, <1>4, <2>1, TtyRegister
<1>6. r.channel = i
  BY <1>5 DEF IsRegister
<1>7. PICK d : d = AfterLoad(dev, r) /\ Read(dev, i, d)
  BY <1>3, <1>4, <1>5, ReadLoaded
<1>8. Stays(p, d) /\ Receive(p, Load(r))
  BY <1>3, <1>4, <1>5, <1>6, <1>7 DEF TtyData
<1>9. kern'[t].at = "return" /\ \A u \in Tasks(sys) \ {t} : kern'[u] = kern[u]
  BY <1>1, <1>2, <1>3, Returns
<1>10. sys.program[t] = "gcd"
  BY <1>3 DEF Drives
<1>11. PICK c \in Nat : c = IF Pending(dev, i) THEN dev.rd[i] + 1 ELSE 0
  <2>1. dev.rd[i] \in Nat
    BY <1>3, <1>4, KeptFacts
  <2> QED BY <2>1
<1>12. /\ d \in DevState /\ d.typed = dev.typed /\ d.mask = dev.mask
       /\ d.rd[i] = (IF Pending(dev, i) THEN c ELSE dev.rd[i])
       /\ \A j \in sys.channels \ {i} : d.rd[j] = dev.rd[j]
  BY <1>7, <1>11 DEF Read
<1>13. PICK e : e = Noticed(d, p) /\ Quiet(d, e) /\ dev' = e /\ UNCHANGED <<sys, cpu, vector>>
  BY <1>8, <1>12, NoticedIs DEF Stays
<1>14. /\ dev' \in DevState /\ dev'.typed = dev.typed /\ dev'.mask = dev.mask
       /\ dev'.rd[i] = (IF Pending(dev, i) THEN c ELSE dev.rd[i])
       /\ \A j \in sys.channels \ {i} : dev'.rd[j] = dev.rd[j]
  BY <1>12, <1>13 DEF Quiet
<1>15. /\ dev.rd[i] \in Nat /\ dev'.rd[i] \in Nat /\ dev.rd[i] <= dev'.rd[i]
       /\ c <= dev'.rd[i] /\ dev'.rd[i] <= Len(dev.typed[i])
       /\ Pending(dev, i) => c > dev.rd[i]
       /\ ~Pending(dev, i) => c = 0
  <2>1. dev.rd \in [sys.channels -> Nat] /\ dev.typed \in [sys.channels -> Seq(Chars)]
    BY KeptFacts
  <2>2. PICK a \in Nat : a = dev.rd[i]
    BY <1>3, <1>4, <2>1
  <2>3. PICK b \in Nat : b = Len(dev.typed[i])
    BY <1>3, <1>4, <2>1
  <2>4. a <= b
    BY <1>3, <1>4, <2>2, <2>3 DEF DevInv, Devices
  <2>5. CASE Pending(dev, i)
    <3>1. a < b
      BY <2>2, <2>3, <2>5 DEF Pending
    <3> QED BY <1>11, <1>14, <2>2, <2>3, <2>5, <3>1
  <2>6. CASE ~Pending(dev, i)
    BY <1>11, <1>14, <2>2, <2>3, <2>4, <2>6
  <2> QED BY <2>5, <2>6
<1>16. Load(r) = <<i, c>>
  BY <1>5, <1>11, ReadValue DEF Load
<1>17. /\ "got" \in DOMAIN user'[t] /\ user'[t].got = Append(user[t].got, <<i, c>>)
       /\ \A u \in Tasks(sys) \ {t} : user'[u] = user[u]
  <2>1. Receive(p, <<i, c>>)
    BY <1>8, <1>16
  <2> QED BY <1>1, <1>3, <2>1, ReceiveIs
<1>18. Received(t)'
  <2>1. CASE ~Pending(dev, i)
    <3>1. SharesTerminal(t) /\ c = 0
      BY <1>3, <1>4, <1>15, <2>1 DEF Drives
    <3> QED BY <1>3, <1>4, <1>13, <1>15, <1>17, <3>1, ReceivesNext
  <2>2. CASE Pending(dev, i)
    <3>1. ASSUME NEW j \in 1 .. Len(user[t].got) PROVE user[t].got[j][2] < c
      <4>1. user[t].got[j] \in Nat \X Nat
        BY <1>3 DEF Received
      <4>2. user[t].got[j][2] <= dev.rd[i]
        BY <1>3, <1>4 DEF Received
      <4>3. PICK x \in Nat : x = user[t].got[j][2]
        BY <4>1
      <4> QED BY <1>15, <2>2, <4>2, <4>3
    <3>2. c /= 0
      BY <1>15, <2>2
    <3> QED BY <1>3, <1>4, <1>13, <1>15, <1>17, <3>1, <3>2, ReceivesNext
  <2> QED BY <2>1, <2>2
<1>19. Buffered(t)'
  BY <1>9, <1>10, <1>13 DEF Buffered
<1>20. Drives(t)'
  BY <1>9 DEF Drives
<1>21. Devices'
  <2>1. DevState' = DevState
    BY <1>13 DEF DevState, Chars
  <2>2. ASSUME NEW j \in sys.channels PROVE dev'.rd[j] <= Len(dev'.typed[j]) /\ buf[j][2] <= dev'.rd[j]
    <3>1. buf[j][2] \in Nat /\ buf[j][2] <= dev.rd[j] /\ dev.rd[j] <= Len(dev.typed[j])
      BY KeptFacts DEF DevInv, Devices
    <3>2. PICK x \in Nat : x = buf[j][2]
      BY <3>1
    <3> QED BY <1>14, <1>15, <3>1, <3>2
  <2> QED BY <1>2, <1>13, <1>14, <2>1, <2>2 DEF DevInv, Devices
<1>22. Answers(p)'
  BY <1>3, <1>13 DEF Answers, Level_
<1>23. Program(t)'
  BY <1>18, <1>19, <1>20 DEF Program
<1> QED BY <1>1, <1>2, <1>3, <1>4, <1>9, <1>13, <1>14, <1>17, <1>21, <1>22, <1>23, CallerStep

LEMMA TtyBufKeeps ==
  ASSUME IInv, DevInv, NEW p \in sys.procs, TtyBuf(p), UNCHANGED mapVars
  PROVE  DevInv'
<1>1. PICK t : t = Task(p)
  OBVIOUS
<1>2. /\ AtStep(p, "tty_buf") /\ Receive(p, buf[tty_id(p)]) /\ Enter(p, "tty_reset") /\ Stays(p, dev)
      /\ UNCHANGED <<full, buf>>
  BY DEF TtyBuf
<1>3. /\ Level_(p) = "sys" /\ kern[t].at = "tty_buf" /\ t = <<p, cur[p]>> /\ t \in Tasks(sys)
      /\ Received(t) /\ Buffered(t) /\ Drives(t) /\ Quiet(dev, dev)
      /\ tty_id(p) = Id(t) /\ Id(t) = Terminal(sys, p, cur[p]) /\ Id(t) \in sys.channels
      /\ sys \in Systems /\ cur[p] \in Local(p)
  BY <1>1, <1>2, Driver
<1>4. PICK i \in Nat : i = Id(t)
  BY <1>3, TerminalIs
<1>5. sys.program[t] /= "gcd"
  BY <1>3 DEF Drives
<1>6. full[i] = 1 /\ Newer(t)
  BY <1>3, <1>4, <1>5 DEF Buffered
<1>7. PICK n \in Nat : buf[i] = <<i, n>> /\ n > 0 /\ n <= dev.rd[i]
  <2>1. buf[i] \in Nat \X Nat /\ buf[i][2] <= dev.rd[i]
    BY <1>3, <1>4 DEF DevInv, Devices
  <2>2. PICK x \in Nat : x = buf[i][2]
    BY <2>1
  <2>3. buf[i] = <<i, x>> /\ x > 0
    BY <1>4, <1>6, <2>1, <2>2 DEF Newer
  <2> QED BY <2>1, <2>2, <2>3
<1>8. /\ "got" \in DOMAIN user'[t] /\ user'[t].got = Append(user[t].got, <<i, n>>)
      /\ \A u \in Tasks(sys) \ {t} : user'[u] = user[u]
  <2>1. Receive(p, <<i, n>>)
    BY <1>2, <1>3, <1>4, <1>7
  <2> QED BY <1>1, <1>3, <2>1, ReceiveIs
<1>9. kern'[t].at = "tty_reset" /\ \A u \in Tasks(sys) \ {t} : kern'[u] = kern[u]
  BY <1>1, <1>2, <1>3, Enters
<1>10. UNCHANGED <<sys, cpu, vector>> /\ Quiet(dev, dev')
  BY <1>2, <1>3, QuietTwice DEF Stays
<1>11. dev'.rd = dev.rd /\ dev'.typed = dev.typed /\ dev.rd[i] \in Nat
  BY <1>3, <1>4, <1>10, KeptFacts DEF Quiet
<1>12. Received(t)'
  <2>1. \A j \in 1 .. Len(user[t].got) : user[t].got[j][2] < n
    BY <1>4, <1>6, <1>7 DEF Newer
  <2>2. n <= dev'.rd[i] /\ dev.rd[i] <= dev'.rd[i] /\ dev'.rd[i] \in Nat
    BY <1>7, <1>11
  <2>3. user'[t].got = Append(user[t].got, <<Id(t), n>>) /\ Id(t) \in Nat /\ n /= 0 /\ n <= dev'.rd[Id(t)]
        /\ dev.rd[Id(t)] \in Nat /\ dev'.rd[Id(t)] \in Nat /\ dev.rd[Id(t)] <= dev'.rd[Id(t)]
    BY <1>4, <1>7, <1>8, <1>11, <2>2
  <2> QED BY <1>3, <1>8, <1>10, <2>1, <2>3, ReceivesNext
<1>13. Buffered(t)'
  BY <1>9 DEF Buffered
<1>14. Drives(t)'
  BY <1>5, <1>9, <1>10 DEF Drives
<1>15. Devices'
  BY <1>2, <1>10, QuietDevices DEF DevInv
<1>16. Answers(p)'
  BY <1>3, <1>10 DEF Answers, Level_
<1>17. Program(t)'
  BY <1>12, <1>13, <1>14 DEF Program
<1> QED BY <1>1, <1>2, <1>3, <1>8, <1>9, <1>10, <1>11, <1>15, <1>16, <1>17, CallerStep

LEMMA TtyResetKeeps ==
  ASSUME IInv, DevInv, NEW p \in sys.procs, TtyReset(p), UNCHANGED mapVars
  PROVE  DevInv'
<1>1. PICK t : t = Task(p)
  OBVIOUS
<1>2. /\ AtStep(p, "tty_reset") /\ full' = [full EXCEPT ![tty_id(p)] = 0] /\ Return(p, 1) /\ Stays(p, dev)
      /\ UNCHANGED <<buf, user>>
  BY DEF TtyReset
<1>3. /\ Level_(p) = "sys" /\ t \in Tasks(sys) /\ Received(t) /\ Drives(t) /\ Quiet(dev, dev)
      /\ tty_id(p) = Id(t) /\ Id(t) \in sys.channels /\ "got" \in DOMAIN user[t]
  BY <1>1, <1>2, Driver
<1>4. kern'[t].at = "return" /\ \A u \in Tasks(sys) \ {t} : kern'[u] = kern[u]
  BY <1>1, <1>2, <1>3, Returns
<1>5. UNCHANGED <<sys, cpu, vector>> /\ Quiet(dev, dev')
  BY <1>2, <1>3, QuietTwice DEF Stays
<1>6. dev'.rd = dev.rd /\ dev'.typed = dev.typed /\ dev.rd \in [sys.channels -> Nat]
  BY <1>5, KeptFacts DEF Quiet
<1>7. /\ full' \in [sys.channels -> {0, 1}] /\ full'[Id(t)] = 0
      /\ \A j \in sys.channels \ {tty_id(p)} : full'[j] = full[j]
  BY <1>2, <1>3, KeptFacts
<1>8. Devices'
  <2>1. DevState' = DevState
    BY <1>5 DEF DevState, Chars
  <2> QED BY <1>2, <1>5, <1>7, <2>1 DEF DevInv, Devices, Quiet
<1>9. Received(t)'
  <2>1. dev'.rd \in [sys.channels -> Nat] /\ dev.rd[Id(t)] <= dev'.rd[Id(t)]
    BY <1>3, <1>6
  <2> QED BY <1>2, <1>3, <1>5, <1>6, <2>1, ReceivedKept
<1>10. Buffered(t)'
  <2>1. Id(t)' = Id(t)
    BY <1>5 DEF Id
  <2> QED BY <1>4, <1>7, <2>1 DEF Buffered
<1>11. Drives(t)'
  BY <1>4 DEF Drives
<1>12. Answers(p)'
  BY <1>3, <1>5 DEF Answers, Level_
<1>13. Program(t)'
  BY <1>9, <1>10, <1>11 DEF Program
<1> QED BY <1>1, <1>2, <1>3, <1>4, <1>5, <1>6, <1>7, <1>8, <1>12, <1>13, CallerStep

-------------------------------------------------------------------------------
(* The driver a call of a program enters.                                  *)
LEMMA CallEnters ==
  ASSUME IInv, NEW t \in Tasks(sys), NEW l, l = SyscallVector[CallOf(t).no]
  PROVE  /\ l \notin {"tty_buf", "tty_reset", "tty_read_data"}
         /\ l = "_tty_read_irq" => sys.program[t] /= "gcd"
         /\ l = "_tty_read" => sys.program[t] = "gcd"
         /\ l = "_timer_write" => sys.program[t] \in {"main", "tim"} /\ CallOf(t).no = "TIMER_WRITE"
         /\ l = "_gcd_write" => sys.program[t] = "gcd" /\ CallOf(t).no = "GCD_WRITE"
         /\ l = "_gcd_read" => sys.program[t] = "gcd" /\ CallOf(t).no = "GCD_READ"
<1>1. sys.program[t] \in DOMAIN Calls /\ user[t].at \in DOMAIN Calls[sys.program[t]]
  BY SystemsAssumption DEF IInv, Types, Places, Labelled
<1>2. \A no \in DOMAIN SyscallVector :
        /\ SyscallVector[no] \notin {"tty_buf", "tty_reset", "tty_read_data"}
        /\ SyscallVector[no] = "_tty_read_irq" => no = "TTY_READ_IRQ"
        /\ SyscallVector[no] = "_tty_read" => no = "TTY_READ"
        /\ SyscallVector[no] = "_timer_write" => no = "TIMER_WRITE"
        /\ SyscallVector[no] = "_gcd_write" => no = "GCD_WRITE"
        /\ SyscallVector[no] = "_gcd_read" => no = "GCD_READ"
  BY DEF SyscallVector
<1>3. CASE sys.program[t] \in {"main", "tim"}
  <2>1. \A a \in DOMAIN MainCalls : MainCalls[a].no \in {"TIMER_WRITE", "TTY_READ_IRQ", "EXIT"}
    BY DEF MainCalls
  <2>2. CallOf(t).no \in {"TIMER_WRITE", "TTY_READ_IRQ", "EXIT"}
    BY <1>1, <1>3, <2>1 DEF CallOf, Calls
  <2>3. CallOf(t).no \in DOMAIN SyscallVector
    BY <2>2 DEF SyscallVector
  <2> QED BY <1>2, <1>3, <2>2, <2>3
<1>4. CASE sys.program[t] = "gcd"
  <2>1. \A a \in DOMAIN GcdCalls : GcdCalls[a].no \in {"GCD_WRITE", "GCD_READ", "TTY_READ"}
    BY DEF GcdCalls
  <2>2. CallOf(t).no \in {"GCD_WRITE", "GCD_READ", "TTY_READ"}
    BY <1>1, <1>4, <2>1 DEF CallOf, Calls
  <2>3. CallOf(t).no \in DOMAIN SyscallVector
    BY <2>2 DEF SyscallVector
  <2> QED BY <1>2, <1>4, <2>2, <2>3
<1>5. CASE sys.program[t] \in {"number", "prime", "reader"}
  <2>1. /\ \A a \in DOMAIN NumberCalls : NumberCalls[a].no \in {"TTY_READ_IRQ", "TTY_WRITE", "EXIT"}
        /\ \A a \in DOMAIN PrimeCalls : PrimeCalls[a].no \in {"TTY_READ_IRQ", "TTY_WRITE", "EXIT"}
        /\ \A a \in DOMAIN ReaderCalls : ReaderCalls[a].no \in {"TTY_READ_IRQ", "TTY_WRITE", "EXIT"}
    BY DEF NumberCalls, PrimeCalls, ReaderCalls
  <2>2. CallOf(t).no \in {"TTY_READ_IRQ", "TTY_WRITE", "EXIT"}
    BY <1>1, <1>5, <2>1 DEF CallOf, Calls
  <2>3. CallOf(t).no \in DOMAIN SyscallVector
    BY <2>2 DEF SyscallVector
  <2> QED BY <1>2, <1>5, <2>2, <2>3
<1> QED BY <1>1, <1>3, <1>4, <1>5 DEF Calls

LEMMA CallKeeps ==
  ASSUME IInv, DevInv, NEW p \in sys.procs, Call(p), UNCHANGED mapVars
  PROVE  DevInv'
<1>1. PICK t : t = Task(p)
  OBVIOUS
<1>2. PICK l : l = SyscallVector[CallOf(t).no]
  OBVIOUS
<1>3. /\ Level_(p) = "user" /\ Enter(p, l) /\ EnterKernel(p) /\ dev' = Noticed(dev, p)
      /\ UNCHANGED <<sys, full, buf, user>>
  BY <1>1, <1>2 DEF Call
<1>4. /\ t \in Tasks(sys) /\ Program(t) /\ kern[t].at = "out" /\ Id(t) = tty_id(p) /\ Id(t) \in sys.channels
      /\ dev \in DevState
  BY <1>1, <1>3, Caller, KeptFacts
<1>5. kern'[t].at = l /\ \A u \in Tasks(sys) \ {t} : kern'[u] = kern[u]
  BY <1>1, <1>3, Enters
<1>6. UNCHANGED vector /\ Level_(p)' = "sys" /\ \A q \in sys.procs \ {p} : cpu'[q] = cpu[q]
  <2>1. UNCHANGED vector /\ cpu' = [cpu EXCEPT ![p] = Entered(cpu[p])]
    BY <1>3 DEF EnterKernel, Entered
  <2>2. cpu[p] \in Registers_
    BY CurrentTask
  <2>3. Entered(cpu[p]) \in Registers_ /\ Entered(cpu[p]).code = <<"sys", cpu[p].code[2]>>
    BY <2>2, EnteredIs
  <2>4. cpu'[p] = Entered(cpu[p]) /\ \A q \in sys.procs \ {p} : cpu'[q] = cpu[q]
    BY <2>1, <2>3, OneMoves DEF IInv, Types
  <2> QED BY <2>1, <2>3, <2>4 DEF Level_
<1>7. Quiet(dev, dev')
  BY <1>3, <1>4, NoticedIs
<1>8. dev'.rd = dev.rd /\ dev'.typed = dev.typed /\ dev.rd \in [sys.channels -> Nat]
  BY <1>7, KeptFacts DEF Quiet
<1>9. Devices'
  BY <1>3, <1>7, QuietDevices DEF DevInv
<1>10. Received(t)'
  <2>1. dev'.rd \in [sys.channels -> Nat] /\ dev.rd[Id(t)] <= dev'.rd[Id(t)]
    BY <1>4, <1>8
  <2>2. Received(t) /\ "got" \in DOMAIN user[t]
    BY <1>4 DEF Program, Received
  <2> QED BY <1>3, <1>4, <1>8, <2>1, <2>2, ReceivedKept
<1>11. Buffered(t)'
  <2>1. Id(t)' = Id(t)
    BY <1>3 DEF Id
  <2>2. l /= "tty_buf" /\ l /= "tty_reset"
    BY <1>2, <1>4, CallEnters
  <2>3. Newer(t) => Newer(t)'
    BY <1>3, <2>1 DEF Newer
  <2> QED BY <1>3, <1>4, <1>5, <2>1, <2>2, <2>3 DEF Program, Buffered
<1>12. Drives(t)'
  <2>1. CallOf(t)' = CallOf(t) /\ sys' = sys
    BY <1>3 DEF CallOf
  <2> QED BY <1>2, <1>4, <1>5, <2>1, CallEnters DEF Drives
<1>13. Answers(p)'
  BY <1>6 DEF Answers
<1>14. Program(t)'
  BY <1>10, <1>11, <1>12 DEF Program
<1> QED BY <1>1, <1>3, <1>4, <1>5, <1>6, <1>8, <1>9, <1>13, <1>14, CallerStep

(* A program that goes on keeps the characters it has received.            *)
LEMMA ResumedGot ==
  ASSUME NEW program \in DOMAIN Calls, NEW u, NEW ret, "got" \in DOMAIN u
  PROVE  "got" \in DOMAIN Resumed(program, u, ret) /\ Resumed(program, u, ret).got = u.got
<1>1. CASE program \in {"main", "tim", "gcd"}
  <2>1. PICK at : Resumed(program, u, ret) = [u EXCEPT !.at = at]
    BY <1>1 DEF Resumed
  <2> QED BY <2>1
<1>2. CASE program = "number"
  <2>1. Resumed(program, u, ret) = NumberNext(u, ret)
    BY <1>2 DEF Resumed
  <2> QED BY <2>1 DEF NumberNext
<1>3. CASE program = "prime"
  <2>1. Resumed(program, u, ret) = PrimeNext(u, ret)
    BY <1>3 DEF Resumed
  <2>2. \A v : "got" \in DOMAIN Tested(u, v) /\ Tested(u, v).got = u.got
    BY DEF Tested
  <2> QED BY <2>1, <2>2 DEF PrimeNext
<1>4. CASE program = "reader"
  BY <1>4 DEF Resumed
<1> QED BY <1>1, <1>2, <1>3, <1>4 DEF Calls

LEMMA BackToUserKeeps ==
  ASSUME IInv, DevInv, NEW p \in sys.procs, BackToUser(p), UNCHANGED mapVars
  PROVE  DevInv'
<1>1. PICK t : t = Task(p)
  OBVIOUS
<1>2. /\ AtStep(p, "return") /\ LeaveKernel(p) /\ dev' = Noticed(dev, p) /\ UNCHANGED <<sys, full, buf>>
      /\ user' = [user EXCEPT ![t] = Resumed(sys.program[t], user[t], kern[t].ret)]
      /\ kern' = [kern EXCEPT ![t] = Out]
  BY <1>1 DEF BackToUser
<1>3. /\ Level_(p) = "sys" /\ kern[t].at = "return" /\ t = <<p, cur[p]>> /\ t \in Tasks(sys)
      /\ Received(t) /\ Buffered(t) /\ "got" \in DOMAIN user[t] /\ dev \in DevState
      /\ tty_id(p) = Id(t) /\ Id(t) \in sys.channels /\ sys \in Systems
  BY <1>1, <1>2, Driver
<1>4. kern'[t].at = "out" /\ \A u \in Tasks(sys) \ {t} : kern'[u] = kern[u]
  BY <1>2, <1>3, KeptFacts DEF Out
<1>5. /\ "got" \in DOMAIN user'[t] /\ user'[t].got = user[t].got
      /\ \A u \in Tasks(sys) \ {t} : user'[u] = user[u]
  <2>1. sys.program[t] \in DOMAIN Calls /\ DOMAIN user = Tasks(sys)
    BY <1>3, SystemsAssumption, KeptFacts
  <2>2. PICK next : next = Resumed(sys.program[t], user[t], kern[t].ret)
    OBVIOUS
  <2>3. "got" \in DOMAIN next /\ next.got = user[t].got
    BY <1>3, <2>1, <2>2, ResumedGot
  <2>4. user' = [user EXCEPT ![t] = next]
    BY <1>2, <2>2
  <2> QED BY <1>3, <2>1, <2>3, <2>4
<1>6. UNCHANGED vector /\ Level_(p)' = "user" /\ \A q \in sys.procs \ {p} : cpu'[q] = cpu[q]
  <2>1. PICK f : f = sysframe[t]
    OBVIOUS
  <2>2. Runs(p) /\ cpu[p] \in Registers_
    BY <1>3, CurrentTask DEF IInv, Keeps, Current
  <2>3. f.epc = <<"user", cur[p]>> /\ <<p, cpu[p].sp>> = t
    BY <1>3, <2>1, <2>2 DEF Runs, LeftOff, Level_
  <2>4. f.epc \in Code /\ f.um \in BOOLEAN
    <3>1. f \in [um : BOOLEAN, exl : BOOLEAN, epc : Code]
      BY <1>3, <2>1 DEF IInv, Types
    <3> QED BY <3>1, Zenon
  <2>5. UNCHANGED vector /\ cpu' = [cpu EXCEPT ![p] = Left(cpu[p], f)]
    BY <1>2, <2>1, <2>3 DEF LeaveKernel, Left
  <2>6. Left(cpu[p], f) \in Registers_ /\ Left(cpu[p], f).code = f.epc
    BY <2>2, <2>4, LeftIs
  <2>7. cpu'[p] = Left(cpu[p], f) /\ \A q \in sys.procs \ {p} : cpu'[q] = cpu[q]
    BY <2>5, <2>6, OneMoves DEF IInv, Types
  <2> QED BY <2>3, <2>5, <2>6, <2>7 DEF Level_
<1>7. Quiet(dev, dev')
  BY <1>2, <1>3, NoticedIs
<1>8. dev'.rd = dev.rd /\ dev'.typed = dev.typed /\ dev.rd \in [sys.channels -> Nat]
  BY <1>7, KeptFacts DEF Quiet
<1>9. Devices'
  BY <1>2, <1>7, QuietDevices DEF DevInv
<1>10. Received(t)'
  <2>1. dev'.rd \in [sys.channels -> Nat] /\ dev.rd[Id(t)] <= dev'.rd[Id(t)]
    BY <1>3, <1>8
  <2> QED BY <1>2, <1>3, <1>5, <1>8, <2>1, ReceivedKept
<1>11. Buffered(t)'
  <2>1. Id(t)' = Id(t)
    BY <1>2 DEF Id
  <2>2. Newer(t) => Newer(t)'
    BY <1>2, <1>5, <2>1 DEF Newer
  <2> QED BY <1>2, <1>3, <1>4, <2>1, <2>2 DEF Buffered
<1>12. Drives(t)'
  BY <1>4 DEF Drives
<1>13. Answers(p)'
  BY <1>6 DEF Answers
<1>14. Program(t)'
  BY <1>10, <1>11, <1>12 DEF Program
<1> QED BY <1>1, <1>2, <1>3, <1>4, <1>5, <1>6, <1>8, <1>9, <1>13, <1>14, CallerStep

-------------------------------------------------------------------------------
LEMMA RunKeeps ==
  ASSUME IInv, DevInv, NEW p \in sys.procs, RunProgram(p)
  PROVE  DevInv'
<1>1. Run(p) /\ UNCHANGED mapVars
  BY DEF RunProgram
<1> QED BY <1>1, CallKeeps, BackToUserKeeps, TtyWriteKeeps, TtyStatusKeeps, TtyDataKeeps, TtyFullKeeps,
           TtyBufKeeps, TtyResetKeeps, TimerWriteKeeps, GcdWriteKeeps, GcdReadKeeps DEF Run

LEMMA StepDevInv == IInv /\ DevInv /\ [Next]_kernelVars => DevInv'
<1> SUFFICES ASSUME IInv, DevInv, [Next]_kernelVars PROVE DevInv'
  OBVIOUS
<1>1. CASE \E p \in sys.procs : Processor(p)
  BY <1>1, BootKeeps, InterruptKeeps, HandleKeeps, RunKeeps DEF Processor
<1>2. CASE UNCHANGED kernelVars
  <2>1. UNCHANGED <<map, stage, sys, dev, cpu, vector, full, buf, user, kern>> /\ UNCHANGED mapVars
    BY <1>2 DEF kernelVars, mapVars
  <2>2. MapInv' /\ Quiet(dev, dev')
    BY <2>1, MapInvKept, KeptFacts DEF DevInv, Elaborated, Quiet
  <2> QED BY <2>1, <2>2, QuietOutside
<1> QED BY <1>1, <1>2, ElaborateKeeps, EnvironmentKeeps, DoneKeeps DEF Next

LEMMA IdOf ==
  ASSUME sys \in Systems, NEW t \in Tasks(sys)
  PROVE  Id(t) \in sys.channels
<1>1. t = <<t[1], t[2]>> /\ t[1] \in sys.procs /\ t[2] \in Local(t[1])
  BY SystemsAssumption, SMT DEF Tasks, Local
<1> QED BY <1>1, IdIs

LEMMA InitDevInv == Init => DevInv
<1> SUFFICES ASSUME Init PROVE DevInv
  OBVIOUS
<1>1. sys \in Systems /\ (sys.top = "none" \/ map = TopMap[sys.top]) /\ MapInv
  BY MapInvInitially DEF Init, TaskInit
<1>2. \A p \in sys.procs : Level_(p) = "reset" /\ map = TopMap[sys.top]
  BY <1>1, SystemsAssumption DEF Init, TaskInit, Level_, NoCode
<1>3. Devices
  <2>1. dev = DevicesOff(sys.channels) /\ dev \in DevState
    BY OffIs DEF Init, TaskInit
  <2>2. \A i \in sys.channels : dev.typed[i] = <<>> /\ dev.rd[i] = 0 /\ dev.mask[i] = {}
    BY <2>1 DEF DevicesOff
  <2>3. \A p \in sys.procs : dev.mask[p] \subseteq sys.mask[p]
    BY <1>1, <2>2, PlatformAssumption
  <2>4. /\ full \in [sys.channels -> {0, 1}] /\ buf \in [sys.channels -> Nat \X Nat]
        /\ \A i \in sys.channels : buf[i][2] = 0
    BY DEF Init, TaskInit, NoCharacter
  <2>5. \A i \in sys.channels : dev.rd[i] <= Len(dev.typed[i]) /\ buf[i][2] <= dev.rd[i]
    BY <2>2, <2>4
  <2> QED BY <2>1, <2>3, <2>4, <2>5 DEF Devices
<1>4. Vectored
  BY DEF Vectored, Init, TaskInit, TaskOfIsr
<1>5. Elaborated
  BY <1>1, <1>2 DEF Elaborated
<1>6. \A p \in sys.procs : Answers(p)
  BY <1>2 DEF Answers
<1>7. ASSUME NEW t \in Tasks(sys) PROVE Program(t)
  <2>1. kern[t].at = "out"
    BY DEF Init, CallInit, Out
  <2>2. "got" \in DOMAIN user[t] /\ user[t].got = <<>>
    BY DEF Init, CallInit, ProgramStart
  <2>3. full[Id(t)] = 0
    <3>1. Id(t) \in sys.channels
      BY <1>1, IdOf
    <3> QED BY <3>1 DEF Init, TaskInit
  <2> QED BY <2>1, <2>2, <2>3 DEF Program, Received, Buffered, Drives
<1> QED BY <1>3, <1>4, <1>5, <1>6, <1>7 DEF DevInv

LEMMA InvCharacters == DevInv => CharactersInOrder
BY DEF DevInv, Program, Received, CharactersInOrder, Id

(* What a program receives was typed at its own terminal, in this order,   *)
(* and nothing is received twice, whichever program each task runs; what   *)
(* was not typed is received only by a program that reads a terminal with  *)
(* _tty_read while _isr_tty_get takes the characters of that terminal      *)
(* between its two loads (_isr_tty_get_indexed, _tty_read_irq, _tty_read). *)
THEOREM CharactersAlwaysInOrder == Spec => []CharactersInOrder
<1>1. Init => IInv /\ DevInv
  BY InitIInv, InitDevInv
<1>2. IInv /\ DevInv /\ [Next]_kernelVars => (IInv /\ DevInv)'
  BY StepIInv, StepDevInv
<1>3. IInv /\ DevInv => CharactersInOrder
  BY InvCharacters
<1> QED BY <1>1, <1>2, <1>3, PTL DEF Spec

(* No processor reaches a device but by the address map that sc_main has   *)
(* built, and that map is right from then on: the platforms of the kernel  *)
(* decode as PlatformMap does (mapping_table.cpp).                         *)
THEOREM KernelDecodesRight == Spec => []DecodesRight
<1>1. Init => IInv /\ DevInv
  BY InitIInv, InitDevInv
<1>2. IInv /\ DevInv /\ [Next]_kernelVars => (IInv /\ DevInv)'
  BY StepIInv, StepDevInv
<1>3. DevInv => DecodesRight
  BY MapInvDecodes DEF DevInv, Elaborated
<1> QED BY <1>1, <1>2, <1>3, PTL DEF Spec

-------------------------------------------------------------------------------
(* Types.                                                                  *)
(* What the temporaries of a processor hold, and what the calls return.    *)
Scratch(p, x) == x \in {Clobbered} \cup Local(p)

Temps ==
  \A p \in sys.procs :
    Scratch(p, cpu[p].temp) /\ \A k \in Local(p) : Scratch(p, ctx[<<p, k>>].temp)

Rets == \A t \in Tasks(sys) : "ret" \in DOMAIN kern[t] /\ kern[t].ret \in Nat

LEMMA TempsKept ==
  ASSUME IInv', Temps, sys' = sys, NEW p, \A q \in sys.procs \ {p} : cpu'[q] = cpu[q],
         p \in sys.procs /\ Level_(p)' \notin {"user", "sys"} => Scratch(p, cpu'[p].temp),
         \A q \in sys.procs : \A k \in Local(q) : ctx'[<<q, k>>] = ctx[<<q, k>>] \/ Scratch(q, ctx'[<<q, k>>].temp)
  PROVE  Temps'
<1>1. \A q : Local(q)' = Local(q)
  BY DEF Local
<1>2. ASSUME NEW q \in sys.procs PROVE Scratch(q, cpu'[q].temp)
  <2>1. CASE q /= p
    BY <2>1 DEF Temps
  <2>2. CASE q = p /\ Level_(p)' \in {"user", "sys"}
    BY <1>1, <2>2 DEF IInv, Keeps, Current, Runs, Scratch
  <2> QED BY <2>1, <2>2
<1> QED BY <1>1, <1>2 DEF Temps, Scratch

LEMMA TempsStay ==
  ASSUME Temps, UNCHANGED <<sys, cpu, ctx>>
  PROVE  Temps'
BY DEF Temps, Scratch, Local

(* A step that leaves the contexts alone.                                  *)
LEMMA TempsMove ==
  ASSUME IInv', Temps, UNCHANGED <<sys, ctx>>, NEW p \in sys.procs,
         \A q \in sys.procs \ {p} : cpu'[q] = cpu[q],
         Level_(p)' \in {"user", "sys"} \/ Scratch(p, cpu'[p].temp)
  PROVE  Temps'
BY TempsKept

LEMMA HandlerTemps ==
  ASSUME IInv, IInv', Temps, NEW p \in sys.procs, Handle(p)
  PROVE  Temps'
<1>1. cpu \in [sys.procs -> Registers_] /\ cpu[p] \in Registers_ /\ Scratch(p, cpu[p].temp)
  BY CurrentTask DEF IInv, Types, Temps
<1>2. ASSUME NEW step, Goto(p, step)
      PROVE Scratch(p, cpu'[p].temp) /\ \A q \in sys.procs \ {p} : cpu'[q] = cpu[q]
  <2>1. cpu' = [cpu EXCEPT ![p] = Gone(cpu[p], step)]
    BY <1>2 DEF Goto, Gone
  <2>2. Gone(cpu[p], step).temp = Clobbered
    BY <1>1, Zenon DEF Gone, Registers_
  <2> QED BY <1>1, <2>1, <2>2 DEF Scratch
<1>3. CASE Demux(p) \/ IsrTimer(p) \/ IsrTtyGet(p) \/ IsrSwitch(p)
  <2>1. UNCHANGED <<sys, ctx>> /\ \E step : Goto(p, step)
    BY <1>3 DEF Demux, IsrTimer, IsrTtyGet, IsrSwitch
  <2> QED BY <1>2, <2>1, TempsMove
<1>4. CASE Restore(p)
  <2>1. UNCHANGED <<sys, ctx>>
    BY <1>4 DEF Restore
  <2>2. PICK f : /\ cpu' = [cpu EXCEPT ![p] = Restored(cpu[p], f)]
                 /\ \/ cpu[p].step = "eret" /\ f = [temp |-> cpu[p].temp, epc |-> cpu[p].epc]
                    \/ cpu[p].step = "restore" /\ f = intframe[<<p, cpu[p].sp>>]
    BY <1>4 DEF Restore, Restored
  <2>3. Restored(cpu[p], f).temp = f.temp
    BY <1>1, Zenon DEF Restored, Registers_
  <2>4. Scratch(p, f.temp)
    <3>1. CASE f = [temp |-> cpu[p].temp, epc |-> cpu[p].epc]
      BY <1>1, <3>1
    <3>2. CASE cpu[p].step = "restore" /\ f = intframe[<<p, cpu[p].sp>>]
      <4>1. Handles(p) /\ cur[p] \in Local(p)
        BY <1>4 DEF IInv, Keeps, Current, Restore
      <4>2. f.temp = cur[p]
        BY <3>2, <4>1 DEF Handles, Stacked
      <4> QED BY <4>1, <4>2 DEF Scratch
    <3> QED BY <2>2, <3>1, <3>2
  <2>5. cpu'[p].temp = f.temp /\ \A q \in sys.procs \ {p} : cpu'[q] = cpu[q]
    BY <1>1, <2>2, <2>3
  <2> QED BY <2>1, <2>4, <2>5, TempsMove
<1>5. CASE CtxSwitch(p) /\ sys.tasks[p] <= 1
  <2>1. UNCHANGED <<sys, ctx>> /\ \E step : Goto(p, step)
    BY <1>5 DEF CtxSwitch
  <2> QED BY <1>2, <2>1, TempsMove
<1>6. CASE CtxSwitch(p) /\ ~(sys.tasks[p] <= 1)
  <2>1. PICK n : n = (cur[p] + 1) % sys.tasks[p] /\ TaskSwitch(p, n) /\ sys' = sys
    BY <1>6 DEF CtxSwitch
  <2>2. sys.tasks[p] \in Nat /\ cur[p] \in Local(p) /\ <<p, cur[p]>> \in Tasks(sys) /\ sys \in Systems
    BY TaskOf, CurrentTask DEF IInv, Types
  <2>3. n \in Local(p)
    BY <1>6, <2>1, <2>2, NextTask DEF Local
  <2>4. ctx[<<p, n>>] \in Context /\ Scratch(p, ctx[<<p, n>>].temp) /\ DOMAIN ctx = Tasks(sys)
    BY <2>2, <2>3, TaskOf DEF IInv, Types, Temps
  <2>5. /\ cpu' = [cpu EXCEPT ![p] = Switched(cpu[p], ctx[<<p, n>>])]
        /\ ctx' = [ctx EXCEPT ![<<p, cur[p]>>] = Saved(cpu[p])]
    BY <2>1 DEF TaskSwitch, Switched, Saved
  <2>6. Switched(cpu[p], ctx[<<p, n>>]).temp = ctx[<<p, n>>].temp
    BY <1>1, <2>4, SwitchedIs
  <2>7. Saved(cpu[p]).temp = cpu[p].temp
    BY Zenon DEF Saved
  <2>8. Scratch(p, cpu'[p].temp) /\ \A q \in sys.procs \ {p} : cpu'[q] = cpu[q]
    BY <1>1, <2>4, <2>5, <2>6
  <2>9. ASSUME NEW q \in sys.procs, NEW k \in Local(q)
        PROVE  ctx'[<<q, k>>] = ctx[<<q, k>>] \/ Scratch(q, ctx'[<<q, k>>].temp)
    <3>1. CASE <<q, k>> = <<p, cur[p]>>
      <4>1. ctx'[<<q, k>>] = Saved(cpu[p])
        BY <2>2, <2>4, <2>5, <3>1
      <4> QED BY <1>1, <2>7, <3>1, <4>1
    <3>2. CASE <<q, k>> /= <<p, cur[p]>>
      BY <2>2, <2>4, <2>5, <3>2, TaskOf
    <3> QED BY <3>1, <3>2
  <2> QED BY <2>1, <2>8, <2>9, TempsKept
<1> QED BY <1>3, <1>4, <1>5, <1>6 DEF Handle

LEMMA InterruptTemps ==
  ASSUME IInv, IInv', Temps, NEW p \in sys.procs, Interrupt(p)
  PROVE  Temps'
<1>1. cpu \in [sys.procs -> Registers_] /\ cpu[p] \in Registers_ /\ Scratch(p, cpu[p].temp)
  BY CurrentTask DEF IInv, Types, Temps
<1>2. UNCHANGED <<sys, ctx>> /\ cpu' = [cpu EXCEPT ![p] = Interrupted(cpu[p])]
  BY DEF Interrupt, Interrupted
<1>3. Interrupted(cpu[p]).temp = cpu[p].temp
  BY <1>1, Zenon DEF Interrupted, Registers_
<1>4. cpu'[p].temp = cpu[p].temp /\ \A q \in sys.procs \ {p} : cpu'[q] = cpu[q]
  BY <1>1, <1>2, <1>3
<1> QED BY <1>1, <1>2, <1>4, TempsMove

(* After these steps the processor runs a task.                            *)
LEMMA TaskTemps ==
  ASSUME IInv, IInv', Temps, NEW p \in sys.procs, Boot(p) \/ Run(p)
  PROVE  Temps'
<1>1. cpu \in [sys.procs -> Registers_] /\ cpu[p] \in Registers_ /\ Scratch(p, cpu[p].temp)
  BY CurrentTask DEF IInv, Types, Temps
<1>2. CASE Boot(p)
  <2>1. UNCHANGED <<sys, ctx>> /\ cpu' = [cpu EXCEPT ![p] = Booted(cpu[p])]
    BY <1>2 DEF Boot, Booted
  <2>2. Booted(cpu[p]).temp = cpu[p].temp
    BY <1>1, BootedIs
  <2>3. cpu'[p].temp = cpu[p].temp /\ \A q \in sys.procs \ {p} : cpu'[q] = cpu[q]
    BY <1>1, <2>1, <2>2
  <2> QED BY <1>1, <2>1, <2>3, TempsMove
<1>3. CASE Call(p)
  <2>1. UNCHANGED <<sys, ctx>> /\ cpu' = [cpu EXCEPT ![p] = Entered(cpu[p])]
    BY <1>3 DEF Call, EnterKernel, Entered
  <2>2. Entered(cpu[p]).temp = cpu[p].temp
    BY <1>1, EnteredIs
  <2>3. cpu'[p].temp = cpu[p].temp /\ \A q \in sys.procs \ {p} : cpu'[q] = cpu[q]
    BY <1>1, <2>1, <2>2
  <2> QED BY <1>1, <2>1, <2>3, TempsMove
<1>4. CASE BackToUser(p)
  <2>1. UNCHANGED <<sys, ctx>>
    BY <1>4 DEF BackToUser, LeaveKernel
  <2>2. PICK f : cpu' = [cpu EXCEPT ![p] = Left(cpu[p], f)]
    BY <1>4 DEF BackToUser, LeaveKernel, Left
  <2>3. Left(cpu[p], f).temp = cpu[p].temp
    BY <1>1, Zenon DEF Left, Registers_
  <2>4. cpu'[p].temp = cpu[p].temp /\ \A q \in sys.procs \ {p} : cpu'[q] = cpu[q]
    BY <1>1, <2>2, <2>3
  <2> QED BY <1>1, <2>1, <2>4, TempsMove
<1>5. CASE /\ ~Call(p) /\ ~BackToUser(p) /\ Run(p)
  <2>1. \E d : Stays(p, d)
    BY <1>5 DEF Run, TtyWrite, TtyStatus, TtyData, TtyFull, TtyBuf, TtyReset, TimerWrite, GcdWrite, GcdRead
  <2> QED BY <2>1, TempsStay DEF Stays
<1> QED BY <1>2, <1>3, <1>4, <1>5

LEMMA StepTemps == IInv /\ IInv' /\ Temps /\ [Next]_kernelVars => Temps'
<1> SUFFICES ASSUME IInv, IInv', Temps, [Next]_kernelVars PROVE Temps'
  OBVIOUS
<1>1. CASE Elaborate \/ Environment \/ GcdDone \/ UNCHANGED kernelVars
  <2>1. UNCHANGED <<sys, cpu, ctx>>
    BY <1>1 DEF Elaborate, Environment, TypeCharacter, Tick, GcdDone, taskVars, kernelVars
  <2> QED BY <2>1, TempsStay
<1>2. CASE \E p \in sys.procs : Processor(p)
  BY <1>2, HandlerTemps, InterruptTemps, TaskTemps
     DEF Processor, StartProc, TakeInterrupt, HandleInterrupt, RunProgram
<1> QED BY <1>1, <1>2 DEF Next

-------------------------------------------------------------------------------
(* What is left of a number after each division by ten.                    *)
Rests(val) == CHOOSE rest : rest = [i \in 0 .. 10 |-> IF i = 0 THEN val ELSE rest[i - 1] \div 10]

(* What tty_printf writes: the digits down to the last quotient that is 0. *)
LEMMA PrintedIs ==
  ASSUME NEW val
  PROVE  \E len \in 1 .. 10 :
           /\ len = 10 \/ Rests(val)[len] = 0
           /\ \A n \in 1 .. 10 : n = 10 \/ Rests(val)[n] = 0 => len <= n
           /\ Printed(val) = IF val >= WordSize \div 2 THEN <<OutOfTable>>
                             ELSE [i \in 1 .. len |-> Rests(val)[len - i] % 10]
<1> DEFINE lengths == {n \in 1 .. 10 : n = 10 \/ Rests(val)[n] = 0}
           len     == CHOOSE n \in lengths : \A m \in lengths : n <= m
<1>1. len \in lengths /\ \A n \in lengths : len <= n
  <2>1. 10 \in lengths /\ lengths \in SUBSET (0 .. 31)
    OBVIOUS
  <2> HIDE DEF lengths
  <2> QED BY <2>1, Smallest
<1>2. Printed(val) = IF val >= WordSize \div 2 THEN <<OutOfTable>>
                     ELSE [i \in 1 .. len |-> Rests(val)[len - i] % 10]
  BY DEF Printed, Rests
<1> HIDE DEF len
<1> QED BY <1>1, <1>2

LEMMA PrintedLength ==
  ASSUME NEW val
  PROVE  Len(Printed(val)) \in Nat
<1> DEFINE rest == Rests(val)
<1>1. PICK len \in 1 .. 10 :
        Printed(val) = <<OutOfTable>> \/ Printed(val) = [i \in 1 .. len |-> rest[len - i] % 10]
  BY PrintedIs
<1> DEFINE digits == [i \in 1 .. len |-> rest[len - i] % 10]
<1>2. DOMAIN digits = 1 .. len /\ len \in Nat
  OBVIOUS
<1> HIDE DEF digits
<1>3. Len(digits) \in Nat /\ Len(<<OutOfTable>>) = 1
  BY <1>2
<1> QED BY <1>1, <1>3 DEF digits

LEMMA InitTemps == Init => Temps /\ Rets
<1> SUFFICES ASSUME Init PROVE Temps /\ Rets
  OBVIOUS
<1>1. sys \in Systems
  BY DEF Init, TaskInit
<1>2. ASSUME NEW p \in sys.procs PROVE Scratch(p, cpu[p].temp)
  <2>1. cpu[p].temp = 0
    BY DEF Init, TaskInit
  <2>2. 0 \in Local(p)
    <3>1. sys.tasks[p] \in Nat \ {0}
      BY <1>1, TaskOf
    <3> QED BY <3>1 DEF Local
  <2> QED BY <2>1, <2>2 DEF Scratch
<1>3. ASSUME NEW p \in sys.procs, NEW k \in Local(p) PROVE Scratch(p, ctx[<<p, k>>].temp)
  <2>1. <<p, k>> \in Tasks(sys)
    BY <1>1, TaskOf
  <2>2. ctx[<<p, k>>] = FirstContext(k)
    BY <2>1 DEF Init, TaskInit
  <2>3. FirstContext(k).temp = k
    BY Zenon DEF FirstContext
  <2> QED BY <2>2, <2>3 DEF Scratch
<1>4. Rets
  BY DEF Init, CallInit, Out, Rets
<1> QED BY <1>2, <1>3, <1>4 DEF Temps

LEMMA RetsKept ==
  ASSUME IInv, Rets, sys' = sys, NEW t,
         \/ kern' = kern
         \/ \E l : kern' = [kern EXCEPT ![t].at = l]
         \/ \E l : \E ret \in Nat : kern' = [kern EXCEPT ![t] = [at |-> l, ret |-> ret]]
  PROVE  Rets'
<1>1. DOMAIN kern = Tasks(sys)
  BY DEF IInv, Places
<1>2. ASSUME NEW u \in Tasks(sys) PROVE "ret" \in DOMAIN kern'[u] /\ kern'[u].ret \in Nat
  <2>1. "ret" \in DOMAIN kern[u] /\ kern[u].ret \in Nat
    BY DEF Rets
  <2>2. CASE kern' = kern
    BY <2>1, <2>2
  <2>3. CASE \E l : kern' = [kern EXCEPT ![t].at = l]
    BY <1>1, <2>1, <2>3
  <2>4. CASE \E l : \E ret \in Nat : kern' = [kern EXCEPT ![t] = [at |-> l, ret |-> ret]]
    BY <1>1, <2>1, <2>4
  <2> QED BY <2>2, <2>3, <2>4
<1> QED BY <1>2 DEF Rets

LEMMA StepRets == IInv /\ Rets /\ [Next]_kernelVars => Rets'
<1> SUFFICES ASSUME IInv, Rets, [Next]_kernelVars PROVE Rets'
  OBVIOUS
<1>1. CASE \E p \in sys.procs : RunProgram(p)
  <2>1. PICK p \in sys.procs : Run(p)
    BY <1>1 DEF RunProgram
  <2>2. sys' = sys
    BY <2>1 DEF Run, Call, BackToUser, TtyWrite, TtyStatus, TtyData, TtyFull, TtyBuf, TtyReset,
                TimerWrite, GcdWrite, GcdRead, Stays
  <2>3. \/ \E l : Enter(p, l)
        \/ \E ret \in Nat : Return(p, ret)
        \/ kern' = [kern EXCEPT ![Task(p)] = Out]
    BY <2>1, PrintedLength DEF Run, Call, BackToUser, TtyWrite, TtyStatus, TtyData, TtyFull, TtyBuf, TtyReset,
                TimerWrite, GcdWrite, GcdRead
  <2>4. Out = [at |-> "out", ret |-> 0] /\ 0 \in Nat
    BY DEF Out
  <2> QED BY <2>2, <2>3, <2>4, RetsKept DEF Enter, Return
<1>2. CASE ~ \E p \in sys.procs : RunProgram(p)
  <2>1. UNCHANGED <<sys, kern>>
    BY <1>2 DEF Next, Processor, Elaborate, Environment, TypeCharacter, Tick, GcdDone, taskVars, kernelVars,
       StartProc, TakeInterrupt, HandleInterrupt, callVars, Boot, Interrupt, Handle, Demux, IsrTimer, IsrTtyGet,
       IsrSwitch, CtxSwitch, Restore
  <2> QED BY <2>1, RetsKept
<1> QED BY <1>1, <1>2

Begins == begun \in [sys.procs -> BOOLEAN]

LEMMA InitBegins == Init => Begins
BY DEF Init, Begins

LEMMA StepBegins == Begins /\ [Next]_kernelVars => Begins'
<1> SUFFICES ASSUME Begins, [Next]_kernelVars PROVE Begins'
  OBVIOUS
<1>1. CASE Elaborate \/ Environment \/ GcdDone \/ UNCHANGED kernelVars
  <2>1. UNCHANGED <<sys, begun>>
    BY <1>1 DEF Elaborate, Environment, TypeCharacter, Tick, GcdDone, taskVars, kernelVars
  <2> QED BY <2>1 DEF Begins
<1>2. CASE \E p \in sys.procs : Processor(p)
  <2>1. PICK p \in sys.procs : Processor(p)
    BY <1>2
  <2>2. PICK b \in BOOLEAN : begun' = [begun EXCEPT ![p] = b]
    <3>1. (Raised(sys.irq, dev', p) = {}) \in BOOLEAN
      OBVIOUS
    <3> QED BY <2>1, <3>1 DEF Processor, Sample
  <2>3. CASE RunProgram(p)
    <3>1. sys' = sys
      BY <2>3 DEF RunProgram, Run, Call, BackToUser, TtyWrite, TtyStatus, TtyData, TtyFull, TtyBuf, TtyReset,
                  TimerWrite, GcdWrite, GcdRead, Stays
    <3> QED BY <2>2, <3>1 DEF Begins
  <2>4. CASE ~RunProgram(p)
    <3>1. sys' = sys
      BY <2>1, <2>4 DEF Processor, StartProc, TakeInterrupt, HandleInterrupt, Boot, Interrupt, Handle, Demux, IsrTimer,
                  IsrTtyGet, IsrSwitch, CtxSwitch, Restore
    <3> QED BY <2>2, <3>1 DEF Begins
  <2> QED BY <2>3, <2>4
<1> QED BY <1>1, <1>2 DEF Next

LEMMA InvType == IInv /\ DevInv /\ Temps /\ Rets /\ Begins => TypeOK
<1> SUFFICES ASSUME IInv, DevInv, Temps, Rets, Begins PROVE TypeOK
  OBVIOUS
<1>1. MapTypeOK /\ sys \in Systems
  BY DEF DevInv, Elaborated, MapInv, IInv, Types
<1>2. ASSUME NEW i \in sys.channels
      PROVE  /\ dev.rd[i] \in 0 .. Len(dev.typed[i]) /\ dev.mode[i] \in {0, 3}
             /\ dev.mask[i] \subseteq DOMAIN sys.irq
             /\ full[i] \in {0, 1} /\ buf[i][2] \in 0 .. dev.rd[i]
  <2>1. /\ dev.rd[i] \in Nat /\ dev.mode[i] \in {0, 3} /\ dev.mask[i] \subseteq DOMAIN sys.irq
        /\ Len(dev.typed[i]) \in Nat /\ full[i] \in {0, 1} /\ buf[i] \in Nat \X Nat
    BY KeptFacts, Fields
  <2>2. dev.rd[i] <= Len(dev.typed[i]) /\ buf[i][2] <= dev.rd[i]
    BY DEF DevInv, Devices
  <2> QED BY <2>1, <2>2
<1>3. ASSUME NEW p \in sys.procs
      PROVE  /\ cpu[p].code[1] \in {"reset", "user", "sys", "int"}
             /\ cpu[p].sp \in 0 .. sys.tasks[p] - 1 /\ cur[p] \in 0 .. sys.tasks[p] - 1
             /\ cpu[p].temp \in {Clobbered} \cup (0 .. sys.tasks[p] - 1) /\ begun[p] \in BOOLEAN
  <2>1. cpu[p].code[1] \in {"reset", "user", "sys", "int"} /\ cur[p] \in Local(p)
    BY CurrentTask DEF Code
  <2>2. cpu[p].sp = cur[p]
    BY <2>1 DEF IInv, Keeps, Current, Level_, Resets, Runs, Handles
  <2>3. begun[p] \in BOOLEAN
    BY Zenon DEF Begins
  <2>4. cpu[p].temp \in {Clobbered} \cup (0 .. sys.tasks[p] - 1)
    BY DEF Temps, Scratch, Local
  <2>5. cpu[p].sp \in 0 .. sys.tasks[p] - 1 /\ cur[p] \in 0 .. sys.tasks[p] - 1
    BY <2>1, <2>2 DEF Local
  <2> QED BY <2>1, <2>3, <2>4, <2>5, Zenon
<1>4. \A t \in Tasks(sys) : user[t].at \in DOMAIN Calls[sys.program[t]] /\ kern[t].ret \in Nat
  BY DEF Rets, IInv, Places, Labelled
<1> QED BY <1>1, <1>2, <1>3, <1>4 DEF TypeOK

(* The registers of devices and processors, the buffers, the stacks and    *)
(* the results of system calls keep to their ranges: a character that is   *)
(* buffered has been typed and taken, a task that runs or was interrupted  *)
(* is one of its processor, a program is at one of its calls (GietKernel). *)
THEOREM TypeAlwaysOK == Spec => []TypeOK
<1>1. Init => IInv /\ DevInv /\ Temps /\ Rets /\ Begins
  BY InitIInv, InitDevInv, InitTemps, InitBegins
<1>2. IInv /\ DevInv /\ Temps /\ Rets /\ Begins /\ [Next]_kernelVars => (IInv /\ DevInv /\ Temps /\ Rets /\ Begins)'
  BY StepIInv, StepDevInv, StepTemps, StepRets, StepBegins
<1>3. IInv /\ DevInv /\ Temps /\ Rets /\ Begins => TypeOK
  BY InvType
<1> QED BY <1>1, <1>2, <1>3, PTL DEF Spec

-------------------------------------------------------------------------------
(***************************************************************************)
(* The numbers programs read and print.  What a recursive function is has  *)
(* to be shown by induction: there is a function that satisfies its        *)
(* equation, and its values are of the right kind.                         *)
(***************************************************************************)

(* Induction, on the elements of a set: a least one outside it would       *)
(* follow one inside.                                                      *)
LEMMA EveryNatural ==
  ASSUME NEW T, 0 \in T, \A n \in Nat : n \in T => n + 1 \in T
  PROVE  \A n \in Nat : n \in T
<1> DEFINE Others == Nat \ T
<1> SUFFICES ASSUME Others /= {} PROVE FALSE
  OBVIOUS
<1>1. \E x \in Others : \A y \in Others : ~(<<y, x>> \in OpToRel(<, Nat))
  <2> HIDE DEF OpToRel
  <2>1. Others \in SUBSET Nat
    OBVIOUS
  <2> HIDE DEF Others
  <2> QED BY <2>1, NatLessThanWellFounded, WFMin
<1>2. PICK x \in Others : \A y \in Others : ~(<<y, x>> \in OpToRel(<, Nat))
  BY <1>1
<1>3. x \in Nat /\ x /= 0
  OBVIOUS
<1>4. x - 1 \in Others
  <2>1. x - 1 \in Nat /\ x = (x - 1) + 1
    BY <1>3
  <2> QED BY <2>1
<1>5. ~(x - 1 < x)
  BY <1>2, <1>3, <1>4 DEF OpToRel
<1> QED BY <1>3, <1>5

(* A function with values in S that is a at 0 and follows g from there.    *)
Follows(f, a, g, N, S) == f \in [0 .. N -> S] /\ f[0] = a /\ \A i \in 1 .. N : f[i] = g[<<f[i - 1], i>>]

LEMMA Recursion ==
  ASSUME NEW N \in Nat, NEW S, NEW a \in S, NEW g, g \in [S \X (1 .. N) -> S]
  PROVE  \E f : Follows(f, a, g, N, S)
<1> DEFINE T == {n \in Nat : n <= N => \E f \in [0 .. n -> S] :
                    f[0] = a /\ \A i \in 1 .. n : f[i] = g[<<f[i - 1], i>>]}
<1>1. 0 \in T
  <2>1. [i \in 0 .. 0 |-> a] \in [0 .. 0 -> S] /\ [i \in 0 .. 0 |-> a][0] = a
    OBVIOUS
  <2>2. \A i \in 1 .. 0 : FALSE
    OBVIOUS
  <2> QED BY <2>1, <2>2
<1>2. ASSUME NEW n \in Nat, n \in T PROVE n + 1 \in T
  <2>1. SUFFICES ASSUME n + 1 <= N
                 PROVE  \E f \in [0 .. n + 1 -> S] :
                          f[0] = a /\ \A i \in 1 .. n + 1 : f[i] = g[<<f[i - 1], i>>]
    OBVIOUS
  <2>2. n <= N
    BY <2>1
  <2>3. PICK f \in [0 .. n -> S] : f[0] = a /\ \A i \in 1 .. n : f[i] = g[<<f[i - 1], i>>]
    BY <1>2, <2>2
  <2>4. n \in 0 .. n /\ n + 1 \in 1 .. N
    BY <2>1
  <2>5. PICK b \in S : b = g[<<f[n], n + 1>>]
    BY <2>4
  <2> DEFINE h == [i \in 0 .. n + 1 |-> IF i = n + 1 THEN b ELSE f[i]]
  <2>6. h \in [0 .. n + 1 -> S]
    <3>1. ASSUME NEW i \in 0 .. n + 1, i /= n + 1 PROVE i \in 0 .. n
      BY <3>1
    <3> QED BY <3>1
  <2>7. h[0] = a
    BY <2>3
  <2>8. ASSUME NEW i \in 1 .. n + 1 PROVE h[i] = g[<<h[i - 1], i>>]
    <3>1. CASE i = n + 1
      <4>1. i - 1 = n /\ n \in 0 .. n + 1 /\ n /= n + 1 /\ i \in 0 .. n + 1
        BY <3>1
      <4>2. h[i] = b /\ h[i - 1] = f[n]
        BY <3>1, <4>1
      <4> QED BY <2>5, <3>1, <4>2
    <3>2. CASE i /= n + 1
      <4>1. i \in 1 .. n /\ i - 1 \in 0 .. n + 1 /\ i - 1 /= n + 1 /\ i \in 0 .. n + 1
        BY <3>2
      <4>2. h[i] = f[i] /\ h[i - 1] = f[i - 1]
        BY <3>2, <4>1
      <4> QED BY <2>3, <4>1, <4>2
    <3> QED BY <3>1, <3>2
  <2> HIDE DEF h
  <2> QED BY <2>6, <2>7, <2>8
<1>3. N \in T
  <2> HIDE DEF T
  <2> QED BY <1>1, <1>2, EveryNatural
<1> QED BY <1>3 DEF Follows

(* All values of a function are in S when the next one is after each.      *)
LEMMA Ranges ==
  ASSUME NEW N \in Nat, NEW S, NEW f, f = [i \in 0 .. N |-> f[i]], f[0] \in S,
         \A i \in 1 .. N : f[i - 1] \in S => f[i] \in S
  PROVE  f \in [0 .. N -> S]
<1> DEFINE T == {k \in Nat : k <= N => f[k] \in S}
<1>1. 0 \in T
  OBVIOUS
<1>2. ASSUME NEW k \in Nat, k \in T PROVE k + 1 \in T
  <2> SUFFICES ASSUME k + 1 <= N PROVE f[k + 1] \in S
    OBVIOUS
  <2>1. f[k] \in S /\ k + 1 \in 1 .. N /\ (k + 1) - 1 = k
    BY <1>2
  <2> QED BY <2>1
<1>3. \A k \in Nat : k \in T
  <2> HIDE DEF T
  <2> QED BY <1>1, <1>2, EveryNatural
<1>4. ASSUME NEW k \in 0 .. N PROVE f[k] \in S
  <2>1. k \in Nat /\ k <= N
    OBVIOUS
  <2> QED BY <1>3, <2>1
<1> QED BY <1>4

(* The quotients of a number by the powers of ten.                         *)
Divided(rest, val) ==
  rest \in [0 .. 10 -> Nat] /\ rest[0] = val /\ \A i \in 1 .. 10 : rest[i] = rest[i - 1] \div 10

LEMMA Quotients ==
  ASSUME NEW val \in Nat
  PROVE  Divided(Rests(val), val)
<1> DEFINE g == [x \in Nat \X (1 .. 10) |-> x[1] \div 10]
<1>1. g \in [Nat \X (1 .. 10) -> Nat]
  <2>1. \A x \in Nat : x \div 10 \in Nat
    OBVIOUS
  <2> QED BY <2>1
<1>2. \A x \in Nat, i \in 1 .. 10 : g[<<x, i>>] = x \div 10
  OBVIOUS
<1> HIDE DEF g
<1>3. PICK f \in [0 .. 10 -> Nat] : f[0] = val /\ \A i \in 1 .. 10 : f[i] = g[<<f[i - 1], i>>]
  <2>1. \E f : Follows(f, val, g, 10, Nat)
    BY <1>1, Recursion
  <2> QED BY <2>1 DEF Follows
<1>4. \A i \in 1 .. 10 : f[i] = f[i - 1] \div 10
  <2>1. \A i \in 1 .. 10 : f[i - 1] \in Nat
    BY <1>3
  <2> QED BY <1>2, <1>3, <2>1
<1>5. f = [i \in 0 .. 10 |-> IF i = 0 THEN val ELSE f[i - 1] \div 10]
  <2>1. ASSUME NEW i \in 0 .. 10 PROVE f[i] = IF i = 0 THEN val ELSE f[i - 1] \div 10
    BY <1>3, <1>4
  <2> QED BY <2>1
<1> DEFINE rest == Rests(val)
<1>6. rest = [i \in 0 .. 10 |-> IF i = 0 THEN val ELSE rest[i - 1] \div 10]
  BY <1>5, Zenon DEF Rests
<1> HIDE DEF rest
<1>7. DOMAIN rest = 0 .. 10 /\ rest[0] = val
  BY <1>6
<1>8. ASSUME NEW i \in 1 .. 10 PROVE rest[i] = rest[i - 1] \div 10
  BY <1>6
<1>9. rest = [i \in 0 .. 10 |-> rest[i]]
  BY <1>6
<1>10. \A i \in 1 .. 10 : rest[i - 1] \in Nat => rest[i] \in Nat
  BY <1>8
<1>11. rest \in [0 .. 10 -> Nat]
  BY <1>7, <1>9, <1>10, Ranges
<1> QED BY <1>7, <1>8, <1>11 DEF Divided, rest

(* The values of the beginnings of a sequence of digits.                   *)
Values(v, s) ==
  v \in [0 .. Len(s) -> Nat] /\ v[0] = 0 /\ \A i \in 1 .. Len(s) : v[i] = v[i - 1] * 10 + s[i]

LEMMA ValueIs ==
  ASSUME NEW s \in Seq(Nat)
  PROVE  \E v : Values(v, s) /\ Value(s) = v[Len(s)]
<1> DEFINE N == Len(s)
           g == [x \in Nat \X (1 .. N) |-> x[1] * 10 + s[x[2]]]
<1>1. N \in Nat /\ \A i \in 1 .. N : s[i] \in Nat
  OBVIOUS
<1> HIDE DEF N
<1>2. g \in [Nat \X (1 .. N) -> Nat]
  <2>1. \A x \in Nat, y \in Nat : x * 10 + y \in Nat
    OBVIOUS
  <2> QED BY <1>1, <2>1
<1>3. \A x \in Nat, i \in 1 .. N : g[<<x, i>>] = x * 10 + s[i]
  OBVIOUS
<1> HIDE DEF g
<1>4. PICK f : f \in [0 .. N -> Nat] /\ f[0] = 0 /\ \A i \in 1 .. N : f[i] = g[<<f[i - 1], i>>]
  <2>1. \E f : Follows(f, 0, g, N, Nat)
    BY <1>1, <1>2, Recursion
  <2> QED BY <2>1 DEF Follows
<1>5. f = [i \in 0 .. N |-> IF i = 0 THEN 0 ELSE f[i - 1] * 10 + s[i]]
  <2>1. ASSUME NEW i \in 1 .. N PROVE f[i] = f[i - 1] * 10 + s[i]
    <3>1. f[i - 1] \in Nat
      BY <1>1, <1>4
    <3> QED BY <1>3, <1>4, <3>1
  <2> QED BY <1>4, <2>1
<1> DEFINE v == CHOOSE f_ : f_ = [i \in 0 .. N |-> IF i = 0 THEN 0 ELSE f_[i - 1] * 10 + s[i]]
<1>6. v = [i \in 0 .. N |-> IF i = 0 THEN 0 ELSE v[i - 1] * 10 + s[i]]
  BY <1>5, Zenon
<1>7. Value(s) = v[N]
  BY DEF Value, N
<1> HIDE DEF v
<1>8. DOMAIN v = 0 .. N /\ v[0] = 0 /\ v = [i \in 0 .. N |-> v[i]]
  BY <1>1, <1>6
<1>9. ASSUME NEW i \in 1 .. N PROVE v[i] = v[i - 1] * 10 + s[i]
  BY <1>1, <1>6
<1>10. \A i \in 1 .. N : v[i - 1] \in Nat => v[i] \in Nat
  BY <1>1, <1>9
<1>11. v \in [0 .. N -> Nat]
  BY <1>1, <1>8, <1>10, Ranges
<1> QED BY <1>7, <1>8, <1>9, <1>11 DEF Values, N

(* The values of the beginnings of a line, in words.                       *)
Wrapped(d, s) ==
  /\ d = [i \in 0 .. Len(s) |-> d[i]] /\ d[0] = 0
  /\ \A i \in 1 .. Len(s) : d[i] = (d[i - 1] * 10 + s[i]) % WordSize

LEMMA Remainder ==
  ASSUME NEW x \in Nat
  PROVE  x % WordSize \in Nat /\ (x < WordSize => x % WordSize = x)
<1>1. PICK W \in Nat \ {0} : W = WordSize
  BY LibraryAssumption
<1>2. x % W \in Nat
  BY <1>1
<1>3. x < W => x % W = x
  BY <1>1
<1> QED BY <1>1, <1>2, <1>3

LEMMA ConvertedIs ==
  ASSUME NEW s \in Seq(Nat)
  PROVE  \E d : /\ Wrapped(d, s)
                /\ Converted(s) = IF \E i \in 1 .. Len(s) : d[i] < d[i - 1] THEN 0 ELSE d[Len(s)]
<1> DEFINE N == Len(s)
           g == [x \in Nat \X (1 .. N) |-> (x[1] * 10 + s[x[2]]) % WordSize]
<1>1. N \in Nat /\ \A i \in 1 .. N : s[i] \in Nat
  OBVIOUS
<1> HIDE DEF N
<1>2. ASSUME NEW x \in Nat, NEW i \in 1 .. N
      PROVE  (x * 10 + s[i]) % WordSize \in Nat
  <2>1. x * 10 + s[i] \in Nat
    BY <1>1
  <2> QED BY <2>1, Remainder
<1>3. \A x \in Nat, i \in 1 .. N : g[<<x, i>>] = (x * 10 + s[i]) % WordSize
  OBVIOUS
<1>4. g \in [Nat \X (1 .. N) -> Nat]
  BY <1>2
<1> HIDE DEF g
<1>5. PICK f : f \in [0 .. N -> Nat] /\ f[0] = 0 /\ \A i \in 1 .. N : f[i] = g[<<f[i - 1], i>>]
  <2>1. \E f : Follows(f, 0, g, N, Nat)
    BY <1>1, <1>4, Recursion
  <2> QED BY <2>1 DEF Follows
<1>6. f = [i \in 0 .. N |-> IF i = 0 THEN 0 ELSE (f[i - 1] * 10 + s[i]) % WordSize]
  <2>1. ASSUME NEW i \in 1 .. N PROVE f[i] = (f[i - 1] * 10 + s[i]) % WordSize
    <3>1. f[i - 1] \in Nat
      BY <1>1, <1>5
    <3> QED BY <1>3, <1>5, <3>1
  <2> QED BY <1>5, <2>1
<1> DEFINE d == CHOOSE f_ : f_ = [i \in 0 .. N |-> IF i = 0 THEN 0 ELSE (f_[i - 1] * 10 + s[i]) % WordSize]
<1>7. d = [i \in 0 .. N |-> IF i = 0 THEN 0 ELSE (d[i - 1] * 10 + s[i]) % WordSize]
  BY <1>6, Zenon
<1>8. Converted(s) = IF \E i \in 1 .. N : d[i] < d[i - 1] THEN 0 ELSE d[N]
  BY DEF Converted, N
<1> HIDE DEF d
<1>9. d = [i \in 0 .. N |-> d[i]] /\ d[0] = 0
  BY <1>1, <1>7
<1>10. \A i \in 1 .. N : d[i] = (d[i - 1] * 10 + s[i]) % WordSize
  BY <1>1, <1>7
<1> QED BY <1>8, <1>9, <1>10 DEF Wrapped, N

(* A number that fits a word is converted exactly.                         *)
LEMMA ConvertedRight ==
  ASSUME NEW s \in Seq(Nat), Value(s) < WordSize
  PROVE  Converted(s) = Value(s)
<1>1. PICK v : Values(v, s) /\ Value(s) = v[Len(s)]
  BY ValueIs
<1>2. PICK d : /\ Wrapped(d, s)
               /\ Converted(s) = IF \E i \in 1 .. Len(s) : d[i] < d[i - 1] THEN 0 ELSE d[Len(s)]
  BY ConvertedIs
<1>3. PICK N \in Nat : N = Len(s)
  OBVIOUS
<1>4. WordSize \in Nat /\ v \in [0 .. N -> Nat] /\ \A i \in 1 .. N : s[i] \in Nat
  BY <1>1, <1>3, LibraryAssumption DEF Values
<1>5. ASSUME NEW i \in 1 .. N PROVE v[i - 1] <= v[i]
  <2>1. PICK x \in Nat, y \in Nat : x = v[i - 1] /\ y = s[i]
    BY <1>3, <1>4
  <2>2. v[i] = x * 10 + y
    BY <1>1, <1>3, <2>1 DEF Values
  <2> QED BY <2>1, <2>2
<1>6. ASSUME NEW k \in 0 .. N PROVE v[k] < WordSize
  <2> DEFINE T == {j \in Nat : j <= N => v[N - j] < WordSize}
  <2>1. 0 \in T
    BY <1>1, <1>3
  <2>2. ASSUME NEW j \in Nat, j \in T PROVE j + 1 \in T
    <3> SUFFICES ASSUME j + 1 <= N PROVE v[N - (j + 1)] < WordSize
      OBVIOUS
    <3>1. PICK i \in 1 .. N : i = N - j /\ i - 1 = N - (j + 1)
      OBVIOUS
    <3>2. v[i] < WordSize /\ v[i - 1] <= v[i] /\ v[i] \in Nat /\ v[i - 1] \in Nat
      BY <1>4, <1>5, <2>2, <3>1
    <3>3. v[i - 1] < WordSize
      BY <1>4, <3>2
    <3> QED BY <3>1, <3>3
  <2>3. \A j \in Nat : j \in T
    <3> HIDE DEF T
    <3> QED BY <2>1, <2>2, EveryNatural
  <2>4. PICK j \in Nat : j = N - k /\ j <= N /\ N - j = k
    OBVIOUS
  <2> QED BY <2>3, <2>4
<1>7. ASSUME NEW k \in 0 .. N PROVE d[k] = v[k]
  <2> DEFINE T == {j \in Nat : j <= N => d[j] = v[j]}
  <2>1. 0 \in T
    BY <1>1, <1>2 DEF Values, Wrapped
  <2>2. ASSUME NEW j \in Nat, j \in T PROVE j + 1 \in T
    <3> SUFFICES ASSUME j + 1 <= N PROVE d[j + 1] = v[j + 1]
      OBVIOUS
    <3>1. PICK i \in 1 .. N : i = j + 1 /\ i - 1 = j
      OBVIOUS
    <3>2. PICK y \in Nat, z \in Nat : y = v[i - 1] /\ z = s[i]
      <4>1. i - 1 \in 0 .. N
        OBVIOUS
      <4>2. v[i - 1] \in Nat /\ s[i] \in Nat
        BY <1>4, <4>1
      <4> QED BY <4>2
    <3> DEFINE x == y * 10 + z
    <3>3. x = v[i] /\ d[i] = x % WordSize
      <4>1. v[i] = v[i - 1] * 10 + s[i]
        BY <1>1, <1>3 DEF Values
      <4>2. d[i] = (d[i - 1] * 10 + s[i]) % WordSize
        BY <1>2, <1>3 DEF Wrapped
      <4>3. d[i - 1] = y
        BY <2>2, <3>1, <3>2
      <4> QED BY <3>2, <4>1, <4>2, <4>3
    <3>5. x \in Nat
      OBVIOUS
    <3> HIDE DEF x
    <3>4. x < WordSize
      <4>1. i \in 0 .. N
        OBVIOUS
      <4> QED BY <1>6, <3>3, <4>1
    <3> QED BY <3>1, <3>3, <3>4, <3>5, Remainder
  <2>3. \A j \in Nat : j \in T
    <3> HIDE DEF T
    <3> QED BY <2>1, <2>2, EveryNatural
  <2> QED BY <2>3
<1>8. ASSUME NEW i \in 1 .. N PROVE ~(d[i] < d[i - 1])
  <2>1. PICK x \in Nat, y \in Nat : x = v[i - 1] /\ y = v[i] /\ x <= y
    BY <1>4, <1>5
  <2>2. d[i] = y /\ d[i - 1] = x
    BY <1>7, <2>1
  <2> QED BY <2>1, <2>2
<1> QED BY <1>1, <1>2, <1>3, <1>7, <1>8

(* The digits of an int that tty_printf writes are its own.                *)
LEMMA PrintedRight ==
  ASSUME NEW val \in Nat, val < WordSize \div 2, NEW s, s = Printed(val)
  PROVE  Value(s) = val /\ (Len(s) > 1 => s[1] /= 0)
<1>1. PICK rest : rest = Rests(val) /\ Divided(rest, val)
  BY Quotients
<1>2. PICK len \in 1 .. 10 :
        /\ len = 10 \/ rest[len] = 0
        /\ \A n \in 1 .. 10 : n = 10 \/ rest[n] = 0 => len <= n
        /\ Printed(val) = IF val >= WordSize \div 2 THEN <<OutOfTable>>
                          ELSE [i \in 1 .. len |-> rest[len - i] % 10]
  BY <1>1, PrintedIs
<1>3. ~(val >= WordSize \div 2)
  <2>1. PICK w \in Nat : w = WordSize \div 2
    BY LibraryAssumption
  <2> QED BY <2>1
<1>4. s = [i \in 1 .. len |-> rest[len - i] % 10]
  BY <1>2, <1>3
<1>6. len \in 1 .. 10 /\ rest[len] = 0
  <2>1. rest[10] = 0
    <3>1. val < ((100000 * 10000) * 10)
      <4>1. PICK w \in Nat : w = WordSize
        BY LibraryAssumption
      <4>2. w \div 65536 <= 65536
        BY <4>1, LibraryAssumption
      <4>3. w < 65537 * 65536
        BY <4>2
      <4> QED BY <4>1, <4>3
    <3>2. ASSUME NEW i \in 1 .. 10, NEW b \in Nat, rest[i - 1] < b * 10 PROVE rest[i] < b
      <4>1. PICK x \in Nat : x = rest[i - 1] /\ rest[i] = x \div 10
        BY <1>1 DEF Divided
      <4>2. x < b * 10
        BY <3>2, <4>1
      <4> QED BY <4>1, <4>2
    <3>3. rest[1] < 100000 * 10000
      BY <1>1, <3>1, <3>2 DEF Divided
    <3>4. rest[2] < 100000 * 1000
      BY <3>2, <3>3
    <3>5. rest[3] < 100000 * 100
      BY <3>2, <3>4
    <3>6. rest[4] < 100000 * 10
      BY <3>2, <3>5
    <3>7. rest[5] < 100000
      BY <3>2, <3>6
    <3>8. rest[6] < 10000
      BY <3>2, <3>7
    <3>9. rest[7] < 1000
      BY <3>2, <3>8
    <3>10. rest[8] < 100
      BY <3>2, <3>9
    <3>11. rest[9] < 10
      BY <3>2, <3>10
    <3>12. rest[10] < 1
      BY <3>2, <3>11
    <3>13. rest[10] \in Nat
      BY <1>1 DEF Divided
    <3> QED BY <3>12, <3>13
  <2> QED BY <1>2, <2>1
<1>7. ASSUME NEW i \in 1 .. 10
      PROVE  \E q \in Nat, r \in 0 .. 9 :
               rest[i] = q /\ rest[i - 1] = q * 10 + r /\ rest[i - 1] % 10 = r
  <2>1. PICK x \in Nat : x = rest[i - 1] /\ rest[i] = x \div 10
    BY <1>1 DEF Divided
  <2>2. x \div 10 \in Nat /\ x % 10 \in 0 .. 9 /\ x = (x \div 10) * 10 + (x % 10)
    OBVIOUS
  <2> QED BY <2>1, <2>2
<1>8. s \in Seq(Nat) /\ Len(s) = len
  <2>1. ASSUME NEW i \in 1 .. len PROVE rest[len - i] % 10 \in Nat
    <3>1. len - i \in 0 .. 10
      BY <1>6
    <3>2. PICK x \in Nat : x = rest[len - i]
      BY <1>1, <3>1 DEF Divided
    <3> QED BY <3>2
  <2>2. len \in Nat
    BY <1>6
  <2> QED BY <1>4, <2>1, <2>2
<1>9. PICK v : Values(v, s) /\ Value(s) = v[len]
  BY <1>8, ValueIs
<1>10. ASSUME NEW n \in 0 .. len PROVE v[n] = rest[len - n]
  <2> DEFINE T == {j \in Nat : j <= len => v[j] = rest[len - j]}
  <2>1. 0 \in T
    BY <1>6, <1>9 DEF Values
  <2>2. ASSUME NEW j \in Nat, j \in T PROVE j + 1 \in T
    <3> SUFFICES ASSUME j + 1 <= len PROVE v[j + 1] = rest[len - (j + 1)]
      OBVIOUS
    <3>1. j + 1 \in 1 .. len /\ (j + 1) - 1 = j /\ j <= len
      BY <1>6
    <3>2. PICK i \in 1 .. 10 : i = len - j /\ i - 1 = len - (j + 1)
      BY <1>6
    <3>3. PICK q \in Nat, r \in 0 .. 9 :
                 rest[i] = q /\ rest[i - 1] = q * 10 + r /\ rest[i - 1] % 10 = r
      BY <1>7
    <3>4. s[j + 1] = r
      BY <1>4, <3>1, <3>2, <3>3
    <3>5. v[j + 1] = v[j] * 10 + s[j + 1]
      BY <1>8, <1>9, <3>1 DEF Values
    <3>6. v[j] = q
      BY <2>2, <3>1, <3>2, <3>3
    <3> QED BY <3>2, <3>3, <3>4, <3>5, <3>6
  <2>3. \A j \in Nat : j \in T
    <3> HIDE DEF T
    <3> QED BY <2>1, <2>2, EveryNatural
  <2> QED BY <1>6, <2>3
<1>11. Value(s) = val
  <2>1. len \in 0 .. len /\ len - len = 0
    BY <1>6
  <2> QED BY <1>1, <1>9, <1>10, <2>1 DEF Divided
<1>12. ASSUME len > 1 PROVE s[1] /= 0
  <2>1. len - 1 \in 1 .. 10 /\ len - 1 /= 10 /\ ~(len <= len - 1) /\ 1 \in 1 .. len
    BY <1>6, <1>12
  <2>2. rest[len - 1] /= 0
    BY <1>2, <2>1
  <2>3. PICK q \in Nat, r \in 0 .. 9 :
               rest[len] = q /\ rest[len - 1] = q * 10 + r /\ rest[len - 1] % 10 = r
    BY <1>6, <1>7
  <2>4. q = 0
    BY <1>6, <2>3
  <2>5. rest[len - 1] = r
    BY <2>3, <2>4
  <2>6. s[1] = r
    BY <1>4, <2>1, <2>3
  <2> QED BY <2>2, <2>5, <2>6
<1> QED BY <1>8, <1>11, <1>12

-------------------------------------------------------------------------------
(* How many more digits than DELs there are from i to j, and what one      *)
(* character adds to that.                                                 *)
Balance(h, i, j) == Cardinality(Digits(h, i, j)) - Cardinality(Dels(h, i, j))

Weighs(c) == IF IsDigit(c) THEN 1 ELSE IF c = DEL THEN -1 ELSE 0

LEMMA CountsFinite ==
  ASSUME NEW h, NEW i \in Int, NEW j \in Int
  PROVE  /\ IsFiniteSet(Digits(h, i, j)) /\ IsFiniteSet(Dels(h, i, j))
         /\ Cardinality(Digits(h, i, j)) \in Nat /\ Cardinality(Dels(h, i, j)) \in Nat
<1>1. IsFiniteSet(i .. j)
  BY FS_Interval
<1>2. Digits(h, i, j) \subseteq i .. j /\ Dels(h, i, j) \subseteq i .. j
  BY DEF Digits, Dels
<1>3. IsFiniteSet(Digits(h, i, j)) /\ IsFiniteSet(Dels(h, i, j))
  BY <1>1, <1>2, FS_Subset
<1> QED BY <1>3, FS_CardinalityType

(* A character more.                                                       *)
LEMMA BalanceAppended ==
  ASSUME NEW h \in Seq(Int), NEW c \in Int, NEW n \in Nat, n = Len(h), NEW g, g = Append(h, c),
         NEW i \in 1 .. n + 1
  PROVE  Balance(g, i, n + 1) = Balance(h, i, n) + Weighs(c)
<1>1. g[n + 1] = c /\ \A k \in 1 .. n : g[k] = h[k]
  OBVIOUS
<1>2. \A k \in i .. n : g[k] = h[k]
  BY <1>1
<1>3. \A k : k \in i .. n + 1 <=> k \in i .. n \/ k = n + 1
  OBVIOUS
<1>4. n + 1 \notin Digits(h, i, n) /\ n + 1 \notin Dels(h, i, n)
  BY DEF Digits, Dels
<1>5. PICK a \in Nat, b \in Nat : a = Cardinality(Digits(h, i, n)) /\ b = Cardinality(Dels(h, i, n))
  <2>1. i \in Int /\ n \in Int
    OBVIOUS
  <2> QED BY <2>1, CountsFinite
<1>6. IsFiniteSet(Digits(h, i, n)) /\ IsFiniteSet(Dels(h, i, n))
  BY CountsFinite
<1>7. Cardinality(Digits(h, i, n) \cup {n + 1}) = a + 1 /\ Cardinality(Dels(h, i, n) \cup {n + 1}) = b + 1
  BY <1>4, <1>5, <1>6, FS_AddElement
<1>8. Balance(h, i, n) = a - b
  BY <1>5 DEF Balance
<1>9. CASE IsDigit(c)
  <2>1. c /= DEL
    BY <1>9 DEF IsDigit, DEL
  <2>2. Digits(g, i, n + 1) = Digits(h, i, n) \cup {n + 1}
    BY <1>1, <1>2, <1>3, <1>9 DEF Digits
  <2>3. Dels(g, i, n + 1) = Dels(h, i, n)
    BY <1>1, <1>2, <1>3, <2>1 DEF Dels
  <2>4. Balance(g, i, n + 1) = (a + 1) - b
    BY <1>5, <1>7, <2>2, <2>3 DEF Balance
  <2> QED BY <1>8, <1>9, <2>4 DEF Weighs
<1>10. CASE c = DEL
  <2>1. ~IsDigit(c)
    BY <1>10 DEF IsDigit, DEL
  <2>2. Digits(g, i, n + 1) = Digits(h, i, n)
    BY <1>1, <1>2, <1>3, <2>1 DEF Digits
  <2>3. Dels(g, i, n + 1) = Dels(h, i, n) \cup {n + 1}
    BY <1>1, <1>2, <1>3, <1>10 DEF Dels
  <2>4. Balance(g, i, n + 1) = a - (b + 1)
    BY <1>5, <1>7, <2>2, <2>3 DEF Balance
  <2> QED BY <1>8, <1>10, <2>1, <2>4 DEF Weighs
<1>11. CASE ~IsDigit(c) /\ c /= DEL
  <2>1. Digits(g, i, n + 1) = Digits(h, i, n)
    BY <1>1, <1>2, <1>3, <1>11 DEF Digits
  <2>2. Dels(g, i, n + 1) = Dels(h, i, n)
    BY <1>1, <1>2, <1>3, <1>11 DEF Dels
  <2>3. Balance(g, i, n + 1) = a - b
    BY <1>5, <2>1, <2>2 DEF Balance
  <2> QED BY <1>8, <1>11, <2>3 DEF Weighs
<1> QED BY <1>9, <1>10, <1>11

LEMMA BalancesAppended ==
  ASSUME NEW h \in Seq(Int), NEW c \in Int
  PROVE  \A i \in 1 .. Len(h) + 1 : Balance(Append(h, c), i, Len(h) + 1) = Balance(h, i, Len(h)) + Weighs(c)
<1>1. PICK n \in Nat : n = Len(h)
  OBVIOUS
<1>2. PICK g : g = Append(h, c)
  OBVIOUS
<1>3. ASSUME NEW i \in 1 .. n + 1 PROVE Balance(g, i, n + 1) = Balance(h, i, n) + Weighs(c)
  BY <1>1, <1>2, BalanceAppended
<1> QED BY <1>1, <1>2, <1>3

(* A digit that was kept is kept as long as none too many is cancelled.    *)
LEMMA KeptAppended ==
  ASSUME NEW h \in Seq(Int), NEW c \in Int, NEW n \in Nat, n = Len(h), NEW g, g = Append(h, c), NEW i
  PROVE  i \in Kept(g) <=> \/ (i = n + 1 /\ IsDigit(c))
                           \/ (i \in Kept(h) /\ Balance(g, i + 1, n + 1) >= 0)
<1>1. g[n + 1] = c /\ Len(g) = n + 1 /\ \A k \in 1 .. n : g[k] = h[k]
  OBVIOUS
<1>2. i \in Digits(g, 1, n + 1) <=> (i = n + 1 /\ IsDigit(c)) \/ i \in Digits(h, 1, n)
  BY <1>1 DEF Digits
<1>3. CASE i = n + 1
  <2>1. i \notin Kept(h)
    BY <1>3 DEF Kept, Digits
  <2>2. \A j \in i + 1 .. n + 1 : FALSE
    BY <1>3
  <2> QED BY <1>1, <1>2, <1>3, <2>1, <2>2 DEF Kept
<1>4. CASE i \in 1 .. n
  <2>1. ASSUME NEW j \in i + 1 .. n
        PROVE  Digits(g, i + 1, j) = Digits(h, i + 1, j) /\ Dels(g, i + 1, j) = Dels(h, i + 1, j)
    <3>1. \A k \in i + 1 .. j : g[k] = h[k]
      BY <1>1, <1>4
    <3> QED BY <3>1 DEF Digits, Dels
  <2>2. Balance(g, i + 1, n + 1) >= 0
          <=> Cardinality(Dels(g, i + 1, n + 1)) <= Cardinality(Digits(g, i + 1, n + 1))
    <3>1. PICK a \in Nat, b \in Nat :
            a = Cardinality(Digits(g, i + 1, n + 1)) /\ b = Cardinality(Dels(g, i + 1, n + 1))
      BY <1>4, CountsFinite
    <3> QED BY <3>1 DEF Balance
  <2>3. \A j : j \in i + 1 .. n + 1 <=> j \in i + 1 .. n \/ j = n + 1
    BY <1>4
  <2>4. i /= n + 1
    BY <1>4
  <2> QED BY <1>1, <1>2, <2>1, <2>2, <2>3, <2>4 DEF Kept
<1>5. CASE i /= n + 1 /\ i \notin 1 .. n
  BY <1>1, <1>2, <1>5 DEF Kept, Digits
<1> QED BY <1>3, <1>4, <1>5

(* The digits of the line are those kept of what was heard, at positions   *)
(* pos: after each come as many more digits than DELs as follow it in the  *)
(* line.                                                                   *)
Positions(pos, h, line) ==
  /\ pos \in [1 .. Len(line) -> 1 .. Len(h)]
  /\ \A k \in 1 .. Len(line) : \A l \in 1 .. Len(line) : k < l => pos[k] < pos[l]
  /\ \A k \in 1 .. Len(line) : pos[k] \in Kept(h)
  /\ \A i \in Kept(h) : \E k \in 1 .. Len(line) : pos[k] = i
  /\ \A k \in 1 .. Len(line) : line[k] = h[pos[k]] - 48
  /\ \A k \in 1 .. Len(line) : Balance(h, pos[k] + 1, Len(h)) = Len(line) - k

Writes(h, line) == h \in Seq(Int) /\ line \in Seq(0 .. 9) /\ \E pos : Positions(pos, h, line)

LEMMA WritesNothing == Writes(<<>>, <<>>)
<1>1. Kept(<<>>) = {}
  BY DEF Kept, Digits
<1>2. \A k : k \notin 1 .. 0
  OBVIOUS
<1>3. Len(<<>>) = 0
  OBVIOUS
<1>4. PICK pos : pos = [k \in 1 .. 0 |-> 0]
  OBVIOUS
<1>5. pos \in [1 .. 0 -> 1 .. 0]
  BY <1>2, <1>4
<1>6. Positions(pos, <<>>, <<>>)
  BY <1>1, <1>2, <1>3, <1>5 DEF Positions
<1> QED BY <1>6 DEF Writes

(* A digit enters the line.                                                *)
LEMMA DigitWritten ==
  ASSUME NEW h, NEW line, Writes(h, line), NEW c \in Int, IsDigit(c)
  PROVE  Writes(Append(h, c), Append(line, c - 48))
<1>1. h \in Seq(Int) /\ line \in Seq(0 .. 9) /\ c - 48 \in 0 .. 9 /\ c /= DEL
  BY DEF Writes, IsDigit, DEL
<1>2. PICK pos : Positions(pos, h, line)
  BY DEF Writes
<1>3. PICK n \in Nat, m \in Nat : n = Len(h) /\ m = Len(line)
  BY <1>1
<1>4. PICK g : g = Append(h, c)
  OBVIOUS
<1>5. PICK lin : lin = Append(line, c - 48)
  OBVIOUS
<1>6. g \in Seq(Int) /\ Len(g) = n + 1 /\ g[n + 1] = c /\ \A i \in 1 .. n : g[i] = h[i]
  BY <1>1, <1>3, <1>4
<1>7. lin \in Seq(0 .. 9) /\ Len(lin) = m + 1 /\ lin[m + 1] = c - 48 /\ \A k \in 1 .. m : lin[k] = line[k]
  BY <1>1, <1>3, <1>5
<1>8. PICK new : new = [k \in 1 .. m + 1 |-> IF k = m + 1 THEN n + 1 ELSE pos[k]]
  OBVIOUS
<1>9. \A k \in 1 .. m + 1 : k = m + 1 \/ k \in 1 .. m
  OBVIOUS
<1>10. new[m + 1] = n + 1 /\ \A k \in 1 .. m : new[k] = pos[k] /\ pos[k] \in 1 .. n
  BY <1>2, <1>3, <1>8 DEF Positions
<1>11. new \in [1 .. m + 1 -> 1 .. n + 1]
  <2>1. ASSUME NEW k \in 1 .. m + 1 PROVE new[k] \in 1 .. n + 1
    <3>1. CASE k = m + 1
      BY <1>10, <3>1
    <3>2. CASE k \in 1 .. m
      BY <1>10, <3>2
    <3> QED BY <1>9, <3>1, <3>2
  <2> QED BY <1>8, <2>1
<1>12. ASSUME NEW k \in 1 .. m + 1, NEW l \in 1 .. m + 1, k < l PROVE new[k] < new[l]
  <2>1. k \in 1 .. m
    BY <1>12
  <2>2. PICK a \in 1 .. n : a = new[k] /\ a = pos[k]
    BY <1>10, <2>1
  <2>3. CASE l = m + 1
    BY <1>10, <2>2, <2>3
  <2>4. CASE l \in 1 .. m
    BY <1>2, <1>3, <1>10, <1>12, <2>1, <2>4 DEF Positions
  <2> QED BY <1>9, <2>3, <2>4
<1>13. \A i : i \in Kept(g) <=> i = n + 1 \/ (i \in Kept(h) /\ Balance(g, i + 1, n + 1) >= 0)
  BY <1>1, <1>3, <1>4, KeptAppended
<1>20. \A i \in 1 .. n + 1 : Balance(g, i, n + 1) = Balance(h, i, n) + Weighs(c)
  BY <1>1, <1>3, <1>4, BalancesAppended
<1>14. ASSUME NEW k \in 1 .. m PROVE Balance(g, pos[k] + 1, n + 1) = (m + 1) - k
  <2>1. PICK i \in 1 .. n + 1 : i = pos[k] + 1
    BY <1>10
  <2>2. Balance(h, i, n) = m - k
    BY <1>2, <1>3, <2>1 DEF Positions
  <2>3. Balance(g, i, n + 1) = Balance(h, i, n) + Weighs(c)
    BY <1>20
  <2> QED BY <2>1, <2>2, <2>3 DEF Weighs
<1>15. ASSUME NEW k \in 1 .. m + 1 PROVE new[k] \in Kept(g)
  <2>1. CASE k = m + 1
    BY <1>10, <1>13, <2>1
  <2>2. CASE k \in 1 .. m
    <3>1. Balance(g, pos[k] + 1, n + 1) >= 0
      BY <1>14, <2>2
    <3>2. pos[k] \in Kept(h)
      BY <1>2, <1>3, <2>2 DEF Positions
    <3> QED BY <1>10, <1>13, <2>2, <3>1, <3>2
  <2> QED BY <1>9, <2>1, <2>2
<1>16. ASSUME NEW i \in Kept(g) PROVE \E k \in 1 .. m + 1 : new[k] = i
  <2>1. CASE i = n + 1
    BY <1>10, <2>1
  <2>2. CASE i \in Kept(h)
    <3>1. PICK k \in 1 .. m : pos[k] = i
      BY <1>2, <1>3, <2>2 DEF Positions
    <3> QED BY <1>10, <3>1
  <2> QED BY <1>13, <2>1, <2>2
<1>17. ASSUME NEW k \in 1 .. m + 1 PROVE lin[k] = g[new[k]] - 48
  <2>1. CASE k = m + 1
    BY <1>6, <1>7, <1>10, <2>1
  <2>2. CASE k \in 1 .. m
    <3>1. line[k] = h[pos[k]] - 48
      BY <1>2, <1>3, <2>2 DEF Positions
    <3>2. new[k] = pos[k] /\ lin[k] = line[k] /\ pos[k] \in 1 .. n
      BY <1>7, <1>10, <2>2
    <3> QED BY <1>6, <3>1, <3>2
  <2> QED BY <1>9, <2>1, <2>2
<1>18. ASSUME NEW k \in 1 .. m + 1 PROVE Balance(g, new[k] + 1, n + 1) = (m + 1) - k
  <2>1. CASE k = m + 1
    <3>1. \A i : i \notin (n + 1) + 1 .. n + 1
      OBVIOUS
    <3>2. Digits(g, (n + 1) + 1, n + 1) = {} /\ Dels(g, (n + 1) + 1, n + 1) = {}
      BY <3>1 DEF Digits, Dels
    <3>3. Balance(g, (n + 1) + 1, n + 1) = 0
      BY <3>2, FS_EmptySet DEF Balance
    <3> QED BY <1>10, <2>1, <3>3
  <2>2. CASE k \in 1 .. m
    BY <1>10, <1>14, <2>2
  <2> QED BY <1>9, <2>1, <2>2
<1>19. Positions(new, g, lin)
  BY <1>6, <1>7, <1>11, <1>12, <1>15, <1>16, <1>17, <1>18 DEF Positions
<1> QED BY <1>4, <1>5, <1>6, <1>7, <1>19 DEF Writes

(* A DEL takes the last digit from it.                                     *)
LEMMA LastCancelled ==
  ASSUME NEW h, NEW line, Writes(h, line), Len(line) > 0
  PROVE  Writes(Append(h, DEL), SubSeq(line, 1, Len(line) - 1))
<1>1. h \in Seq(Int) /\ line \in Seq(0 .. 9) /\ DEL \in Int /\ ~IsDigit(DEL)
  BY DEF Writes, IsDigit, DEL
<1>2. PICK pos : Positions(pos, h, line)
  BY DEF Writes
<1>3. PICK n \in Nat, m \in Nat : n = Len(h) /\ m = Len(line) /\ m > 0
  BY <1>1
<1>4. PICK g : g = Append(h, DEL)
  OBVIOUS
<1>5. PICK lin : lin = SubSeq(line, 1, m - 1)
  OBVIOUS
<1>6. g \in Seq(Int) /\ Len(g) = n + 1 /\ \A i \in 1 .. n : g[i] = h[i]
  BY <1>1, <1>3, <1>4
<1>7. lin \in Seq(0 .. 9) /\ Len(lin) = m - 1 /\ \A k \in 1 .. m - 1 : lin[k] = line[k]
  BY <1>1, <1>3, <1>5
<1>8. PICK new : new = [k \in 1 .. m - 1 |-> pos[k]]
  OBVIOUS
<1>9. \A k \in 1 .. m : pos[k] \in 1 .. n /\ pos[k] \in Kept(h) /\ (k /= m => k \in 1 .. m - 1)
  <2>1. \A k \in 1 .. m : pos[k] \in 1 .. n /\ pos[k] \in Kept(h)
    BY <1>2, <1>3 DEF Positions
  <2>2. \A k \in 1 .. m : k /= m => k \in 1 .. m - 1
    BY <1>3
  <2> QED BY <2>1, <2>2
<1>10. \A k \in 1 .. m - 1 : k \in 1 .. m /\ new[k] = pos[k]
  BY <1>8
<1>11. new \in [1 .. m - 1 -> 1 .. n + 1]
  <2>1. \A k \in 1 .. m - 1 : pos[k] \in 1 .. n + 1
    BY <1>9, <1>10
  <2> QED BY <1>8, <2>1
<1>12. ASSUME NEW k \in 1 .. m - 1, NEW l \in 1 .. m - 1, k < l PROVE new[k] < new[l]
  BY <1>2, <1>3, <1>10, <1>12 DEF Positions
<1>13. \A i : i \in Kept(g) <=> i \in Kept(h) /\ Balance(g, i + 1, n + 1) >= 0
  BY <1>1, <1>3, <1>4, KeptAppended
<1>20. \A i \in 1 .. n + 1 : Balance(g, i, n + 1) = Balance(h, i, n) + Weighs(DEL)
  BY <1>1, <1>3, <1>4, BalancesAppended
<1>14. ASSUME NEW k \in 1 .. m PROVE Balance(g, pos[k] + 1, n + 1) = (m - 1) - k
  <2>1. PICK i \in 1 .. n + 1 : i = pos[k] + 1
    BY <1>9
  <2>2. Balance(h, i, n) = m - k
    BY <1>2, <1>3, <2>1 DEF Positions
  <2>3. Balance(g, i, n + 1) = Balance(h, i, n) + Weighs(DEL)
    BY <1>20
  <2> QED BY <1>1, <2>1, <2>2, <2>3 DEF Weighs
<1>15. ASSUME NEW k \in 1 .. m - 1 PROVE new[k] \in Kept(g)
  <2>1. Balance(g, pos[k] + 1, n + 1) >= 0
    BY <1>10, <1>14
  <2> QED BY <1>9, <1>10, <1>13, <2>1
<1>16. ASSUME NEW i \in Kept(g) PROVE \E k \in 1 .. m - 1 : new[k] = i
  <2>1. PICK k \in 1 .. m : pos[k] = i
    BY <1>2, <1>3, <1>13 DEF Positions
  <2>2. k /= m
    BY <1>13, <1>14, <2>1
  <2> QED BY <1>9, <1>10, <2>1, <2>2
<1>17. ASSUME NEW k \in 1 .. m - 1 PROVE lin[k] = g[new[k]] - 48
  <2>1. line[k] = h[pos[k]] - 48
    BY <1>2, <1>3, <1>10 DEF Positions
  <2>2. new[k] = pos[k] /\ lin[k] = line[k] /\ pos[k] \in 1 .. n
    BY <1>7, <1>9, <1>10
  <2> QED BY <1>6, <2>1, <2>2
<1>18. ASSUME NEW k \in 1 .. m - 1 PROVE Balance(g, new[k] + 1, n + 1) = (m - 1) - k
  BY <1>10, <1>14
<1>19. Positions(new, g, lin)
  BY <1>6, <1>7, <1>11, <1>12, <1>15, <1>16, <1>17, <1>18 DEF Positions
<1> QED BY <1>3, <1>4, <1>5, <1>6, <1>7, <1>19 DEF Writes

(* Any other character leaves it as it is, and so does a DEL when there is *)
(* nothing to cancel.                                                      *)
LEMMA LineLeft ==
  ASSUME NEW h, NEW line, Writes(h, line), NEW c \in Int, ~IsDigit(c), c = DEL => Len(line) = 0
  PROVE  Writes(Append(h, c), line)
<1>1. h \in Seq(Int) /\ line \in Seq(0 .. 9)
  BY DEF Writes
<1>2. PICK pos : Positions(pos, h, line)
  BY DEF Writes
<1>3. PICK n \in Nat, m \in Nat : n = Len(h) /\ m = Len(line)
  BY <1>1
<1>4. PICK g : g = Append(h, c)
  OBVIOUS
<1>5. g \in Seq(Int) /\ Len(g) = n + 1 /\ \A i \in 1 .. n : g[i] = h[i]
  BY <1>1, <1>3, <1>4
<1>6. pos \in [1 .. m -> 1 .. n] /\ \A k \in 1 .. m : pos[k] \in 1 .. n /\ pos[k] \in Kept(h)
  BY <1>2, <1>3 DEF Positions
<1>7. pos \in [1 .. m -> 1 .. n + 1]
  <2>1. \A k \in 1 .. m : pos[k] \in 1 .. n + 1
    BY <1>6
  <2> QED BY <1>6, <2>1
<1>8. \A i : i \in Kept(g) <=> i \in Kept(h) /\ Balance(g, i + 1, n + 1) >= 0
  BY <1>1, <1>3, <1>4, KeptAppended
<1>20. \A i \in 1 .. n + 1 : Balance(g, i, n + 1) = Balance(h, i, n) + Weighs(c)
  BY <1>1, <1>3, <1>4, BalancesAppended
<1>9. ASSUME NEW k \in 1 .. m PROVE Balance(g, pos[k] + 1, n + 1) = m - k
  <2>1. PICK i \in 1 .. n + 1 : i = pos[k] + 1
    BY <1>6
  <2>2. Balance(h, i, n) = m - k
    BY <1>2, <1>3, <2>1 DEF Positions
  <2>3. Balance(g, i, n + 1) = Balance(h, i, n) + Weighs(c)
    BY <1>20
  <2>4. Weighs(c) = 0
    BY <1>3 DEF Weighs
  <2> QED BY <2>1, <2>2, <2>3, <2>4
<1>10. ASSUME NEW k \in 1 .. m PROVE pos[k] \in Kept(g)
  <2>1. Balance(g, pos[k] + 1, n + 1) >= 0
    BY <1>9
  <2> QED BY <1>6, <1>8, <2>1
<1>11. ASSUME NEW i \in Kept(g) PROVE \E k \in 1 .. m : pos[k] = i
  BY <1>2, <1>3, <1>8 DEF Positions
<1>12. ASSUME NEW k \in 1 .. m PROVE line[k] = g[pos[k]] - 48
  BY <1>2, <1>3, <1>5, <1>6 DEF Positions
<1>13. Positions(pos, g, line)
  BY <1>2, <1>3, <1>5, <1>7, <1>9, <1>10, <1>11, <1>12 DEF Positions
<1> QED BY <1>1, <1>4, <1>5, <1>13 DEF Writes

LEMMA EditedWritten ==
  ASSUME NEW h, NEW line, Writes(h, line), NEW c \in Int
  PROVE  Writes(Append(h, c), Edited(line, c))
<1>1. Len(line) \in Nat
  BY DEF Writes
<1>2. CASE IsDigit(c)
  <2>1. c /= DEL
    BY <1>2 DEF IsDigit, DEL
  <2>2. Edited(line, c) = Append(line, c - 48)
    BY <1>2, <2>1 DEF Edited
  <2> QED BY <1>2, <2>2, DigitWritten
<1>3. CASE ~IsDigit(c) /\ c = DEL /\ Len(line) > 0
  <2>1. Edited(line, c) = SubSeq(line, 1, Len(line) - 1)
    BY <1>3 DEF Edited
  <2> QED BY <1>3, <2>1, LastCancelled
<1>4. CASE ~IsDigit(c) /\ ~(c = DEL /\ Len(line) > 0)
  <2>1. Edited(line, c) = line
    BY <1>4 DEF Edited
  <2>2. c = DEL => Len(line) = 0
    BY <1>1, <1>4
  <2> QED BY <1>4, <2>1, <2>2, LineLeft
<1> QED BY <1>2, <1>3, <1>4

(* As many characters are kept as the line has digits.                     *)
LEMMA KeptCounted ==
  ASSUME NEW h, NEW line, Writes(h, line)
  PROVE  Cardinality(Kept(h)) = Len(line)
<1>1. PICK pos : Positions(pos, h, line)
  BY DEF Writes
<1>2. PICK m \in Nat : m = Len(line)
  BY DEF Writes
<1>3. \A k \in 1 .. m : pos[k] \in Nat
  <2>1. \A k \in 1 .. m : pos[k] \in 1 .. Len(h)
    BY <1>1, <1>2 DEF Positions
  <2>2. Len(h) \in Nat
    BY DEF Writes
  <2> QED BY <2>1, <2>2
<1>4. pos \in [1 .. m -> Kept(h)]
  BY <1>1, <1>2 DEF Positions
<1>5. ASSUME NEW k \in 1 .. m, NEW l \in 1 .. m, k /= l PROVE pos[k] /= pos[l]
  <2>1. k < l \/ l < k
    BY <1>5
  <2>2. k < l => pos[k] < pos[l]
    BY <1>1, <1>2 DEF Positions
  <2>3. l < k => pos[l] < pos[k]
    BY <1>1, <1>2 DEF Positions
  <2> QED BY <1>3, <2>1, <2>2, <2>3
<1>6. \A i \in Kept(h) : \E k \in 1 .. m : pos[k] = i
  BY <1>1, <1>2 DEF Positions
<1>7. ExistsBijection(1 .. m, Kept(h))
  BY <1>4, <1>5, <1>6 DEF ExistsBijection, Bijection, Injection, Surjection, IsInjective
<1> QED BY <1>2, <1>7, FS_CountingElements

(* The numbers the beginnings of h write.                                  *)
Sums(s, h) ==
  /\ s = [i \in 0 .. Len(h) |-> s[i]] /\ s[0] = 0
  /\ \A i \in 1 .. Len(h) : s[i] = IF i \in Kept(h) THEN s[i - 1] * 10 + (h[i] - 48) ELSE s[i - 1]

LEMMA NumberIs ==
  ASSUME NEW h \in Seq(Int)
  PROVE  \E s : Sums(s, h) /\ Number(h) = s[Len(h)]
<1> DEFINE N == Len(h)
           g == [x \in Int \X (1 .. N) |-> IF x[2] \in Kept(h) THEN x[1] * 10 + (h[x[2]] - 48) ELSE x[1]]
<1>1. N \in Nat /\ \A i \in 1 .. N : h[i] \in Int
  OBVIOUS
<1> HIDE DEF N
<1>2. g \in [Int \X (1 .. N) -> Int]
  <2>1. \A x \in Int, y \in Int : x * 10 + (y - 48) \in Int
    OBVIOUS
  <2> QED BY <1>1, <2>1
<1>3. \A x \in Int, i \in 1 .. N : g[<<x, i>>] = IF i \in Kept(h) THEN x * 10 + (h[i] - 48) ELSE x
  OBVIOUS
<1> HIDE DEF g
<1>4. PICK f : f \in [0 .. N -> Int] /\ f[0] = 0 /\ \A i \in 1 .. N : f[i] = g[<<f[i - 1], i>>]
  <2>1. \E f : Follows(f, 0, g, N, Int)
    <3>1. 0 \in Int
      OBVIOUS
    <3> QED BY <1>1, <1>2, <3>1, Recursion
  <2> QED BY <2>1 DEF Follows
<1>5. f = [i \in 0 .. N |-> IF i = 0 THEN 0 ELSE IF i \in Kept(h) THEN f[i - 1] * 10 + (h[i] - 48) ELSE f[i - 1]]
  <2>1. ASSUME NEW i \in 1 .. N PROVE f[i] = IF i \in Kept(h) THEN f[i - 1] * 10 + (h[i] - 48) ELSE f[i - 1]
    <3>1. f[i - 1] \in Int
      BY <1>1, <1>4
    <3> QED BY <1>3, <1>4, <3>1
  <2> QED BY <1>4, <2>1
<1> DEFINE s == CHOOSE f_ : f_ = [i \in 0 .. N |->
                  IF i = 0 THEN 0 ELSE IF i \in Kept(h) THEN f_[i - 1] * 10 + (h[i] - 48) ELSE f_[i - 1]]
<1>6. s = [i \in 0 .. N |-> IF i = 0 THEN 0 ELSE IF i \in Kept(h) THEN s[i - 1] * 10 + (h[i] - 48) ELSE s[i - 1]]
  BY <1>5, Zenon
<1>7. Number(h) = s[N]
  BY DEF Number, N
<1> HIDE DEF s
<1>8. s = [i \in 0 .. N |-> s[i]] /\ s[0] = 0
  BY <1>1, <1>6
<1>9. \A i \in 1 .. N : s[i] = IF i \in Kept(h) THEN s[i - 1] * 10 + (h[i] - 48) ELSE s[i - 1]
  BY <1>1, <1>6
<1> QED BY <1>7, <1>8, <1>9 DEF Sums, N

(* The line writes the number that was heard.                              *)
LEMMA NumberWritten ==
  ASSUME NEW h, NEW line, Writes(h, line)
  PROVE  line \in Seq(Nat) /\ Number(h) = Value(line)
<1>1. h \in Seq(Int) /\ line \in Seq(0 .. 9)
  BY DEF Writes
<1>2. line \in Seq(Nat)
  <2>1. PICK m \in Nat : m = Len(line)
    BY <1>1
  <2>2. line \in [1 .. m -> 0 .. 9]
    BY <1>1, <2>1
  <2>3. line \in [1 .. m -> Nat]
    BY <2>2
  <2> QED BY <2>3
<1>3. PICK pos : Positions(pos, h, line)
  BY DEF Writes
<1>4. PICK n \in Nat, m \in Nat : n = Len(h) /\ m = Len(line)
  BY <1>1
<1>5. PICK v : Values(v, line) /\ Value(line) = v[m]
  BY <1>2, <1>4, ValueIs
<1>6. PICK s : Sums(s, h) /\ Number(h) = s[n]
  BY <1>1, <1>4, NumberIs
<1>7. \A k \in 1 .. m : pos[k] \in 1 .. n /\ pos[k] \in Kept(h)
  BY <1>3, <1>4 DEF Positions
<1> DEFINE Reached(i, k) == /\ s[i] = v[k]
                            /\ \A l \in 1 .. m : (l <= k <=> pos[l] <= i)
           T == {i \in Nat : i <= n => \E k \in 0 .. m : Reached(i, k)}
<1>8. 0 \in T
  <2>1. s[0] = v[0]
    BY <1>4, <1>5, <1>6 DEF Sums, Values
  <2>2. \A l \in 1 .. m : ~(l <= 0) /\ ~(pos[l] <= 0)
    BY <1>7
  <2>3. Reached(0, 0)
    BY <2>1, <2>2
  <2> QED BY <2>3
<1>9. ASSUME NEW i \in Nat, i \in T PROVE i + 1 \in T
  <2> SUFFICES ASSUME i + 1 <= n PROVE \E k \in 0 .. m : Reached(i + 1, k)
    OBVIOUS
  <2>1. PICK k \in 0 .. m : Reached(i, k)
    BY <1>9
  <2>2. i + 1 \in 1 .. n /\ (i + 1) - 1 = i
    OBVIOUS
  <2>3. s[i + 1] = IF i + 1 \in Kept(h) THEN s[i] * 10 + (h[i + 1] - 48) ELSE s[i]
    BY <1>4, <1>6, <2>2 DEF Sums
  <2>4. CASE i + 1 \in Kept(h)
    <3>1. PICK a \in 1 .. m : pos[a] = i + 1
      BY <1>3, <1>4, <2>4 DEF Positions
    <3>2. ~(a <= k)
      BY <2>1, <3>1
    <3>3. a = k + 1
      <4>1. k + 1 \in 1 .. m /\ ~(k + 1 <= k)
        BY <3>2
      <4>2. ~(pos[k + 1] <= i)
        BY <2>1, <4>1
      <4>3. k + 1 < a => pos[k + 1] < pos[a]
        BY <1>3, <1>4, <4>1 DEF Positions
      <4>4. pos[k + 1] \in Nat
        BY <1>7, <4>1
      <4> QED BY <3>1, <3>2, <4>1, <4>2, <4>3, <4>4
    <3>4. s[i + 1] = v[k + 1]
      <4>1. line[a] = h[i + 1] - 48
        BY <1>3, <1>4, <3>1 DEF Positions
      <4>2. v[k + 1] = v[k] * 10 + line[k + 1]
        <5>1. k + 1 \in 1 .. Len(line) /\ (k + 1) - 1 = k
          BY <1>4, <3>3
        <5> QED BY <1>5, <5>1 DEF Values
      <4> QED BY <2>1, <2>3, <2>4, <3>3, <4>1, <4>2
    <3>5. ASSUME NEW l \in 1 .. m PROVE l <= k + 1 <=> pos[l] <= i + 1
      <4>1. PICK x \in Nat : x = pos[l]
        BY <1>7
      <4>2. l < a => x < i + 1
        BY <1>3, <1>4, <3>1, <4>1 DEF Positions
      <4>3. a < l => i + 1 < x
        BY <1>3, <1>4, <3>1, <4>1 DEF Positions
      <4>4. l = a => x = i + 1
        BY <3>1, <4>1
      <4> QED BY <3>3, <4>1, <4>2, <4>3, <4>4
    <3>6. k + 1 \in 0 .. m
      BY <3>3
    <3>7. Reached(i + 1, k + 1)
      BY <3>4, <3>5
    <3> QED BY <3>6, <3>7
  <2>5. CASE i + 1 \notin Kept(h)
    <3>1. ASSUME NEW l \in 1 .. m PROVE pos[l] <= i <=> pos[l] <= i + 1
      <4>1. PICK x \in Nat : x = pos[l] /\ x /= i + 1
        BY <1>7, <2>5
      <4> QED BY <4>1
    <3>2. Reached(i + 1, k)
      BY <2>1, <2>3, <2>5, <3>1
    <3> QED BY <3>2
  <2> QED BY <2>4, <2>5
<1>10. PICK k \in 0 .. m : Reached(n, k)
  <2>1. \A i \in Nat : i \in T
    <3> HIDE DEF T
    <3> QED BY <1>8, <1>9, EveryNatural
  <2> QED BY <2>1
<1>11. k = m
  <2>1. m \in 1 .. m => m <= k
    BY <1>7, <1>10
  <2> QED BY <2>1
<1> QED BY <1>2, <1>5, <1>6, <1>10, <1>11

-------------------------------------------------------------------------------
(* The fields tty_getw_irq and tty_printf work on.                         *)
NumberFields == {"at", "code", "line", "heard", "val", "shown"}

(* What a client of tty_getw_irq and tty_printf has done so far.           *)
Reads(t) ==
  sys.program[t] = "number" =>
    /\ NumberFields \subseteq DOMAIN user[t] /\ user[t].code \in Int
    /\ Writes(user[t].heard, user[t].line)
    /\ user[t].at \in {"print", "exit"} =>
         Len(user[t].line) = LineSize \/ user[t].val = Converted(user[t].line)
    /\ user[t].at = "exit" => user[t].shown = Printed(user[t].val) /\ kern[t].at \in {"out", "_exit"}

NumInv == \A t \in Tasks(sys) : Reads(t)

LEMMA InvNumbers ==
  ASSUME IInv, NumInv
  PROVE  NumbersKept
<1> SUFFICES ASSUME NEW t \in Tasks(sys), sys.program[t] = "number", user[t].at \in {"print", "exit"},
                    Cardinality(Kept(user[t].heard)) < LineSize
             PROVE  /\ Number(user[t].heard) < WordSize => user[t].val = Number(user[t].heard)
                    /\ user[t].at = "exit" /\ Number(user[t].heard) < WordSize \div 2 =>
                         /\ Value(user[t].shown) = Number(user[t].heard)
                         /\ Len(user[t].shown) > 1 => user[t].shown[1] /= 0
  BY DEF NumbersKept
<1>1. PICK h, line, val, shown : /\ h = user[t].heard /\ line = user[t].line
                                 /\ val = user[t].val /\ shown = user[t].shown
  OBVIOUS
<1>2. /\ Writes(h, line) /\ (Len(line) = LineSize \/ val = Converted(line))
      /\ user[t].at = "exit" => shown = Printed(val)
  BY <1>1 DEF NumInv, Reads
<1>3. val = Converted(line)
  <2>1. Cardinality(Kept(h)) = Len(line)
    BY <1>2, KeptCounted
  <2>2. LineSize \in Nat /\ Len(line) \in Nat
    BY <1>2, LibraryAssumption DEF Writes
  <2> QED BY <1>1, <1>2, <2>1, <2>2
<1>4. line \in Seq(Nat) /\ Number(h) = Value(line)
  BY <1>2, NumberWritten
<1>5. Value(line) < WordSize => val = Value(line)
  BY <1>3, <1>4, ConvertedRight
<1>6. ASSUME user[t].at = "exit", Value(line) < WordSize \div 2
      PROVE  Value(shown) = Value(line) /\ (Len(shown) > 1 => shown[1] /= 0)
  <2>1. PICK x \in Nat : x = Value(line)
    <3>1. PICK v : Values(v, line) /\ Value(line) = v[Len(line)]
      BY <1>4, ValueIs
    <3>2. Len(line) \in 0 .. Len(line)
      BY <1>4
    <3> QED BY <3>1, <3>2 DEF Values
  <2>2. x < WordSize
    <3>1. PICK w \in Nat : w = WordSize
      BY LibraryAssumption
    <3>2. x < w \div 2
      BY <1>6, <2>1, <3>1
    <3> QED BY <3>1, <3>2
  <2>3. val = x /\ shown = Printed(x) /\ x < WordSize \div 2
    BY <1>2, <1>5, <1>6, <2>1, <2>2
  <2> QED BY <2>1, <2>3, PrintedRight
<1> QED BY <1>1, <1>4, <1>5, <1>6

-------------------------------------------------------------------------------
LEMMA InitNumInv == Init => NumInv
<1> SUFFICES ASSUME Init, NEW t \in Tasks(sys) PROVE Reads(t)
  BY DEF NumInv
<1>1. user[t] = ProgramStart
  BY DEF Init, CallInit
<1>2. Writes(<<>>, <<>>)
  BY WritesNothing
<1> QED BY <1>1, <1>2 DEF Reads, ProgramStart, NumberFields

LEMMA ReadsKept ==
  ASSUME NEW t, Reads(t), sys' = sys, user'[t] = user[t],
         user[t].at = "exit" => kern'[t].at = kern[t].at \/ kern'[t].at \in {"out", "_exit"}
  PROVE  Reads(t)'
BY DEF Reads

LEMMA ReadsElsewhere ==
  ASSUME NumInv, sys' = sys, NEW t, Reads(t)',
         \A u \in Tasks(sys) \ {t} : user'[u] = user[u] /\ kern'[u] = kern[u]
  PROVE  NumInv'
<1>1. ASSUME NEW u \in Tasks(sys), u /= t PROVE Reads(u)'
  <2>1. Reads(u)
    BY DEF NumInv
  <2> QED BY <1>1, <2>1, ReadsKept
<1>2. Tasks(sys)' = Tasks(sys)
  BY DEF Tasks
<1> QED BY <1>1, <1>2 DEF NumInv

(* A program that has ended makes no other call than exit.                 *)
LEMMA CallReads ==
  ASSUME IInv, DevInv, NumInv, NEW p \in sys.procs, Call(p)
  PROVE  NumInv'
<1>1. PICK t : t = Task(p)
  OBVIOUS
<1>2. PICK l : l = SyscallVector[CallOf(t).no]
  OBVIOUS
<1>3. Level_(p) = "user" /\ Enter(p, l) /\ UNCHANGED <<sys, user>>
  BY <1>1, <1>2 DEF Call
<1>4. t \in Tasks(sys)
  BY <1>1, <1>3, Caller
<1>5. kern'[t].at = l /\ \A u \in Tasks(sys) \ {t} : kern'[u] = kern[u]
  BY <1>1, <1>3, Enters
<1>6. Reads(t)'
  <2>1. CASE sys.program[t] = "number"
    <3>1. user[t].at = "exit" => l = "_exit"
      BY <1>2, <2>1 DEF CallOf, Calls, NumberCalls, SyscallVector
    <3> QED BY <1>3, <1>4, <1>5, <3>1, ReadsKept DEF NumInv
  <2>2. CASE sys.program[t] /= "number"
    BY <1>3, <2>2 DEF Reads
  <2> QED BY <2>1, <2>2
<1> QED BY <1>3, <1>5, <1>6, ReadsElsewhere

(* No driver runs for it any more.                                         *)
LEMMA DriverReads ==
  ASSUME IInv, DevInv, NumInv, NEW p \in sys.procs,
         TtyWrite(p) \/ TtyStatus(p) \/ TtyFull(p) \/ TtyReset(p) \/ TimerWrite(p) \/ GcdWrite(p) \/ GcdRead(p)
  PROVE  NumInv'
<1>1. PICK t : t = Task(p)
  OBVIOUS
<1>2. PICK l \in {"_tty_write", "_tty_read", "_tty_read_irq", "tty_reset", "_timer_write", "_gcd_write", "_gcd_read"} :
        AtStep(p, l)
  BY DEF TtyWrite, TtyStatus, TtyFull, TtyReset, TimerWrite, GcdWrite, GcdRead
<1>3. UNCHANGED <<sys, user>> /\ ((\E k : Enter(p, k)) \/ \E ret : Return(p, ret))
  BY DEF TtyWrite, TtyStatus, TtyFull, TtyReset, TimerWrite, GcdWrite, GcdRead, Stays
<1>4. Level_(p) = "sys" /\ kern[t].at = l /\ t \in Tasks(sys)
  BY <1>1, <1>2, Driver
<1>5. \A u \in Tasks(sys) \ {t} : kern'[u] = kern[u]
  BY <1>1, <1>3, <1>4, Enters, Returns
<1>6. Reads(t)'
  <2>1. Reads(t)
    BY <1>4 DEF NumInv
  <2>2. CASE sys.program[t] = "number"
    <3>1. user[t].at /= "exit"
      BY <1>4, <2>1, <2>2 DEF Reads
    <3> QED BY <1>3, <2>1, <3>1, ReadsKept
  <2>3. CASE sys.program[t] /= "number"
    BY <1>3, <2>3 DEF Reads
  <2> QED BY <2>2, <2>3
<1> QED BY <1>3, <1>5, <1>6, ReadsElsewhere

(* tty_getw_irq reads by way of the buffer of its terminal.                *)
LEMMA TtyDataReads ==
  ASSUME IInv, DevInv, NumInv, NEW p \in sys.procs, TtyData(p)
  PROVE  NumInv'
<1>1. PICK t : t = Task(p)
  OBVIOUS
<1>2. AtStep(p, "tty_read_data") /\ Return(p, 1) /\ sys' = sys
  BY DEF TtyData, Stays
<1>3. Level_(p) = "sys" /\ kern[t].at = "tty_read_data" /\ t \in Tasks(sys) /\ Drives(t)
  BY <1>1, <1>2, Driver
<1>4. sys.program[t] /= "number"
  BY <1>3 DEF Drives
<1>5. \A u \in Tasks(sys) \ {t} : kern'[u] = kern[u]
  BY <1>1, <1>2, <1>3, Returns
<1>6. \A u \in Tasks(sys) \ {t} : user'[u] = user[u]
  <2>1. PICK c : Receive(p, c)
    BY DEF TtyData
  <2> QED BY <1>1, <1>3, <2>1, ReceiveIs
<1>7. Reads(t)'
  BY <1>2, <1>4 DEF Reads
<1> QED BY <1>2, <1>5, <1>6, <1>7, ReadsElsewhere

(* A program whose last character is code.                                 *)
WithCharacter(u, c, code) == [[u EXCEPT !.got = Append(u.got, c)] EXCEPT !.code = code]

LEMMA WithCharacterIs ==
  ASSUME NEW u, NEW c, NEW code, NEW w, w = WithCharacter(u, c, code), NumberFields \subseteq DOMAIN u
  PROVE  /\ DOMAIN w = DOMAIN u /\ w.code = code
         /\ w.at = u.at /\ w.line = u.line /\ w.heard = u.heard /\ w.val = u.val /\ w.shown = u.shown
BY DEF WithCharacter, NumberFields

LEMMA TtyBufReads ==
  ASSUME IInv, DevInv, NumInv, NEW p \in sys.procs, TtyBuf(p)
  PROVE  NumInv'
<1>1. PICK t : t = Task(p)
  OBVIOUS
<1>2. /\ AtStep(p, "tty_buf") /\ Receive(p, buf[tty_id(p)]) /\ Enter(p, "tty_reset") /\ sys' = sys
  BY DEF TtyBuf, Stays
<1>3. /\ Level_(p) = "sys" /\ kern[t].at = "tty_buf" /\ t \in Tasks(sys) /\ Buffered(t) /\ Drives(t)
      /\ tty_id(p) = Id(t) /\ Id(t) \in sys.channels /\ sys \in Systems
  BY <1>1, <1>2, Driver
<1>4. PICK i, c : i = Id(t) /\ c = buf[i]
  OBVIOUS
<1>5. PICK code : code = IF c[2] = 0 THEN 0 ELSE dev.typed[c[1]][c[2]]
  OBVIOUS
<1>6. code \in Int
  <2>1. Newer(t)
    BY <1>3 DEF Buffered, Drives
  <2>2. c \in Nat \X Nat /\ c[1] = i /\ c[2] > 0 /\ c[2] <= dev.rd[i] /\ dev.rd[i] <= Len(dev.typed[i])
    BY <1>3, <1>4, <2>1, KeptFacts DEF Newer, DevInv, Devices
  <2>3. dev.rd[i] \in Nat /\ dev.typed[i] \in Seq(Chars)
    BY <1>3, <1>4, KeptFacts
  <2>4. PICK x \in Nat, r \in Nat, n \in Nat : x = c[2] /\ r = dev.rd[i] /\ n = Len(dev.typed[i])
    BY <2>2, <2>3
  <2>5. x \in 1 .. n
    BY <2>2, <2>4
  <2>6. code \in Chars
    BY <1>5, <2>2, <2>3, <2>4, <2>5
  <2> QED BY <1>3, <2>6, SystemsAssumption DEF Chars
<1>7. kern'[t].at = "tty_reset" /\ \A u \in Tasks(sys) \ {t} : kern'[u] = kern[u]
  BY <1>1, <1>2, <1>3, Enters
<1>8. \A u \in Tasks(sys) \ {t} : user'[u] = user[u]
  BY <1>1, <1>2, <1>3, ReceiveIs
<1>9. user'[t] = WithCharacter(user[t], c, code)
  <2>1. user' = [user EXCEPT ![t].got = Append(@, c), ![t].code = code]
    BY <1>1, <1>2, <1>3, <1>4, <1>5 DEF Receive
  <2>2. DOMAIN user = Tasks(sys)
    BY KeptFacts
  <2>3. user' = [user EXCEPT ![t] = [[user[t] EXCEPT !.got = Append(user[t].got, c)] EXCEPT !.code = code]]
    BY <1>3, <2>1, <2>2
  <2> QED BY <1>3, <2>2, <2>3 DEF WithCharacter
<1>10. Reads(t)'
  <2> SUFFICES ASSUME sys.program[t] = "number" PROVE Reads(t)'
    BY <1>2 DEF Reads
  <2>1. Reads(t)
    BY <1>3 DEF NumInv
  <2>2. PICK u, w : u = user[t] /\ w = user'[t]
    OBVIOUS
  <2>3. /\ NumberFields \subseteq DOMAIN u /\ Writes(u.heard, u.line) /\ u.at /= "exit"
        /\ u.at \in {"print", "exit"} => Len(u.line) = LineSize \/ u.val = Converted(u.line)
    BY <1>3, <2>1, <2>2 DEF Reads
  <2>4. /\ DOMAIN w = DOMAIN u /\ w.code = code
        /\ w.at = u.at /\ w.line = u.line /\ w.heard = u.heard /\ w.val = u.val /\ w.shown = u.shown
    BY <1>9, <2>2, <2>3, WithCharacterIs
  <2> QED BY <1>6, <2>2, <2>3, <2>4 DEF Reads
<1> QED BY <1>2, <1>7, <1>8, <1>10, ReadsElsewhere

(* tty_getw_irq goes on with a character, and the program with its number. *)
LEMMA NumberGoesOn ==
  ASSUME NEW u, NEW ret, NEW w, w = NumberNext(u, ret), NumberFields \subseteq DOMAIN u,
         u.code \in Int, Writes(u.heard, u.line), u.at \in {"start", "print"},
         u.at = "print" => Len(u.line) = LineSize \/ u.val = Converted(u.line)
  PROVE  /\ NumberFields \subseteq DOMAIN w /\ w.code \in Int /\ Writes(w.heard, w.line)
         /\ w.at \in {"print", "exit"} => Len(w.line) = LineSize \/ w.val = Converted(w.line)
         /\ w.at = "exit" => w.shown = Printed(w.val)
<1> DEFINE line == Edited(u.line, u.code)
           next == [u EXCEPT !.line = line, !.heard = Append(@, u.code)]
<1>1. CASE u.at = "start" /\ ret = 1
  <2>1. Writes(Append(u.heard, u.code), line)
    BY EditedWritten
  <2> HIDE DEF line
  <2>2. /\ DOMAIN next = DOMAIN u /\ next.code = u.code /\ next.heard = Append(u.heard, u.code)
        /\ next.line = line /\ next.at = "start"
    BY <1>1 DEF NumberFields
  <2>3. w = IF Len(line) = LineSize THEN [next EXCEPT !.at = "print"]
            ELSE IF u.code \in {LF, CR} THEN [next EXCEPT !.val = Converted(line), !.at = "print"]
            ELSE next
    BY <1>1 DEF NumberNext, line
  <2> HIDE DEF next
  <2>4. CASE Len(line) = LineSize
    <3>1. w = [next EXCEPT !.at = "print"]
      BY <2>3, <2>4
    <3>2. /\ DOMAIN w = DOMAIN u /\ w.code = u.code /\ w.heard = Append(u.heard, u.code)
          /\ w.line = line /\ w.at = "print"
      BY <2>2, <3>1 DEF NumberFields
    <3> QED BY <2>1, <2>4, <3>2
  <2>5. CASE Len(line) /= LineSize /\ u.code \in {LF, CR}
    <3>1. w = [next EXCEPT !.val = Converted(line), !.at = "print"]
      BY <2>3, <2>5
    <3>2. /\ DOMAIN w = DOMAIN u /\ w.code = u.code /\ w.heard = Append(u.heard, u.code)
          /\ w.line = line /\ w.at = "print" /\ w.val = Converted(line)
      BY <2>2, <3>1 DEF NumberFields
    <3> QED BY <2>1, <3>2
  <2>6. CASE Len(line) /= LineSize /\ u.code \notin {LF, CR}
    <3>1. w = next
      BY <2>3, <2>6
    <3> QED BY <2>1, <2>2, <3>1
  <2> QED BY <2>4, <2>5, <2>6
<1>2. CASE u.at = "start" /\ ret /= 1
  <2>1. w = u
    BY <1>2 DEF NumberNext
  <2> QED BY <1>2, <2>1
<1>3. CASE u.at = "print"
  <2>1. w = [u EXCEPT !.shown = Printed(u.val), !.at = "exit"]
    BY <1>3 DEF NumberNext
  <2>2. /\ DOMAIN w = DOMAIN u /\ w.code = u.code /\ w.heard = u.heard /\ w.line = u.line
        /\ w.val = u.val /\ w.shown = Printed(u.val)
    BY <2>1 DEF NumberFields
  <2> QED BY <1>3, <2>2
<1> QED BY <1>1, <1>2, <1>3

LEMMA BackToUserReads ==
  ASSUME IInv, DevInv, NumInv, NEW p \in sys.procs, BackToUser(p)
  PROVE  NumInv'
<1>1. PICK t : t = Task(p)
  OBVIOUS
<1>2. /\ AtStep(p, "return") /\ sys' = sys
      /\ user' = [user EXCEPT ![t] = Resumed(sys.program[t], user[t], kern[t].ret)]
      /\ kern' = [kern EXCEPT ![t] = Out]
  BY <1>1 DEF BackToUser
<1>3. kern[t].at = "return" /\ t \in Tasks(sys)
  BY <1>1, <1>2, Driver
<1>4. DOMAIN user = Tasks(sys) /\ DOMAIN kern = Tasks(sys)
  BY KeptFacts
<1>5. /\ user'[t] = Resumed(sys.program[t], user[t], kern[t].ret) /\ kern'[t].at = "out"
      /\ \A u \in Tasks(sys) \ {t} : user'[u] = user[u] /\ kern'[u] = kern[u]
  BY <1>2, <1>3, <1>4 DEF Out
<1>6. Reads(t)'
  <2> SUFFICES ASSUME sys.program[t] = "number" PROVE Reads(t)'
    BY <1>2 DEF Reads
  <2>1. PICK u, w : u = user[t] /\ w = user'[t]
    OBVIOUS
  <2>2. w = NumberNext(u, kern[t].ret)
    BY <1>5, <2>1 DEF Resumed
  <2>3. Reads(t)
    BY <1>3 DEF NumInv
  <2>4. /\ NumberFields \subseteq DOMAIN u /\ u.code \in Int /\ Writes(u.heard, u.line) /\ u.at /= "exit"
        /\ u.at = "print" => Len(u.line) = LineSize \/ u.val = Converted(u.line)
    BY <1>3, <2>1, <2>3 DEF Reads
  <2>5. u.at \in {"start", "print"}
    <3>1. u.at \in DOMAIN NumberCalls
      BY <1>3, <2>1 DEF IInv, Places, Labelled, Calls
    <3> QED BY <2>4, <3>1 DEF NumberCalls
  <2>6. /\ NumberFields \subseteq DOMAIN w /\ w.code \in Int /\ Writes(w.heard, w.line)
        /\ w.at \in {"print", "exit"} => Len(w.line) = LineSize \/ w.val = Converted(w.line)
        /\ w.at = "exit" => w.shown = Printed(w.val)
    BY <2>2, <2>4, <2>5, NumberGoesOn
  <2> QED BY <1>5, <2>1, <2>6 DEF Reads
<1> QED BY <1>2, <1>5, <1>6, ReadsElsewhere

LEMMA StepNumInv == IInv /\ DevInv /\ NumInv /\ [Next]_kernelVars => NumInv'
<1> SUFFICES ASSUME IInv, DevInv, NumInv, [Next]_kernelVars PROVE NumInv'
  OBVIOUS
<1>1. CASE \E p \in sys.procs : RunProgram(p)
  <2>1. PICK p \in sys.procs : Run(p)
    BY <1>1 DEF RunProgram
  <2> QED BY <2>1, CallReads, BackToUserReads, DriverReads, TtyDataReads, TtyBufReads DEF Run
<1>2. CASE ~ \E p \in sys.procs : RunProgram(p)
  <2>1. UNCHANGED <<sys, user, kern>>
    BY <1>2 DEF Next, Processor, Elaborate, Environment, TypeCharacter, Tick, GcdDone, taskVars, kernelVars,
       StartProc, TakeInterrupt, HandleInterrupt, callVars, Boot, Interrupt, Handle, Demux, IsrTimer, IsrTtyGet,
       IsrSwitch, CtxSwitch, Restore
  <2> QED BY <2>1 DEF NumInv, Reads, Tasks
<1> QED BY <1>1, <1>2

(* Whatever is typed, DELs included, and however the characters reach the  *)
(* program through interrupts and the buffer of its terminal: a number     *)
(* that fits an unsigned int is the one tty_getw_irq returns, and one that *)
(* fits an int is the one tty_printf writes, without leading zeros, for    *)
(* words of at most 32 bits and a line of any size (app/stdio.c).          *)
THEOREM NumbersAlwaysKept == Spec => []NumbersKept
<1>1. Init => IInv /\ DevInv /\ NumInv
  BY InitIInv, InitDevInv, InitNumInv
<1>2. IInv /\ DevInv /\ NumInv /\ [Next]_kernelVars => (IInv /\ DevInv /\ NumInv)'
  BY StepIInv, StepDevInv, StepNumInv
<1>3. IInv /\ DevInv /\ NumInv => NumbersKept
  BY InvNumbers
<1> QED BY <1>1, <1>2, <1>3, PTL DEF Spec
===============================================================================
