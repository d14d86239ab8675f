------------------------------- MODULE GietTasks -------------------------------
(***************************************************************************)
(* The processors under the GIET: boot, interrupts, interrupt routines,    *)
(* entry to and exit from a system call, and the switch of tasks (giet.s,  *)
(* irq_handler.c, ctx_handler.c and the boot code of the software).        *)
(*                                                                         *)
(* Registers are abstracted to whose values they hold: the stack pointer   *)
(* and the saved registers, the temporaries, and EPC.  Code of a task runs *)
(* at level "user" or "sys", the interrupt handler at level "int".         *)
(***************************************************************************)
EXTENDS GietPrograms, PlatformMap

CONSTANT Systems    \* the platforms, each with the software it runs

(* Task <<p, k>> is task k of processor p.                                 *)
Tasks(s) == {t \in s.procs \X (0 .. s.maxtasks - 1) : t[2] < s.tasks[t[1]]}

(* _isr_tty_get_indexed, called by _isr_tty_get and _isr_tty_get_task*.    *)
TaskOfIsr == [_isr_tty_get |-> 0, _isr_tty_get_task0 |-> 0, _isr_tty_get_task1 |-> 1,
              _isr_tty_get_task2 |-> 2, _isr_tty_get_task3 |-> 3]

(* The functions an interrupt vector may hold.                             *)
Routines == DOMAIN TaskOfIsr \cup {"_isr_default", "_isr_timer", "_isr_switch", "_isr_ioc", "_isr_dma"}

(* The system "none" has any map and no software: it only elaborates.      *)
ASSUME SystemsAssumption ==
  \A s \in Systems :
    /\ IF s.top = "none" THEN s.procs = {} ELSE s.top \in DOMAIN TopMap /\ TopMap[s.top] \in Maps
    /\ s.maxtasks \in Nat
    /\ \A p \in s.procs :
         /\ s.tasks[p] \in 1 .. s.maxtasks
         /\ \A n \in DOMAIN s.vector[p] : s.vector[p][n] \in Routines
    /\ \A t \in Tasks(s) : s.program[t] \in DOMAIN Calls
    /\ \A i \in s.channels : s.typing[i].chars \subseteq Nat

(* The number of registers of a channel, as hwr_mapping.h names them.      *)
NbRegs == [tty |-> TTY_SPAN, tim |-> TIMER_SPAN, icu |-> ICU_END, gcd |-> GCD_END]

(* The software finds component c at base: the platform has a segment for  *)
(* it alone there, with room for the registers of this channel.            *)
Linked(top, c, base, channel) ==
  \E seg \in Segs(TopMap[top]) :
    /\ seg.base = base /\ SegmentList(TopMap[top], <<seg.index[1]>>) = {seg}
    /\ Components[top][seg.index[1] + 1] = c /\ channel * Span[c] + NbRegs[c] <= seg.size

(* The terminal of task k of processor p.                                  *)
Terminal(s, p, k) == p * s.maxtasks + k

(* The platform has what the software uses, and the routines of the        *)
(* terminals are those the interrupt lines of their terminals call.        *)
ASSUME PlatformAssumption ==
  \A s \in Systems : \A p \in s.procs :
    /\ p \in Nat \cap s.channels /\ s.mask[p] \subseteq DOMAIN s.irq \cap (0 .. 31)
    /\ s.mask[p] /= {} =>
         Linked(s.top, "icu", seg_icu_base, p) /\ Linked(s.top, "tim", seg_timer_base, p)
    /\ \A k \in 0 .. s.tasks[p] - 1 :
         /\ Terminal(s, p, k) \in s.channels
         /\ Linked(s.top, "tty", seg_tty_base, Terminal(s, p, k))
         /\ s.program[<<p, k>>] \in {"main", "tim"} => Linked(s.top, "tim", seg_timer_base, p)
         /\ s.program[<<p, k>>] = "gcd" => Linked(s.top, "gcd", seg_gcd_base, 0)
    /\ \A q \in s.procs : \A n \in s.mask[p] \cap DOMAIN s.vector[q] :
         s.vector[q][n] \in DOMAIN TaskOfIsr =>
           \E k \in 0 .. s.tasks[p] - 1 :
             TaskOfIsr[s.vector[q][n]] = k /\ s.irq[n] = <<"tty", Terminal(s, p, k)>>

(* Each processor boots on a stack of its own, within the segment that the *)
(* platform has at seg_stack_base.                                         *)
ASSUME StackAssumption ==
  \A s \in Systems : \A p \in s.procs :
    /\ \E seg \in Segs(TopMap[s.top]) : seg.base = seg_stack_base /\ s.stack[p] \in 1 .. seg.size
    /\ \A q \in s.procs : q /= p => s.stack[q] /= s.stack[p]

VARIABLES sys,          \* the system
          dev,          \* its devices
          cpu,          \* the registers of each processor
          intframe,     \* what _int_handler saved on the stack of each task
          sysframe,     \* what _sys_handler did
          ctx,          \* _task_context_array
          cur,          \* _current_task_array
          vector,       \* _interrupt_vector
          full, buf     \* _tty_get_full and _tty_get_buf

taskVars == <<sys, dev, cpu, intframe, sysframe, ctx, cur, vector, full, buf>>

NoCode == <<"reset", 0>>

(* What a routine leaves in the temporaries.                               *)
Clobbered == -1

Frame == [temp |-> Clobbered, epc |-> NoCode]

(* The context of a task that never ran: the switch to it returns to an    *)
(* eret that enters the program.  No boot code of the repository prepares  *)
(* one, for a processor runs one task (NB_MAXTASKS is 1).                  *)
FirstContext(k) ==
  [sp |-> k, temp |-> k, epc |-> <<"user", k>>, um |-> TRUE, exl |-> TRUE, ra |-> "eret"]

TaskInit ==
  /\ sys \in {s \in Systems : s.top = "none" \/ map = TopMap[s.top]}
  /\ dev = DevicesOff(sys.channels)
  /\ cpu = [p \in sys.procs |->
              [code |-> NoCode, sp |-> 0, temp |-> 0, epc |-> NoCode,
               um |-> FALSE, exl |-> TRUE, step |-> "none"]]
  /\ intframe = [t \in Tasks(sys) |-> Frame]
  /\ sysframe = [t \in Tasks(sys) |-> [um |-> FALSE, exl |-> FALSE, epc |-> NoCode]]
  /\ ctx = [t \in Tasks(sys) |-> FirstContext(t[2])]
  /\ cur = [p \in sys.procs |-> 0]
  /\ vector = [n \in 0 .. 31 |-> "_isr_default"]
  /\ full = [i \in sys.channels |-> 0] /\ buf = [i \in sys.channels |-> NoCharacter]

-------------------------------------------------------------------------------
(* The register a driver reaches: base + channel * span + reg.             *)
Register(base, channel, span, reg) == Registers[sys.top][base + channel * span + reg]

Load(r)     == Loaded(sys.irq, dev, r)
Store(r, v) == dev' = AfterStore(dev, r, v)

Task(p)   == <<p, cpu[p].code[2]>>
Level_(p) == cpu[p].code[1]
InInt(p, step) == Level_(p) = "int" /\ cpu[p].step = step

(* No program of the repository has several tasks: whoever writes one has  *)
(* to start the timer that switches them.                                  *)
TaskTimer(p, d) ==
  IF sys.tasks[p] = 1 THEN d
  ELSE AfterStore(d, Register(seg_timer_base, p, TIMER_SPAN, TIMER_MODE), 3)

(* The boot code: interrupt vector and mask, stack pointer, SR, and eret   *)
(* into the first program.                                                 *)
Boot(p) ==
  /\ stage = "built" /\ cpu[p].code = NoCode
  /\ vector' = [n \in 0 .. 31 |-> IF n \in DOMAIN sys.vector[p] THEN sys.vector[p][n] ELSE vector[n]]
  /\ dev' = IF sys.mask[p] = {} THEN dev
            ELSE TaskTimer(p, AfterStore(dev, Register(seg_icu_base, p, ICU_SPAN, ICU_MASK_SET), sys.mask[p]))
  /\ cpu' = [cpu EXCEPT ![p] = [@ EXCEPT !.code = <<"user", 0>>, !.um = TRUE, !.exl = FALSE]]
  /\ UNCHANGED <<sys, intframe, sysframe, ctx, cur, full, buf>>

-------------------------------------------------------------------------------
(* _int_handler: the frame goes to the stack the registers point to.       *)
Interrupt(p) ==
  /\ Level_(p) \in {"user", "sys"} /\ ~cpu[p].exl
  /\ Raised(sys.irq, dev, p) /= {}
  /\ intframe' = [intframe EXCEPT ![<<p, cpu[p].sp>>] = [temp |-> cpu[p].temp, epc |-> cpu[p].code]]
  /\ cpu' = [cpu EXCEPT ![p] = [@ EXCEPT !.code = <<"int", 0>>, !.exl = TRUE,
                                         !.epc = cpu[p].code, !.step = "demux"]]
  /\ UNCHANGED <<sys, dev, sysframe, ctx, cur, vector, full, buf>>

(* The interrupt routines overwrite the temporaries.                       *)
Goto(p, step) == cpu' = [cpu EXCEPT ![p] = [@ EXCEPT !.step = step, !.temp = Clobbered]]

(* _int_demux.                                                             *)
Demux(p) ==
  /\ InInt(p, "demux")
  /\ LET n == Load(Register(seg_icu_base, p, ICU_SPAN, ICU_IT_VECTOR))
     IN  Goto(p, IF n \in DOMAIN vector THEN vector[n] ELSE "restore")
  /\ UNCHANGED <<sys, dev, intframe, sysframe, ctx, cur, vector, full, buf>>

IsrTimer(p) ==
  /\ InInt(p, "_isr_timer")
  /\ Store(Register(seg_timer_base, p, TIMER_SPAN, TIMER_RESETIRQ), 0)
  /\ Goto(p, "restore")
  /\ UNCHANGED <<sys, intframe, sysframe, ctx, cur, vector, full, buf>>

(* A routine that leaves the character where it is while the buffer is     *)
(* full, and with it the interrupt line up.                                *)
IsrTtyGetIfEmpty(p) ==
  /\ Level_(p) = "int" /\ cpu[p].step \in DOMAIN TaskOfIsr
  /\ LET id == Terminal(sys, p, TaskOfIsr[cpu[p].step])
         r  == Register(seg_tty_base, id, TTY_SPAN, TTY_READ)
     IN  IF full[id] = 1 THEN UNCHANGED <<buf, dev, full>>
         ELSE /\ buf' = [buf EXCEPT ![id] = Load(r)] /\ dev' = AfterLoad(dev, r)
              /\ full' = [full EXCEPT ![id] = 1]
  /\ Goto(p, "restore")
  /\ UNCHANGED <<sys, intframe, sysframe, ctx, cur, vector>>

IsrTtyGet(p) ==
  /\ Level_(p) = "int" /\ cpu[p].step \in DOMAIN TaskOfIsr
  /\ LET id == Terminal(sys, p, TaskOfIsr[cpu[p].step])
         r  == Register(seg_tty_base, id, TTY_SPAN, TTY_READ)
     IN  /\ buf' = [buf EXCEPT ![id] = Load(r)] /\ dev' = AfterLoad(dev, r)
         /\ full' = [full EXCEPT ![id] = 1]
  /\ Goto(p, "restore")
  /\ UNCHANGED <<sys, intframe, sysframe, ctx, cur, vector>>

(* _isr_switch, up to its call of _ctx_switch.                             *)
IsrSwitch(p) ==
  /\ InInt(p, "_isr_switch")
  /\ Store(Register(seg_timer_base, p, TIMER_SPAN, TIMER_RESETIRQ), 0)
  /\ Goto(p, "_ctx_switch")
  /\ UNCHANGED <<sys, intframe, sysframe, ctx, cur, vector, full, buf>>

(* _task_switch, from the context of task cur[p] to that of task next.     *)
TaskSwitch(p, next) ==
  LET new == ctx[<<p, next>>]
      r   == cpu[p]
  IN  /\ ctx' = [ctx EXCEPT ![<<p, cur[p]>>] =
                   [sp |-> r.sp, temp |-> r.temp, epc |-> r.epc, um |-> r.um, exl |-> r.exl, ra |-> "restore"]]
      /\ cpu' = [cpu EXCEPT ![p] = [@ EXCEPT !.sp = new.sp, !.temp = new.temp, !.epc = new.epc,
                                             !.um = new.um, !.exl = new.exl, !.step = new.ra]]

(* A switch that leaves _current_task_array alone.                         *)
CtxSwitchSameTask(p) ==
  /\ InInt(p, "_ctx_switch")
  /\ TaskSwitch(p, (cur[p] + 1) % sys.tasks[p])
  /\ UNCHANGED <<sys, dev, intframe, sysframe, cur, vector, full, buf>>

(* _ctx_switch, with interrupts disabled: the next task in turn.           *)
CtxSwitch(p) ==
  /\ InInt(p, "_ctx_switch")
  /\ IF sys.tasks[p] <= 1
     THEN Goto(p, "restore") /\ UNCHANGED <<ctx, cur>>
     ELSE LET next == (cur[p] + 1) % sys.tasks[p]
          IN  TaskSwitch(p, next) /\ cur' = [cur EXCEPT ![p] = next]
  /\ UNCHANGED <<sys, dev, intframe, sysframe, vector, full, buf>>

(* The end of _int_handler, from the stack the registers point to now, or  *)
(* the eret that starts a task.                                            *)
Restore(p) ==
  /\ Level_(p) = "int" /\ cpu[p].step \in {"restore", "eret"}
  /\ LET f == IF cpu[p].step = "eret" THEN [temp |-> cpu[p].temp, epc |-> cpu[p].epc]
              ELSE intframe[<<p, cpu[p].sp>>]
     IN  cpu' = [cpu EXCEPT ![p] = [@ EXCEPT !.code = f.epc, !.temp = f.temp, !.epc = f.epc,
                                             !.exl = FALSE, !.step = "none"]]
  /\ UNCHANGED <<sys, dev, intframe, sysframe, ctx, cur, vector, full, buf>>

(* One step of the interrupt handler.                                      *)
Handle(p) ==
  Demux(p) \/ IsrTimer(p) \/ IsrTtyGet(p) \/ IsrSwitch(p) \/ CtxSwitch(p) \/ Restore(p)

-------------------------------------------------------------------------------
(* _sys_handler: SR and EPC are saved, then interrupts enabled.            *)
EnterKernel(p) ==
  /\ sysframe' = [sysframe EXCEPT ![<<p, cpu[p].sp>>] =
                    [um |-> cpu[p].um, exl |-> TRUE, epc |-> cpu[p].code]]
  /\ cpu' = [cpu EXCEPT ![p] = [@ EXCEPT !.code = <<"sys", cpu[p].code[2]>>, !.epc = cpu[p].code,
                                         !.um = FALSE, !.exl = FALSE]]
  /\ UNCHANGED <<intframe, ctx, cur, vector>>

(* A handler that returns to what EPC holds after the call.                *)
LeaveKernelByEpc(p) ==
  /\ LET f == sysframe[<<p, cpu[p].sp>>]
     IN  cpu' = [cpu EXCEPT ![p] = [@ EXCEPT !.code = cpu[p].epc, !.um = f.um, !.exl = FALSE]]
  /\ UNCHANGED <<intframe, sysframe, ctx, cur, vector>>

(* The end of _sys_handler: interrupts disabled, SR and EPC restored, eret. *)
LeaveKernel(p) ==
  /\ LET f == sysframe[<<p, cpu[p].sp>>]
     IN  cpu' = [cpu EXCEPT ![p] = [@ EXCEPT !.code = f.epc, !.epc = f.epc, !.um = f.um, !.exl = FALSE]]
  /\ UNCHANGED <<intframe, sysframe, ctx, cur, vector>>
===============================================================================
