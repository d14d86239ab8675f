------------------------------ MODULE GietKernel ------------------------------
(***************************************************************************)
(* A platform from its elaboration on: sc_main builds the address map, the *)
(* processors boot the GIET, and programs read their terminals while the   *)
(* timers and the terminals interrupt them.                                *)
(***************************************************************************)
EXTENDS GietSyscalls

VARIABLE begun      \* begun[p]: no interrupt was up when the last step of p ended

kernelVars == <<map, added, stage, sys, dev, cpu, intframe, sysframe, ctx, cur,
                vector, full, buf, user, kern, begun>>

Init == MapInit /\ TaskInit /\ CallInit /\ begun = [p \in sys.procs |-> FALSE]

-------------------------------------------------------------------------------
Elaborate == MapNext /\ UNCHANGED <<taskVars, callVars, begun>>

StartProc(p) == Boot(p) /\ UNCHANGED <<mapVars, callVars>>

TakeInterrupt(p) == Interrupt(p) /\ UNCHANGED <<mapVars, callVars>>

HandleInterrupt(p) == Handle(p) /\ UNCHANGED <<mapVars, callVars>>

(* A processor that finds a line up takes the interrupt before it executes *)
(* anything else, but completes the access it has begun when a line rises. *)
RunProgram(p) ==
  (begun[p] \/ Raised(sys.irq, dev, p) = {}) /\ Run(p) /\ UNCHANGED mapVars

Sample(p) == begun' = [begun EXCEPT ![p] = Raised(sys.irq, dev', p) = {}]

(* Somebody types one of the characters sys.typing allows.                 *)
TypeCharacter(i) ==
  /\ stage = "built"
  /\ Len(dev.typed[i]) < sys.typing[i].max
  /\ \E c \in sys.typing[i].chars : dev' = [dev EXCEPT !.typed[i] = Append(@, c)]
  /\ UNCHANGED <<mapVars, sys, cpu, intframe, sysframe, ctx, cur, vector, full, buf, callVars, begun>>

(* A period of the timer is far longer than an interrupt: its processor    *)
(* has run a step of a program since the last one.                         *)
Tick(i) ==
  /\ dev.mode[i] /= 0 /\ dev.ran[i]
  /\ dev' = AfterTick(dev, i)
  /\ UNCHANGED <<mapVars, sys, cpu, intframe, sysframe, ctx, cur, vector, full, buf, callVars, begun>>

(* The coprocessor ends a computation: its operands are equal.             *)
GcdDone ==
  /\ dev.busy
  /\ dev' = [dev EXCEPT !.busy = FALSE]
  /\ UNCHANGED <<mapVars, sys, cpu, intframe, sysframe, ctx, cur, vector, full, buf, callVars, begun>>

Processor(p) ==
  (StartProc(p) \/ TakeInterrupt(p) \/ HandleInterrupt(p) \/ RunProgram(p)) /\ Sample(p)

Environment == \E i \in sys.channels : TypeCharacter(i) \/ Tick(i)

Next == Elaborate \/ (\E p \in sys.procs : Processor(p)) \/ Environment \/ GcdDone

Spec == Init /\ [][Next]_kernelVars

(* The elaboration goes on, each processor executes, and a running timer   *)
(* ticks.                                                                  *)
Processors == UNION {s.procs : s \in Systems}

Fairness ==
  /\ WF_kernelVars(Elaborate)
  /\ \A p \in Processors :
       /\ WF_kernelVars(p \in sys.procs /\ Processor(p))
       /\ WF_kernelVars(p \in sys.procs /\ Tick(p))

FairSpec == Spec /\ Fairness

-------------------------------------------------------------------------------
TypeOK ==
  /\ MapTypeOK /\ sys \in Systems
  /\ \A i \in sys.channels :
       /\ dev.rd[i] \in 0 .. Len(dev.typed[i]) /\ dev.mode[i] \in {0, 3}
       /\ dev.mask[i] \subseteq DOMAIN sys.irq
       /\ full[i] \in {0, 1} /\ buf[i][2] \in 0 .. dev.rd[i]
  /\ \A p \in sys.procs :
       /\ cpu[p].code[1] \in {"reset", "user", "sys", "int"}
       /\ cpu[p].sp \in 0 .. sys.tasks[p] - 1 /\ cur[p] \in 0 .. sys.tasks[p] - 1
       /\ cpu[p].temp \in {Clobbered} \cup (0 .. sys.tasks[p] - 1) /\ begun[p] \in BOOLEAN
  /\ \A t \in Tasks(sys) : user[t].at \in DOMAIN Calls[sys.program[t]] /\ kern[t].ret \in Nat

(***************************************************************************)
(* Whatever interrupts and switches came in between, code of a task runs   *)
(* with the stack and registers of that task, at the privilege of its      *)
(* level, with interrupts enabled, where the task left off: in user code   *)
(* when it is in no system call, in the kernel when it is in one, and it   *)
(* is the task that _current_task_array names (giet.s, ctx_handler.c).     *)
(***************************************************************************)
ContextKept ==
  \A p \in sys.procs :
    Level_(p) \in {"user", "sys"} =>
      LET k == cpu[p].code[2] IN
        /\ cpu[p].sp = k /\ cpu[p].temp = k /\ cur[p] = k
        /\ cpu[p].um = (Level_(p) = "user") /\ ~cpu[p].exl
        /\ (Level_(p) = "user") = (kern[<<p, k>>].at = "out")

(* The program of a task reads its terminal with _tty_read, although the   *)
(* terminal also interrupts: _isr_tty_get and _tty_read share it.          *)
SharesTerminal(t) ==
  /\ \E l \in DOMAIN Calls[sys.program[t]] : Calls[sys.program[t]][l].no = "TTY_READ"
  /\ \E n \in sys.mask[t[1]] : sys.irq[n] = <<"tty", Terminal(sys, t[1], t[2])>>

(***************************************************************************)
(* The characters a program receives from its terminal were typed at that  *)
(* terminal, come in this order, and none is received twice, although one  *)
(* may be lost when it comes before the last was read; a program that does *)
(* not share its terminal with an interrupt routine receives nothing else  *)
(* (_isr_tty_get_indexed, _tty_read_irq, _tty_read).                       *)
(***************************************************************************)
CharactersInOrder ==
  \A t \in Tasks(sys) :
    LET got == user[t].got IN
      \A i \in 1 .. Len(got) :
        /\ got[i][1] = Terminal(sys, t[1], t[2])
        /\ IF got[i][2] = 0 THEN SharesTerminal(t)
           ELSE \A j \in 1 .. i - 1 : got[j][2] < got[i][2]

(***************************************************************************)
(* "Returns 0 if the register is empty, 1 if the register is full", of a   *)
(* function that "fetches one character directly from the TTY_READ         *)
(* register" (drivers.c:262-268): a program that is given a character is   *)
(* given one that was typed.  Of all programs; the code keeps it only of   *)
(* those that do not share their terminal.                                 *)
(***************************************************************************)
ReadsWhatWasTyped ==
  \A t \in Tasks(sys) : \A i \in 1 .. Len(user[t].got) : user[t].got[i][2] > 0

(* The digits of a line that no DEL cancels, by their positions: each DEL  *)
(* after such a digit finds another digit between them to cancel.          *)
Dels(h, i, j)   == {n \in i .. j : h[n] = DEL}
Digits(h, i, j) == {n \in i .. j : IsDigit(h[n])}

Kept(h) ==
  {i \in Digits(h, 1, Len(h)) :
     \A j \in i + 1 .. Len(h) : Cardinality(Dels(h, i + 1, j)) <= Cardinality(Digits(h, i + 1, j))}

(* The number they write.                                                  *)
Number(h) ==
  LET sum[i \in 0 .. Len(h)] ==
        IF i = 0 THEN 0 ELSE IF i \in Kept(h) THEN sum[i - 1] * 10 + (h[i] - 48) ELSE sum[i - 1]
  IN  sum[Len(h)]

Value(s) == LET v[i \in 0 .. Len(s)] == IF i = 0 THEN 0 ELSE v[i - 1] * 10 + s[i] IN v[Len(s)]

(***************************************************************************)
(* A number that fits an unsigned int is what tty_getw_irq returns of the  *)
(* characters it was given, and one that fits an int is what tty_printf    *)
(* writes of it, without leading zeros (app/stdio.c).                      *)
(***************************************************************************)
NumbersKept ==
  \A t \in Tasks(sys) :
    LET u == user[t]
        n == Number(u.heard)
    IN  sys.program[t] = "number" /\ u.at \in {"print", "exit"}
          /\ Cardinality(Kept(u.heard)) < LineSize =>
        /\ n < WordSize => u.val = n
        /\ u.at = "exit" /\ n < WordSize \div 2 =>
             Value(u.shown) = n /\ (Len(u.shown) > 1 => u.shown[1] /= 0)

(***************************************************************************)
(* Every interrupt that reaches a processor is acknowledged: the lines of  *)
(* a timer and of the terminal of the same number are down again and       *)
(* again, although the timer keeps rising and has a higher priority, and   *)
(* even after the program has ended (_int_demux and the routines).         *)
(***************************************************************************)
InterruptsServed ==
  \A i \in UNION {s.channels : s \in Systems} :
    []<>(\A p \in sys.procs : \A n \in dev.mask[p] :
           sys.irq[n][2] = i => ~Up(sys.irq, dev, n))

(***************************************************************************)
(* Every task of a processor that has several runs again and again: the    *)
(* timer takes the processor from each of them (_isr_switch, _ctx_switch). *)
(***************************************************************************)
TasksTakeTurns ==
  \A k \in UNION {0 .. s.maxtasks - 1 : s \in Systems} :
    []<>(\A p \in sys.procs : k < sys.tasks[p] /\ sys.tasks[p] > 1 =>
           stage /= "built" \/ cpu[p].code \in {<<"user", k>>, <<"sys", k>>})
===============================================================================
