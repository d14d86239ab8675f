------------------------------ MODULE GietSyscalls ------------------------------
(***************************************************************************)
(* The programs and the system calls they make: the drivers of the timers, *)
(* the terminals and the coprocessor (sys/drivers.c), entered by way of    *)
(* the system call vector (sys/sys_handler.c).                             *)
(*                                                                         *)
(* Interrupts are enabled in a system call, so each access to a device or  *)
(* to a variable shared with an interrupt routine is a step.               *)
(***************************************************************************)
EXTENDS GietTasks

VARIABLES user,     \* the local state of each program
          kern      \* where it is in a system call, and what that returns

callVars == <<user, kern>>

Out == [at |-> "out", ret |-> 0]

CallInit ==
  /\ user = [t \in Tasks(sys) |-> ProgramStart]
  /\ kern = [t \in Tasks(sys) |-> Out]

(* The entries of _syscall_vector the programs use.                        *)
SyscallVector ==
  [TTY_WRITE |-> "_tty_write", TTY_READ |-> "_tty_read", TTY_READ_IRQ |-> "_tty_read_irq",
   TIMER_WRITE |-> "_timer_write", GCD_WRITE |-> "_gcd_write", GCD_READ |-> "_gcd_read",
   EXIT |-> "_exit"]

CallOf(t) == Calls[sys.program[t]][user[t].at]

(* Processor p executes the driver at step l for its task.                 *)
AtStep(p, l) == Level_(p) = "sys" /\ kern[Task(p)].at = l

Enter(p, l) == kern' = [kern EXCEPT ![Task(p)].at = l]

Return(p, ret) == kern' = [kern EXCEPT ![Task(p)] = [at |-> "return", ret |-> ret]]

(* A step that stays in the driver, and after which the devices are in d.  *)
Stays(p, d) ==
  /\ dev' = Noticed(d, p)
  /\ UNCHANGED <<sys, cpu, intframe, sysframe, ctx, cur, vector>>

-------------------------------------------------------------------------------
(* The program makes its next system call.                                 *)
Call(p) ==
  /\ Level_(p) = "user"
  /\ Enter(p, SyscallVector[CallOf(Task(p)).no])
  /\ EnterKernel(p)
  /\ dev' = Noticed(dev, p)
  /\ UNCHANGED <<sys, full, buf, user>>

(* The system call returns to the program.                                 *)
BackToUser(p) ==
  /\ AtStep(p, "return")
  /\ LeaveKernel(p)
  /\ LET t == Task(p) IN
       /\ user' = [user EXCEPT ![t] = Resumed(sys.program[t], @, kern[t].ret)]
       /\ kern' = [kern EXCEPT ![t] = Out]
  /\ dev' = Noticed(dev, p)
  /\ UNCHANGED <<sys, full, buf>>

(* The terminal of the running task: its context slot 34 is 0.             *)
tty_id(p) == Terminal(sys, p, cur[p])

(* The terminal never reports that it is busy: the string is written.      *)
TtyWrite(p) ==
  /\ AtStep(p, "_tty_write")
  /\ Return(p, Len(Printed(user[Task(p)].val)))
  /\ Stays(p, dev)
  /\ UNCHANGED <<full, buf, user>>

(* The user buffer receives character number c[2] of terminal c[1], or, if *)
(* that is 0, what the register holds when there is none.                  *)
Receive(p, c) ==
  user' = [user EXCEPT ![Task(p)].got = Append(@, c),
                       ![Task(p)].code = IF c[2] = 0 THEN 0 ELSE dev.typed[c[1]][c[2]]]

TtyStatus(p) ==
  /\ AtStep(p, "_tty_read")
  /\ IF Load(Register(seg_tty_base, tty_id(p), TTY_SPAN, TTY_STATUS)) = 1
     THEN Enter(p, "tty_read_data") ELSE Return(p, 0)
  /\ Stays(p, dev)
  /\ UNCHANGED <<full, buf, user>>

(* The register is read and 1 returned, although the interrupt routine may *)
(* have taken the character in between.                                    *)
TtyData(p) ==
  /\ AtStep(p, "tty_read_data")
  /\ LET r == Register(seg_tty_base, tty_id(p), TTY_SPAN, TTY_READ)
     IN  Receive(p, Load(r)) /\ Stays(p, AfterLoad(dev, r))
  /\ Return(p, 1)
  /\ UNCHANGED <<full, buf>>

(* _tty_read_irq: the flag, the character, the flag again.                 *)
TtyFull(p) ==
  /\ AtStep(p, "_tty_read_irq")
  /\ IF full[tty_id(p)] = 0 THEN Return(p, 0) ELSE Enter(p, "tty_buf")
  /\ Stays(p, dev)
  /\ UNCHANGED <<full, buf, user>>

TtyBuf(p) ==
  /\ AtStep(p, "tty_buf")
  /\ Receive(p, buf[tty_id(p)])
  /\ Enter(p, "tty_reset")
  /\ Stays(p, dev)
  /\ UNCHANGED <<full, buf>>

(* A read that leaves the buffer marked as full.                           *)
TtyResetForgotten(p) ==
  /\ AtStep(p, "tty_reset")
  /\ Return(p, 1)
  /\ Stays(p, dev)
  /\ UNCHANGED <<full, buf, user>>

TtyReset(p) ==
  /\ AtStep(p, "tty_reset")
  /\ full' = [full EXCEPT ![tty_id(p)] = 0]
  /\ Return(p, 1)
  /\ Stays(p, dev)
  /\ UNCHANGED <<buf, user>>

(* The drivers that make one access, after a test of the register index.   *)
TimerWrite(p) ==
  /\ AtStep(p, "_timer_write")
  /\ LET c == CallOf(Task(p)) IN
       IF c.reg >= TIMER_SPAN THEN Return(p, 1) /\ Stays(p, dev)
       ELSE Return(p, 0) /\ Stays(p, AfterStore(dev, Register(seg_timer_base, p, TIMER_SPAN, c.reg), c.val))
  /\ UNCHANGED <<full, buf, user>>

GcdWrite(p) ==
  /\ AtStep(p, "_gcd_write")
  /\ LET c == CallOf(Task(p)) IN
       IF c.reg >= GCD_END THEN Return(p, 1) /\ Stays(p, dev)
       ELSE Return(p, 0) /\ Stays(p, AfterStore(dev, Register(seg_gcd_base, 0, 0, c.reg), 0))
  /\ UNCHANGED <<full, buf, user>>

(* The value goes to the user, once there is one, and 0 is returned.       *)
GcdRead(p) ==
  /\ AtStep(p, "_gcd_read")
  /\ LET c == CallOf(Task(p))
         r == Register(seg_gcd_base, 0, 0, c.reg)
     IN  IF c.reg >= GCD_END THEN Return(p, 1) /\ Stays(p, dev)
         ELSE GcdAnswers(dev.busy, r.reg) /\ Return(p, 0) /\ Stays(p, AfterLoad(dev, r))
  /\ UNCHANGED <<full, buf, user>>

(* A step of the program or of the driver; _exit loops for ever.           *)
Run(p) ==
  \/ Call(p) \/ BackToUser(p) \/ TtyWrite(p) \/ TtyStatus(p) \/ TtyData(p)
  \/ TtyFull(p) \/ TtyBuf(p) \/ TtyReset(p) \/ TimerWrite(p) \/ GcdWrite(p) \/ GcdRead(p)
===============================================================================
